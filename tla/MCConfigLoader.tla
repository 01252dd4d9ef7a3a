---------------------------- MODULE MCConfigLoader --------------------------
(* Instances of ConfigLoader for TLC.                                      *)
EXTENDS ConfigLoader, TLC

L(n, f, k, v) == [indent |-> n, form |-> f, key |-> k, value |-> v]

\* The key of the list, also with a value; another top-level key; entries a
\* and b, also not indented, also with a dash alone; their other fields.
ListFileLines ==
    {L(0, "field", "list", ""), L(0, "field", "list", "x"), L(0, "field", "other", "v"),
     L(2, "item", "id", "a"), L(2, "item", "id", "b"), L(0, "item", "id", "a"),
     L(2, "item", "enabled", "maybe"), L(2, "item", "", "x"), L(2, "bare", "", ""),
     L(4, "field", "id", "b"), L(4, "field", "req", "pa"),
     L(4, "field", "enabled", "true"), L(4, "field", "enabled", "maybe"),
     L(4, "text", "", "")}

\* Keys that open a level and keys with a value, at several depths, list items,
\* a line without a key, and keys with dots in them.
ExpertFileLines ==
    {L(0, "field", "metadata", ""), L(0, "field", "spec", ""), L(2, "field", "runtime", ""),
     L(2, "field", "capabilities", ""), L(2, "field", "expert_id", "a"),
     L(4, "field", "mode", "http"), L(4, "field", "timeout_seconds", "malformed"),
     L(4, "field", "timeout_seconds", "0"), L(2, "item", "", "query"), L(4, "item", "", "query"),
     L(4, "item", "", "poem"), L(2, "field", "owner", ""), L(4, "text", "", ""),
     L(0, "field", "metadata.expert_id", "b"), L(0, "field", "spec.runtime", "")}

\* One field of each depth.
RequiredPaths == {<<"metadata", "expert_id">>, <<"spec", "runtime", "mode">>}

DottedKeys ==
    "metadata.expert_id" :> <<"metadata", "expert_id">> @@ "spec.runtime" :> <<"spec", "runtime">>

ConfigPaths == "pa" :> "a"
=============================================================================
