----------------------------- MODULE ConfigLoader ---------------------------
(***************************************************************************)
(* The hand-written readers of the YAML configuration: parseRegistry,      *)
(* parseExpertDefinition and LoadSnapshot (internal/registry/loader.go),   *)
(* from which the orchestrator and the expert runtime learn the experts,   *)
(* and parseAgentRegistry (internal/agent/registry.go), from which the     *)
(* workspace server learns its agents.                                     *)
(*                                                                         *)
(* A file is read line by line, and any file of MaxLines lines may come.   *)
(* A line is what is left without comment and quotes: its leading spaces   *)
(* (a tab is none), its form, key and value.  The forms are "item"         *)
(* (- key: value), "field" (key: value), "bare" (a dash alone) and "text"  *)
(* (no colon).  An item without a colon has no key.  Blank lines are       *)
(* skipped by all readers and left out.                                    *)
(***************************************************************************)
EXTENDS Integers, Sequences, FiniteSets, FiniteSetsExt

Ext == INSTANCE SequencesExt

CONSTANTS
    RegistryLines,    \* the lines a registry file may have
    DefinitionLines,  \* those of an expert definition
    Dotted,           \* for a key with dots in it, the keys between them
    ExpertOf,         \* metadata.expert_id of the definition at a config_path
    Required,         \* the paths ValidateExpertDefinition asks for
    NoRef,            \* the nil pointer: no entry is being read
    MaxLines          \* bound: lines of a file

\* No value, and the values a line may have.
Empty == ""
Value == STRING \cup {Empty}

Line ==
    [indent : Nat, form : {"item", "field", "bare", "text"}, key : STRING, value : Value]

\* "list" is the key experts or agents; "req" is config_path, or name and role.
Ref == [id : Value, req : Value, enabled : BOOLEAN]
NewRef == [id |-> Empty, req |-> Empty, enabled |-> FALSE]

ASSUME ConfigLoaderAssumption ==
    /\ RegistryLines \subseteq Line /\ DefinitionLines \subseteq Line
    /\ NoRef \notin Ref
    /\ MaxLines \in Nat

VARIABLES
    reader,    \* "experts", "agents" or "definition"
    lines,     \* the lines read so far
    pc,        \* "reading", "loaded" or "rejected"
    in,        \* inExperts, inAgents
    out,       \* Registry.Experts, Registry.Agents
    current,   \* the entry being read
    stack,     \* the open keys of parseExpertDefinition: indent and key
    fields     \* the values of the ExpertDefinition: path and value, in order

vars == <<reader, lines, pc, in, out, current, stack, fields>>

Reject ==
    /\ pc' = "rejected"
    /\ UNCHANGED <<in, out, current>>

-----------------------------------------------------------------------------
\* applyRegistryItemField and applyAgentField: the expert registry is strict
\* about lines without a key and about booleans, the agent registry is not.
\* "true" and "false" stand for their spellings too; ParseBool's t, f, 1 and 0,
\* which only the expert registry takes, are left out.
Refuses(l) ==
    /\ reader = "experts"
    /\ \/ l.form \in {"bare", "text"} \/ l.key = Empty
       \/ l.key = "enabled" /\ l.value \notin {"true", "false"}

WithField(ref, l) ==
    IF l.form \in {"bare", "text"} THEN ref
    ELSE CASE l.key = "id" -> [ref EXCEPT !.id = l.value]
           [] l.key = "req" -> [ref EXCEPT !.req = l.value]
           [] l.key = "enabled" -> [ref EXCEPT !.enabled = l.value = "true"]
           [] OTHER -> ref

Flushed == IF current = NoRef THEN out ELSE Append(out, current)

\* A line without indentation: the section ends, or begins.
TopLine(l) ==
    /\ l.indent = 0
    /\ IF l.form = "field" /\ l.key = "list"
         THEN IF l.value # Empty THEN Reject ELSE in' = TRUE /\ UNCHANGED <<pc, out, current>>
         ELSE in' = FALSE /\ UNCHANGED <<pc, out, current>>

\* Any other line outside the section.
SkippedLine(l) ==
    /\ l.indent > 0 /\ ~in
    /\ UNCHANGED <<pc, in, out, current>>

\* Mutant: the entry that is open is dropped by the next one.
ItemLineDrops(l) ==
    /\ l.indent > 0 /\ in /\ l.form = "item"
    /\ current' = WithField(NewRef, l)
    /\ UNCHANGED <<pc, in, out>>

\* "- key: value" begins a new entry.
ItemLine(l) ==
    /\ l.indent > 0 /\ in /\ l.form = "item"
    /\ IF Refuses(l) THEN Reject
       ELSE /\ out' = Flushed
            /\ current' = WithField(NewRef, l)
            /\ UNCHANGED <<pc, in>>

\* Every other line belongs to the entry, a dash alone included: the prefix
\* "- " does not survive TrimSpace.
FieldLine(l) ==
    /\ l.indent > 0 /\ in /\ l.form # "item"
    /\ IF current = NoRef \/ Refuses(l) THEN Reject
       ELSE /\ current' = WithField(current, l)
            /\ UNCHANGED <<pc, in, out>>

\* ValidateRegistry and validateRegistry, of the entries.
Valid(refs) ==
    /\ reader = "experts" => refs # <<>>
    /\ \A i \in DOMAIN refs : refs[i].id # Empty /\ refs[i].req # Empty
    /\ \A i, j \in DOMAIN refs : refs[i].id = refs[j].id => i = j

Enabled(refs) == SelectSeq(refs, LAMBDA r : r.enabled)

\* LoadSnapshot: every enabled expert has a definition, of its own id.
Aligned(refs) ==
    \A i \in DOMAIN Enabled(refs) :
        LET r == Enabled(refs)[i] IN r.req \in DOMAIN ExpertOf /\ ExpertOf[r.req] = r.id

-----------------------------------------------------------------------------
\* Mutant: a key is left only by a line that is further left.
PoppedLate(l) == SubSeq(stack, 1, Max({0} \cup {i \in DOMAIN stack : l.indent >= stack[i].indent}))

\* The stack after the pops for a line: up to the last key left of it.
Popped(l) == SubSeq(stack, 1, Max({0} \cup {i \in DOMAIN stack : l.indent > stack[i].indent}))

Keys(nodes) == [i \in DOMAIN nodes |-> nodes[i].key]

\* strings.Join(keys, "."), cut at its dots: two lists of keys have the same
\* path if the dots are all that tells them apart.
Join(keys) ==
    Ext!FlattenSeq([i \in DOMAIN keys |->
        IF keys[i] \in DOMAIN Dotted THEN Dotted[keys[i]] ELSE <<keys[i]>>])

\* The cases of the two switches: where a list item, and where a value goes.
ListPaths ==
    {<<"spec", "capabilities">>, <<"spec", "routing", "tags">>, <<"spec", "inputs", "accepts">>}

ValuePaths ==
    {<<"api_version">>, <<"kind">>, <<"spec", "enabled">>, <<"spec", "routing", "priority">>}
    \cup {<<"metadata", k>> : k \in {"expert_id", "expert_name", "expert_type", "version",
                                    "owner", "description"}}
    \cup {<<"spec", "runtime", k>> : k \in {"mode", "entrypoint", "timeout_seconds",
                                           "max_concurrency"}}
    \cup {<<"spec", "outputs", k>> : k \in {"result_schema", "evidence_mode"}}

\* Booleans and numbers that do not parse are ignored.
Parses(path, v) ==
    path \in {<<"spec", "enabled">>, <<"spec", "routing", "priority">>,
              <<"spec", "runtime", "timeout_seconds">>, <<"spec", "runtime", "max_concurrency">>}
    => v # "malformed"

Store(path, paths, v) ==
    fields' = IF path \in paths /\ Parses(path, v)
              THEN Append(fields, [path |-> path, value |-> v]) ELSE fields

\* A line of parseExpertDefinition.
DefinitionLine(l) ==
    LET nodes == Popped(l) IN
    /\ CASE l.form = "item" ->
              /\ Store(Join(Keys(nodes)), ListPaths, l.value)
              /\ stack' = nodes
         [] l.form = "field" /\ l.value = Empty ->
              /\ stack' = Append(nodes, [indent |-> l.indent, key |-> l.key])
              /\ UNCHANGED fields
         [] l.form = "field" /\ l.value # Empty ->
              /\ Store(Join(Append(Keys(nodes), l.key)), ValuePaths, l.value)
              /\ stack' = nodes
         [] OTHER -> stack' = nodes /\ UNCHANGED fields
    /\ UNCHANGED <<pc, in, out, current>>

Admitted(f) ==
    CASE f.path = <<"spec", "capabilities">> -> f.value \in {"daily_brief", "query"}
      [] f.path = <<"spec", "outputs", "evidence_mode">> -> f.value \in {"references", "citations"}
      [] f.path = <<"metadata", "version">> -> f.value # "malformed"
      [] f.path \in {<<"spec", "runtime", k>> : k \in {"timeout_seconds", "max_concurrency"}} ->
           f.value # "0"
      [] OTHER -> TRUE

\* ValidateExpertDefinition: nothing is missing, and every list item, and the
\* last value of every other path, is admitted.
ValidDefinition ==
    /\ \A p \in Required : \E i \in DOMAIN fields : fields[i].path = p
    /\ \A i \in DOMAIN fields :
         \/ Admitted(fields[i])
         \/ /\ fields[i].path \notin ListPaths
            /\ \E j \in DOMAIN fields : j > i /\ fields[j].path = fields[i].path

-----------------------------------------------------------------------------
ReadLine(l) ==
    /\ pc = "reading" /\ Len(lines) < MaxLines
    /\ lines' = Append(lines, l)
    /\ UNCHANGED reader
    /\ \/ reader = "definition" /\ DefinitionLine(l)
       \/ /\ reader # "definition"
          /\ TopLine(l) \/ SkippedLine(l) \/ ItemLine(l) \/ FieldLine(l)
          /\ UNCHANGED <<stack, fields>>

\* The end of the file, validation, and LoadSnapshot or
\* LoadRegistryWithAgents.  The lines api_version and kind are right.
Finish ==
    /\ pc = "reading"
    /\ LET accepted == CASE reader = "definition" -> ValidDefinition
                         [] reader = "experts" -> Valid(Flushed) /\ Aligned(Flushed)
                         [] reader = "agents" -> Valid(Flushed)
       IN  pc' = IF accepted THEN "loaded" ELSE "rejected"
    /\ out' = Flushed
    /\ current' = NoRef
    /\ UNCHANGED <<reader, lines, in, stack, fields>>

Init ==
    /\ reader \in {"experts", "agents", "definition"}
    /\ lines = <<>> /\ pc = "reading" /\ in = FALSE
    /\ out = <<>> /\ current = NoRef
    /\ stack = <<>> /\ fields = <<>>

Next ==
    \/ \E l \in IF reader = "definition" THEN DefinitionLines ELSE RegistryLines : ReadLine(l)
    \/ Finish

Spec == Init /\ [][Next]_vars

-----------------------------------------------------------------------------
(* What the files mean as YAML.                                            *)
Indexes == DOMAIN lines
IsListKey(i) == lines[i].indent = 0 /\ lines[i].form = "field" /\ lines[i].key = "list"
IsDash(i) == lines[i].form \in {"item", "bare"}

\* Line i is part of the sequence: it comes after the key and before the next
\* key without indentation.
InSequence(i) ==
    \E k \in Indexes :
        /\ k < i /\ IsListKey(k)
        /\ \A j \in k + 1 .. i : lines[j].indent > 0 \/ IsDash(j)

\* A finite set of line numbers, in the order of the file.
Ascends(s) == \A i, j \in DOMAIN s : i < j => s[i] < s[j]
InOrder(S) == CHOOSE s \in [1 .. Cardinality(S) -> S] : Ascends(s)

\* The lines of the entry that begins with dash d, and what they give a key:
\* the last value counts.
EntryLines(d) == {i \in d .. Len(lines) : InSequence(i) /\ \A j \in d + 1 .. i : ~IsDash(j)}
Given(d, key) ==
    {i \in EntryLines(d) : lines[i].form \in {"item", "field"} /\ lines[i].key = key}
LastValue(d, key) == IF Given(d, key) = {} THEN Empty ELSE lines[Max(Given(d, key))].value

EntryOf(d) ==
    [id |-> LastValue(d, "id"), req |-> LastValue(d, "req"),
     enabled |-> LastValue(d, "enabled") = "true"]

Dashes == {i \in Indexes : IsDash(i) /\ InSequence(i)}

Meaning == [n \in DOMAIN InOrder(Dashes) |-> EntryOf(InOrder(Dashes)[n])]

\* One sequence, written with one indentation, whose entries have their keys
\* deeper than their dash.
WellFormed ==
    /\ \A i, j \in Indexes : IsListKey(i) /\ IsListKey(j) => i = j
    /\ \A i, j \in Indexes : IsDash(i) /\ IsDash(j) => lines[i].indent = lines[j].indent
    /\ \A i \in Indexes : lines[i].form # "text"

\* The agent registry needs more of its file: a dash with a key behind it, and
\* indented (a dash alone joins two agents into one, and agents that are not
\* indented are none).
Readable ==
    /\ WellFormed
    /\ reader = "agents" =>
         \A i \in Indexes : IsDash(i) => lines[i].form = "item" /\ lines[i].indent > 0

\* A registry that is loaded says what its file says: its experts or agents
\* are the entries of the sequence, in order and with their own fields, and
\* whatever parseRegistry cannot read is rejected.
LoadedAsWritten ==
    pc = "loaded" /\ reader # "definition" /\ Readable => out = Meaning

\* Line k is a key that holds line i: the lines between are deeper than it.
Holds(k, i) ==
    /\ k < i /\ lines[k].form = "field" /\ lines[k].value = Empty
    /\ \A j \in k + 1 .. i : lines[j].indent > lines[k].indent

PathOf(i) ==
    LET keys == InOrder({k \in Indexes : Holds(k, i)})
        path == [n \in DOMAIN keys |-> lines[keys[n]].key]
    IN  Join(IF lines[i].form = "item" THEN path ELSE Append(path, lines[i].key))

\* The lines whose value the ExpertDefinition has a place for.
HasPlace(i) ==
    \/ lines[i].form = "item" /\ PathOf(i) \in ListPaths
    \/ /\ lines[i].form = "field" /\ lines[i].value # Empty
       /\ PathOf(i) \in ValuePaths /\ Parses(PathOf(i), lines[i].value)

Valued == {i \in Indexes : HasPlace(i)}

\* The stack of parseExpertDefinition is the nesting of the file: each value
\* is stored under the path of the keys that hold its line, joined by dots,
\* whatever the lines before it left open, and in the order of the file.  A
\* key with dots in it thereby names a nested place, as it does not in YAML.
\* (YAML also lets the items of a list stand below their key without more
\* indentation; this reader drops them, and a definition without capabilities
\* is rejected.)
StoredWhereNested ==
    reader = "definition" =>
        fields = [n \in DOMAIN InOrder(Valued) |->
                    [path |-> PathOf(InOrder(Valued)[n]), value |-> lines[InOrder(Valued)[n]].value]]
=============================================================================
