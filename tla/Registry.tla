------------------------------ MODULE Registry ------------------------------
(***************************************************************************)
(* matroska/registry.go and classify.go: a registry maps element IDs to       *)
(* names and value types, answers for its own entries first and falls back   *)
(* to the registry it was derived from; the built-in one ends the chain and   *)
(* knows which elements end an unknown-size master.  A consumer derives       *)
(* registries and registers elements in any of them, in any order.           *)
(***************************************************************************)
EXTENDS Naturals, Sequences, FiniteSets

CONSTANTS
  BuiltIn,           \* the table `elements`: ID to [name, type]
  LegacyNames,       \* aliases: name to ID
  CompleteChildren,  \* the child lists that are complete: ID to set of IDs
  GlobalElements,    \* IDs allowed inside every master
  Registrations,     \* what callers register: [id, name, type], "" a zero ID or no name
  MaxRegistries,     \* bound: registries made, Default counted
  MaxCalls           \* bound: Register and Override calls

NilRegistry == 0
Default == 1

TypeUnknown == "unknown"

\* The tables of elements.go: every element has an ID, a name of its own and a type; an
\* alias leads to an element, and the masters with a complete list are masters.
ASSUME RegistryAssumption ==
  /\ \A id \in DOMAIN BuiltIn :
       id # "" /\ BuiltIn[id].name # "" /\ BuiltIn[id].type # TypeUnknown
  /\ \A id, other \in DOMAIN BuiltIn : BuiltIn[id].name = BuiltIn[other].name => id = other
  /\ "" \notin DOMAIN LegacyNames
  /\ \A n \in DOMAIN LegacyNames : LegacyNames[n] \in DOMAIN BuiltIn
  /\ \A id \in DOMAIN CompleteChildren : id \in DOMAIN BuiltIn /\ BuiltIn[id].type = "master"
  /\ MaxRegistries \in Nat

\* Every ID a registry may be asked about, and every name.
KnownID == DOMAIN BuiltIn \cup {i.id : i \in Registrations}
KnownName ==
  {BuiltIn[id].name : id \in DOMAIN BuiltIn} \cup DOMAIN LegacyNames \cup {i.name : i \in Registrations}

VARIABLES
  base,      \* for each registry the one it falls back to
  entries,   \* its own entries: ID to [name, type]
  names,     \* its own names: name to ID
  \* History.
  last,      \* the last call: what it changed, or the error it reported
  calls,
  reordered  \* registries with an Override, or a later Register, in what they resolve through

regVars == <<base, entries, names, last, calls, reordered>>

Registries == 1..Len(base)

Call(call, r, id, error) == [call |-> call, r |-> r, id |-> id, error |-> error]

RegInit ==
  /\ base = <<NilRegistry>> /\ entries = <<BuiltIn>>
  /\ names = <<[n \in {BuiltIn[id].name : id \in DOMAIN BuiltIn} |->
                 CHOOSE id \in DOMAIN BuiltIn : BuiltIn[id].name = n]>>
  /\ last = Call("NewRegistry", NilRegistry, "", "none") /\ calls = 0 /\ reordered = {}

-----------------------------------------------------------------------------
(* What a registry answers.  NilRegistry, the end of every chain, knows nothing.      *)

None == [name |-> "", type |-> TypeUnknown]

\* Where the chain b of bases, from r on, first gets to a registry of Stop, or ends.
FirstIn(b, r, Stop) ==
  LET at[q \in 0..Len(b)] == IF q = NilRegistry \/ q \in Stop THEN q ELSE at[b[q]]
  IN at[r]

HaveEntry(id) == {q \in Registries : id \in DOMAIN entries[q]}

Lookup(r, id) ==
  LET q == FirstIn(base, r, HaveEntry(id))
  IN IF q = NilRegistry THEN None ELSE entries[q][id]

Resolves(r, id) == Lookup(r, id) # None

\* The aliases are the built-in table's.
HaveName(name) ==
  {q \in Registries : name \in DOMAIN names[q] \/ (q = Default /\ name \in DOMAIN LegacyNames)}

\* "" is what a lookup without a hit gives.
IDForName(r, name) ==
  LET q == FirstIn(base, r, HaveName(name))
  IN IF q = NilRegistry THEN "" ELSE IF name \in DOMAIN names[q] THEN names[q][name]
     ELSE LegacyNames[name]

\* The maps m and n as one, m over n.
Over(m, n) == [x \in DOMAIN m \cup DOMAIN n |-> IF x \in DOMAIN m THEN m[x] ELSE n[x]]

\* collect: the entries of the base first, then its own over them.
Elements(r) ==
  LET in[q \in 0..Len(base)] == IF q = NilRegistry THEN << >> ELSE Over(entries[q], in[base[q]])
  IN in[r]

KindForElementID(r, id) ==
  IF Lookup(r, id).type \in {"master", "uint"} THEN Lookup(r, id).type ELSE "binary"

-----------------------------------------------------------------------------
(* Boundaries                                                              *)

\* Mutant: an element of its own keeps the children of the one it replaces.
HasChildrenInherited(r, open) ==
  FirstIn(base, r, {Default}) = Default /\ open \in DOMAIN CompleteChildren

\* LegalChildren finds a complete list: only the built-in table has one, and an own
\* entry on the way there hides it.
HasChildren(r, open) ==
  /\ FirstIn(base, r, {Default} \cup HaveEntry(open)) = Default
  /\ open \in DOMAIN CompleteChildren

EndsUnknownSizeMaster(r, open, next) ==
  /\ HasChildren(r, open)
  /\ next \notin GlobalElements
  /\ next \in DOMAIN BuiltIn
  /\ next \notin CompleteChildren[open]

StreamBoundary(r, open, next) ==
  next \in {"EBML", "Segment"} \/ EndsUnknownSizeMaster(r, open, next)

-----------------------------------------------------------------------------
(* NewRegistry, Register and Override                                       *)

\* r, and the registries that resolve through it.
Derived(r) == {q \in Registries : FirstIn(base, q, {r}) = r}

NewRegistry(b) ==
  /\ Len(base) < MaxRegistries
  /\ base' = Append(base, b)
  /\ entries' = Append(entries, << >>) /\ names' = Append(names, << >>)
  /\ last' = Call("NewRegistry", NilRegistry, "", "none")
  /\ reordered' = IF b \in reordered THEN reordered \cup {Len(base) + 1} ELSE reordered
  /\ UNCHANGED calls

\* checkRegistrable
Refusal(r, info) ==
  IF r \in {NilRegistry, Default} THEN "immutable"
  ELSE IF info.id = "" \/ info.name = "" \/ info.type = TypeUnknown THEN "invalid"
  ELSE "none"

\* m[k] = v, of a map of Go.
Assigned(m, k, v) == [x \in {k} \cup DOMAIN m |-> IF x = k THEN v ELSE m[x]]

\* Mutant: an entry that is renamed keeps its former name.
PutKeepingNames(r, info) ==
  /\ entries' = [entries EXCEPT ![r] = Assigned(@, info.id, [name |-> info.name, type |-> info.type])]
  /\ names' = [names EXCEPT ![r] = Assigned(@, info.name, info.id)]

\* put: the name of the entry that is replaced goes first.
Put(r, info) ==
  LET retired == IF info.id \in DOMAIN entries[r]
                 THEN {entries[r][info.id].name} \ {info.name} ELSE {}
      kept == [n \in DOMAIN names[r] \ retired |-> names[r][n]]
  IN /\ entries' = [entries EXCEPT ![r] = Assigned(@, info.id, [name |-> info.name, type |-> info.type])]
     /\ names' = [names EXCEPT ![r] = Assigned(kept, info.name, info.id)]

\* Mutant: only its own entries are duplicates.
DuplicateOfOwn(r, info) ==
  \/ info.id \in DOMAIN entries[r]
  \/ info.name \in DOMAIN names[r] /\ names[r][info.name] # info.id

Duplicate(r, info) ==
  \/ Resolves(r, info.id)
  \/ IDForName(r, info.name) \notin {"", info.id}

Register(r, info) ==
  /\ calls < MaxCalls /\ calls' = calls + 1
  /\ UNCHANGED base
  /\ \/ /\ Refusal(r, info) # "none"
        /\ last' = Call("Register", NilRegistry, "", Refusal(r, info))
        /\ UNCHANGED <<entries, names, reordered>>
     \/ /\ Refusal(r, info) = "none" /\ Duplicate(r, info)
        /\ last' = Call("Register", NilRegistry, "", "duplicate")
        /\ UNCHANGED <<entries, names, reordered>>
     \/ /\ Refusal(r, info) = "none" /\ ~Duplicate(r, info)
        /\ Put(r, info)
        /\ last' = Call("Register", r, info.id, "none")
        /\ reordered' = reordered \cup (Derived(r) \ {r})

Override(r, info) ==
  /\ calls < MaxCalls /\ calls' = calls + 1
  /\ UNCHANGED base
  /\ \/ /\ Refusal(r, info) # "none"
        /\ last' = Call("Override", NilRegistry, "", Refusal(r, info))
        /\ UNCHANGED <<entries, names, reordered>>
     \/ /\ Refusal(r, info) = "none"
        /\ Put(r, info)
        /\ last' = Call("Override", r, info.id, "none")
        /\ reordered' = reordered \cup Derived(r)

RegNext ==
  \/ \E b \in {NilRegistry} \cup Registries : NewRegistry(b)
  \/ \E r \in {NilRegistry} \cup Registries, info \in Registrations :
       Register(r, info) \/ Override(r, info)

RegSpec == RegInit /\ [][RegNext]_regVars

-----------------------------------------------------------------------------

\* The variables have their types, and every registry falls back to an older one.
RegTypeOK ==
  /\ base \in Seq(0..MaxRegistries) /\ \A r \in Registries : base[r] < r
  /\ Len(entries) = Len(base) /\ Len(names) = Len(base)
  /\ \A r \in Registries :
       /\ DOMAIN entries[r] \subseteq KnownID \ {""}
       /\ \A id \in DOMAIN entries[r] : entries[r][id].name # "" /\ entries[r][id].type # TypeUnknown
       /\ DOMAIN names[r] \subseteq KnownName \ {""}
  /\ last.error \in {"none", "immutable", "invalid", "duplicate"}
  /\ reordered \subseteq Registries

\* The registries that were made; Default's table is given.
Made == Registries \ {Default}

\* A name of its own stands for the entry that bears it (the comment of put): after any
\* renaming, swapping of names and taking over of another entry's name.
OwnNamesAreReported ==
  \A r \in Made : \A n \in DOMAIN names[r] :
    LET id == names[r][n] IN id \in DOMAIN entries[r] /\ entries[r][id].name = n

\* Elements lists exactly what Lookup resolves, a shadowed entry once and in its own
\* form (registry.go:288).
ElementsAreWhatResolves ==
  \A r \in Made :
    /\ DOMAIN Elements(r) = {id \in KnownID : Resolves(r, id)}
    /\ \A id \in DOMAIN Elements(r) : Elements(r)[id] = Lookup(r, id)

\* As long as nothing was overridden, and nothing registered in a registry others had
\* been derived from, IDs and names are each other's inverse through the whole chain;
\* an alias leads to an element of another name (registry.go:95, :270).
NamesInvert ==
  \A r \in Made \ reordered :
    /\ \A id \in KnownID : Resolves(r, id) => IDForName(r, Lookup(r, id).name) = id
    /\ \A n \in KnownName : LET id == IDForName(r, n) IN
         id # "" => Lookup(r, id).name = n \/ n \in DOMAIN LegacyNames

\* Whatever is registered or overridden, no master ends where the schema would not end
\* it, none does that the cursor does not descend into, and none for the sake of an
\* element the schema does not place (classify.go:52, registry.go:217).
NothingEndsEarlier ==
  \A r \in Made, open \in KnownID, next \in KnownID :
    StreamBoundary(r, open, next) /\ next \notin {"EBML", "Segment"} =>
      /\ StreamBoundary(Default, open, next)
      /\ Lookup(r, open) = BuiltIn[open] /\ KindForElementID(r, open) = "master"
      /\ next \notin GlobalElements

\* A registry is coherent (registry.go:29): types, names and entries that agree, and
\* boundaries that only registrations by the schema can set.
RegInv ==
  RegTypeOK /\ OwnNamesAreReported /\ ElementsAreWhatResolves /\ NamesInvert /\ NothingEndsEarlier

\* A Register takes back nothing that any registry answers, its own, derived or not, and
\* moves no boundary; an Override changes what the registry and those derived from it say
\* of that one ID, and takes boundaries away only from a master of that ID; a call that
\* is refused changes nothing (registry.go:93, :127).
RegistrationIsContained ==
  [][<<base, entries, names>>' # <<base, entries, names>> => \A q \in Made, id \in KnownID :
       /\ \/ Lookup(q, id)' = Lookup(q, id)
          \/ last'.error = "none" /\ q \in Derived(last'.r) /\ id = last'.id
             /\ (last'.call = "Override" \/ ~Resolves(q, id))
       /\ \/ HasChildren(q, id)' = HasChildren(q, id)
          \/ last'.call = "Override" /\ q \in Derived(last'.r) /\ id = last'.id
       /\ last'.call = "Register" => \A n \in KnownName :
            IDForName(q, n) # "" => IDForName(q, n)' = IDForName(q, n)]_<<base, entries, names>>

\* What the comment of put says of every name a registry resolves (registry.go:156): an
\* Override of an inherited element leaves its inherited name resolving.
ResolvedNamesAreReported ==
  \A r \in Made, n \in KnownName : LET id == IDForName(r, n) IN
    id # "" => Lookup(r, id).name = n \/ n \in DOMAIN LegacyNames

\* What Override says of the names it replaces (registry.go:121): a name that was taken
\* over is retired with the entry that had it first, and the new bearer is not found.
ReportedNamesResolve ==
  \A r \in Made, id \in KnownID : Resolves(r, id) => IDForName(r, Lookup(r, id).name) # ""

=============================================================================
