--------------------------- MODULE Elements_proofs ---------------------------
(***************************************************************************)
(* Elements as they are declared and as they are read.  Registries, for    *)
(* every built-in table, every set of registrations and every chain of     *)
(* registries: what they answer stays coherent, and what one call changes  *)
(* is contained.  Trees, for every text and every classifier: what Parse   *)
(* attaches is what the text declares, where it declares it; and what was  *)
(* read to its end is written back as it was, and its checksums are those  *)
(* of its bytes.                                                           *)
(***************************************************************************)
EXTENDS Tree, Registry, Facts_proofs, FiniteSetTheorems

-----------------------------------------------------------------------------
(* The chain of the bases.                                                 *)

\* Every registry falls back to nil or to an older one.
IsChain(b) == Len(b) \in Nat /\ Linked(b, Len(b))

\* A chain stops where it is asked to, or goes on at the base.
Steps(b, Stop) ==
  /\ FirstIn(b, NilRegistry, Stop) = NilRegistry
  /\ \A r \in 1..Len(b) : FirstIn(b, r, Stop) = IF r \in Stop THEN r ELSE FirstIn(b, b[r], Stop)

LEMMA FirstSteps ==
  ASSUME NEW b, IsChain(b), NEW Stop
  PROVE  Steps(b, Stop)
  <1> DEFINE Value(f, q) == IF q = NilRegistry \/ q \in Stop THEN q ELSE f[b[q]]
             Ends == {q \in 0..Len(b) : q = NilRegistry \/ q \in Stop}
             v == [q \in 0..Len(b) |-> q]
             at == CHOOSE f : f = [q \in 0..Len(b) |-> Value(f, q)]
  <1>b. \A q \in 1..Len(b) : b[q] \in 0..Len(b)
    BY DEF IsChain, Linked
  <1>1. PICK g : Follows(g, b, Len(b), Ends, v)
    <2>1. 0 \in Ends
      BY DEF NilRegistry, IsChain
    <2> HIDE DEF Ends, v
    <2> QED BY <2>1, ChainFunction DEF IsChain
  <1> DEFINE f == [q \in 0..Len(b) |-> g[q]]
  <1>2. f = [q \in 0..Len(b) |-> Value(f, q)]
    <2>1. \A q \in 0..Len(b) : g[q] = Value(f, q)
      BY <1>1, <1>b DEF NilRegistry, Follows
    <2> HIDE DEF Value
    <2> QED BY <2>1
  <1>3. at = [q \in 0..Len(b) |-> Value(at, q)]
    <2> HIDE DEF f
    <2> QED BY <1>2, Zenon
  <1>4. \A r : FirstIn(b, r, Stop) = at[r]
    BY Zenon DEF FirstIn
  <1> HIDE DEF at
  <1>5. \A q \in 0..Len(b) : at[q] = Value(at, q)
    <2> HIDE DEF Value
    <2> QED BY <1>3
  <1> QED BY <1>4, <1>5, <1>b DEF NilRegistry, Steps

\* It stops at a registry it was asked to stop at, or at nil.
LEMMA FirstRange ==
  ASSUME NEW b, IsChain(b), NEW Stop, NEW r \in 0..Len(b)
  PROVE  FirstIn(b, r, Stop) \in {NilRegistry} \cup (Stop \cap 1..r)
  <1> DEFINE S == {q \in 0..Len(b) : FirstIn(b, q, Stop) \in {NilRegistry} \cup (Stop \cap 1..q)}
  <1>1. ASSUME NEW q \in 0..Len(b), \A k \in 0..(q - 1) : k \in S PROVE q \in S
    <2>1. CASE q = 0
      BY <2>1, FirstSteps DEF Steps, NilRegistry
    <2>2. CASE q # 0 /\ q \in Stop
      BY <2>2, FirstSteps DEF Steps
    <2>3. CASE q # 0 /\ q \notin Stop
      <3>0. q \in 1..Len(b)
        BY <2>3 DEF IsChain
      <3>1. b[q] \in 0..(q - 1)
        BY <3>0 DEF IsChain, Linked
      <3>4. FirstIn(b, q, Stop) = FirstIn(b, b[q], Stop)
        <4>1. Steps(b, Stop)
          BY FirstSteps
        <4>2. FirstIn(b, q, Stop) = IF q \in Stop THEN q ELSE FirstIn(b, b[q], Stop)
          BY <3>0, <4>1 DEF Steps
        <4> QED BY <2>3, <4>2
      <3>2. FirstIn(b, b[q], Stop) \in {NilRegistry} \cup (Stop \cap 1..b[q])
        BY <1>1, <3>1
      <3>3. 1..b[q] \subseteq 1..q
        BY <3>1
      <3> QED BY <3>1, <3>2, <3>3, <3>4
    <2> QED BY <2>1, <2>2, <2>3
  <1> HIDE DEF S
  <1>2. 0..Len(b) \subseteq S
    BY <1>1, StrongInduction DEF IsChain
  <1> QED BY <1>2 DEF S

\* Chains that agree, and are asked to stop at the same places, stop there.
LEMMA FirstAgrees ==
  ASSUME NEW b, IsChain(b), NEW Stop,
         NEW c, IsChain(c), NEW Stop2,
         NEW n \in 0..Len(b), n <= Len(c),
         \A q \in 1..n : c[q] = b[q] /\ (q \in Stop2 <=> q \in Stop)
  PROVE  \A r \in 0..n : FirstIn(c, r, Stop2) = FirstIn(b, r, Stop)
  <1> DEFINE S == {q \in 0..n : FirstIn(c, q, Stop2) = FirstIn(b, q, Stop)}
  <1>1. ASSUME NEW q \in 0..n, \A k \in 0..(q - 1) : k \in S PROVE q \in S
    <2>1. CASE q = 0
      BY <2>1, FirstSteps DEF Steps, NilRegistry
    <2>2. CASE q # 0
      <3>1. /\ q \in 1..n /\ q \in 1..Len(b) /\ q \in 1..Len(c)
            /\ b[q] \in 0..(q - 1) /\ c[q] = b[q]
        BY <2>2 DEF IsChain, Linked
      <3>2. FirstIn(c, b[q], Stop2) = FirstIn(b, b[q], Stop)
        BY <1>1, <3>1
      <3>3. /\ FirstIn(b, q, Stop) = IF q \in Stop THEN q ELSE FirstIn(b, b[q], Stop)
            /\ FirstIn(c, q, Stop2) = IF q \in Stop2 THEN q ELSE FirstIn(c, c[q], Stop2)
        BY <3>1, FirstSteps, ZenonT(60) DEF Steps
      <3> QED BY <3>1, <3>2, <3>3
    <2> QED BY <2>1, <2>2
  <1> HIDE DEF S
  <1>2. n \in Nat
    BY DEF IsChain
  <1>3. 0..n \subseteq S
    BY <1>1, <1>2, StrongInduction DEF IsChain
  <1> QED BY <1>3 DEF S

\* Where a chain stops it comes by.
LEMMA FirstReaches ==
  ASSUME NEW b, IsChain(b), NEW Stop, NEW r \in 1..Len(b)
  PROVE  \A q \in 0..Len(b) : FirstIn(b, q, Stop) = r => FirstIn(b, q, {r}) = r
  <1> DEFINE R == {r}
  <1>r. \A q : q \in R <=> q = r
    OBVIOUS
  <1> HIDE DEF R
  <1>s. \A q \in 1..Len(b) : FirstIn(b, q, Stop) = IF q \in Stop THEN q ELSE FirstIn(b, b[q], Stop)
    BY FirstSteps DEF Steps
  <1>t. \A q \in 1..Len(b) : FirstIn(b, q, R) = IF q \in R THEN q ELSE FirstIn(b, b[q], R)
    BY FirstSteps DEF Steps
  <1> DEFINE S == {q \in 0..Len(b) : FirstIn(b, q, Stop) = r => FirstIn(b, q, R) = r}
  <1>1. ASSUME NEW q \in 0..Len(b), \A k \in 0..(q - 1) : k \in S PROVE q \in S
    <2>1. CASE q = 0
      <3>1. FirstIn(b, q, Stop) = NilRegistry /\ NilRegistry # r
        BY <2>1, FirstSteps DEF Steps, NilRegistry
      <3> QED BY <3>1
    <2>2. CASE q # 0
      <3>1. q \in 1..Len(b) /\ b[q] \in 0..(q - 1)
        BY <2>2 DEF IsChain, Linked
      <3>2. /\ FirstIn(b, q, Stop) = IF q \in Stop THEN q ELSE FirstIn(b, b[q], Stop)
            /\ FirstIn(b, q, R) = IF q \in R THEN q ELSE FirstIn(b, b[q], R)
        BY <3>1, <1>s, <1>t
      <3> QED BY <1>1, <1>r, <3>1, <3>2
    <2> QED BY <2>1, <2>2
  <1> HIDE DEF S
  <1>2. 0..Len(b) \subseteq S
    BY <1>1, StrongInduction DEF IsChain
  <1> QED BY <1>2 DEF S, R

\* A chain that does not come by r stops where it did, whatever becomes of r.
LEMMA FirstElsewhere ==
  ASSUME NEW b, IsChain(b), NEW r \in 1..Len(b),
         NEW Stop, NEW Stop2, \A q \in 1..Len(b) : q # r => (q \in Stop2 <=> q \in Stop)
  PROVE  \A q \in 0..Len(b) : FirstIn(b, q, {r}) # r => FirstIn(b, q, Stop2) = FirstIn(b, q, Stop)
  <1> DEFINE R == {r}
  <1>r. \A q : q \in R <=> q = r
    OBVIOUS
  <1> HIDE DEF R
  <1>s. \A q \in 1..Len(b) : FirstIn(b, q, Stop) = IF q \in Stop THEN q ELSE FirstIn(b, b[q], Stop)
    BY FirstSteps DEF Steps
  <1>t. \A q \in 1..Len(b) : FirstIn(b, q, Stop2) = IF q \in Stop2 THEN q ELSE FirstIn(b, b[q], Stop2)
    BY FirstSteps DEF Steps
  <1>u. \A q \in 1..Len(b) : FirstIn(b, q, R) = IF q \in R THEN q ELSE FirstIn(b, b[q], R)
    BY FirstSteps, SMTT(30) DEF Steps
  <1> DEFINE S == {q \in 0..Len(b) : FirstIn(b, q, R) # r =>
                                       FirstIn(b, q, Stop2) = FirstIn(b, q, Stop)}
  <1>1. ASSUME NEW q \in 0..Len(b), \A k \in 0..(q - 1) : k \in S PROVE q \in S
    <2>1. CASE q = 0
      BY <2>1, FirstSteps DEF Steps, NilRegistry
    <2>2. CASE q # 0
      <3>1. q \in 1..Len(b) /\ b[q] \in 0..(q - 1)
        BY <2>2 DEF IsChain, Linked
      <3>2. /\ FirstIn(b, q, Stop) = IF q \in Stop THEN q ELSE FirstIn(b, b[q], Stop)
            /\ FirstIn(b, q, Stop2) = IF q \in Stop2 THEN q ELSE FirstIn(b, b[q], Stop2)
            /\ FirstIn(b, q, R) = IF q \in R THEN q ELSE FirstIn(b, b[q], R)
        BY <3>1, <1>s, <1>t, <1>u
      <3> QED BY <1>1, <1>r, <3>1, <3>2
    <2> QED BY <2>1, <2>2
  <1> HIDE DEF S
  <1>2. 0..Len(b) \subseteq S
    BY <1>1, StrongInduction DEF IsChain
  <1> QED BY <1>2 DEF S, R

\* A chain that is asked to stop at r too stops where it did, or comes by r, stops there,
\* and would have gone on from there.
LEMMA FirstThrough ==
  ASSUME NEW b, IsChain(b), NEW r \in 1..Len(b), NEW Stop, NEW Stop2,
         r \in Stop2, \A q \in 1..Len(b) : q # r => (q \in Stop2 <=> q \in Stop)
  PROVE  \A q \in 0..Len(b) :
           \/ FirstIn(b, q, Stop2) = FirstIn(b, q, Stop) /\ FirstIn(b, q, Stop2) # r
           \/ /\ FirstIn(b, q, Stop2) = r /\ FirstIn(b, q, {r}) = r
              /\ FirstIn(b, q, Stop) = FirstIn(b, r, Stop)
  <1> DEFINE R == {r}
  <1>r. \A q : q \in R <=> q = r
    OBVIOUS
  <1> HIDE DEF R
  <1>s. \A q \in 1..Len(b) : FirstIn(b, q, Stop) = IF q \in Stop THEN q ELSE FirstIn(b, b[q], Stop)
    BY FirstSteps DEF Steps
  <1>t. \A q \in 1..Len(b) : FirstIn(b, q, Stop2) = IF q \in Stop2 THEN q ELSE FirstIn(b, b[q], Stop2)
    BY FirstSteps DEF Steps
  <1>u. \A q \in 1..Len(b) : FirstIn(b, q, R) = IF q \in R THEN q ELSE FirstIn(b, b[q], R)
    <2>1. Steps(b, R)
      BY FirstSteps
    <2> QED BY <2>1 DEF Steps
  <1> DEFINE Thesis(q) ==
               \/ FirstIn(b, q, Stop2) = FirstIn(b, q, Stop) /\ FirstIn(b, q, Stop2) # r
               \/ /\ FirstIn(b, q, Stop2) = r /\ FirstIn(b, q, R) = r
                  /\ FirstIn(b, q, Stop) = FirstIn(b, r, Stop)
             S == {q \in 0..Len(b) : Thesis(q)}
  <1>1. ASSUME NEW q \in 0..Len(b), \A k \in 0..(q - 1) : k \in S PROVE q \in S
    <2>1. CASE q = 0
      <3>1. /\ FirstIn(b, q, Stop) = NilRegistry /\ FirstIn(b, q, Stop2) = NilRegistry
            /\ NilRegistry # r
        BY <2>1, FirstSteps DEF Steps, NilRegistry
      <3> QED BY <3>1
    <2>2. CASE q # 0
      <3>1. q \in 1..Len(b) /\ b[q] \in 0..(q - 1)
        BY <2>2 DEF IsChain, Linked
      <3>2. /\ FirstIn(b, q, Stop) = IF q \in Stop THEN q ELSE FirstIn(b, b[q], Stop)
            /\ FirstIn(b, q, Stop2) = IF q \in Stop2 THEN q ELSE FirstIn(b, b[q], Stop2)
            /\ FirstIn(b, q, R) = IF q \in R THEN q ELSE FirstIn(b, b[q], R)
        BY <3>1, <1>s, <1>t, <1>u
      <3>3. Thesis(b[q])
        BY <1>1, <3>1
      <3> QED BY <1>r, <3>1, <3>2, <3>3
    <2> QED BY <2>1, <2>2
  <1> HIDE DEF S
  <1>2. 0..Len(b) \subseteq S
    BY <1>1, StrongInduction DEF IsChain
  <1> QED BY <1>2 DEF S, R

-----------------------------------------------------------------------------
(* What a registry answers, of the tables: so that it is spoken of before and  *)
(* after a step.                                                           *)

EntriesOf(b, e, id) == {q \in 1..Len(b) : id \in DOMAIN e[q]}

LookupIn(b, e, r, id) ==
  LET q == FirstIn(b, r, EntriesOf(b, e, id)) IN IF q = NilRegistry THEN None ELSE e[q][id]

NamesOf(b, ns, n) ==
  {q \in 1..Len(b) : n \in DOMAIN ns[q] \/ (q = Default /\ n \in DOMAIN LegacyNames)}

NameIn(b, ns, r, n) ==
  LET q == FirstIn(b, r, NamesOf(b, ns, n))
  IN IF q = NilRegistry THEN "" ELSE IF n \in DOMAIN ns[q] THEN ns[q][n] ELSE LegacyNames[n]

ChildrenIn(b, e, r, open) ==
  /\ FirstIn(b, r, {Default} \cup EntriesOf(b, e, open)) = Default
  /\ open \in DOMAIN CompleteChildren

LEMMA OfTables ==
  /\ \A r, id : Lookup(r, id) = LookupIn(base, entries, r, id)
  /\ \A r, id : Lookup(r, id)' = LookupIn(base', entries', r, id)
  /\ \A r, n : IDForName(r, n) = NameIn(base, names, r, n)
  /\ \A r, n : IDForName(r, n)' = NameIn(base', names', r, n)
  /\ \A r, id : HasChildren(r, id) = ChildrenIn(base, entries, r, id)
  /\ \A r, id : HasChildren(r, id)' = ChildrenIn(base', entries', r, id)
  <1>1. /\ \A id : HaveEntry(id) = EntriesOf(base, entries, id)
        /\ \A id : HaveEntry(id)' = EntriesOf(base', entries', id)
        /\ \A n : HaveName(n) = NamesOf(base, names, n)
        /\ \A n : HaveName(n)' = NamesOf(base', names', n)
    BY DEF HaveEntry, EntriesOf, HaveName, NamesOf, Registries
  <1>2. /\ \A r, id : Lookup(r, id) = LookupIn(base, entries, r, id)
        /\ \A r, id : Lookup(r, id)' = LookupIn(base', entries', r, id)
    BY <1>1, Zenon DEF Lookup, LookupIn
  <1>3. /\ \A r, n : IDForName(r, n) = NameIn(base, names, r, n)
        /\ \A r, n : IDForName(r, n)' = NameIn(base', names', r, n)
    BY <1>1, Zenon DEF IDForName, NameIn
  <1>4. /\ \A r, id : HasChildren(r, id) = ChildrenIn(base, entries, r, id)
        /\ \A r, id : HasChildren(r, id)' = ChildrenIn(base', entries', r, id)
    BY <1>1, Zenon DEF HasChildren, ChildrenIn
  <1> QED BY <1>2, <1>3, <1>4

\* A lookup finds its own entry, or what the base has.
LEMMA LookupSteps ==
  ASSUME NEW b, IsChain(b), NEW e, NEW id
  PROVE  /\ LookupIn(b, e, NilRegistry, id) = None
         /\ \A r \in 1..Len(b) : LookupIn(b, e, r, id) =
              IF id \in DOMAIN e[r] THEN e[r][id] ELSE LookupIn(b, e, b[r], id)
  <1> DEFINE Stop == EntriesOf(b, e, id)
  <1>3. \A r \in 1..Len(b) : (r \in Stop <=> id \in DOMAIN e[r]) /\ r # NilRegistry
    BY DEF EntriesOf, NilRegistry, IsChain
  <1> HIDE DEF Stop
  <1>s. Steps(b, Stop)
    BY FirstSteps
  <1>1. FirstIn(b, NilRegistry, Stop) = NilRegistry
    BY <1>s DEF Steps
  <1>2. \A r \in 1..Len(b) : FirstIn(b, r, Stop) = IF r \in Stop THEN r ELSE FirstIn(b, b[r], Stop)
    BY <1>s DEF Steps
  <1>4. \A r : LookupIn(b, e, r, id) =
          IF FirstIn(b, r, Stop) = NilRegistry THEN None ELSE e[FirstIn(b, r, Stop)][id]
    BY Zenon DEF LookupIn, Stop
  <1> QED BY <1>1, <1>2, <1>3, <1>4

\* The ID of a name is that of its own name, of an alias, or what the base has.
LEMMA NameSteps ==
  ASSUME NEW b, IsChain(b), NEW ns, NEW n
  PROVE  /\ NameIn(b, ns, NilRegistry, n) = ""
         /\ \A r \in 1..Len(b) : NameIn(b, ns, r, n) =
              IF n \in DOMAIN ns[r] THEN ns[r][n]
              ELSE IF r = Default /\ n \in DOMAIN LegacyNames THEN LegacyNames[n]
              ELSE NameIn(b, ns, b[r], n)
  <1> DEFINE Stop == NamesOf(b, ns, n)
             Alias(r) == r = Default /\ n \in DOMAIN LegacyNames
  <1>3. \A r \in 1..Len(b) : (r \in Stop <=> n \in DOMAIN ns[r] \/ Alias(r)) /\ r # NilRegistry
    BY DEF NamesOf, NilRegistry, IsChain
  <1> HIDE DEF Stop
  <1>s. Steps(b, Stop)
    BY FirstSteps
  <1>1. FirstIn(b, NilRegistry, Stop) = NilRegistry
    BY <1>s DEF Steps
  <1>2. \A r \in 1..Len(b) : FirstIn(b, r, Stop) = IF r \in Stop THEN r ELSE FirstIn(b, b[r], Stop)
    BY <1>s DEF Steps
  <1>4. \A r : NameIn(b, ns, r, n) =
          IF FirstIn(b, r, Stop) = NilRegistry THEN ""
          ELSE IF n \in DOMAIN ns[FirstIn(b, r, Stop)] THEN ns[FirstIn(b, r, Stop)][n]
          ELSE LegacyNames[n]
    BY Zenon DEF NameIn, Stop
  <1>5. NameIn(b, ns, NilRegistry, n) = ""
    BY <1>1, <1>4
  <1>6. ASSUME NEW r \in 1..Len(b)
        PROVE  NameIn(b, ns, r, n) =
                 IF n \in DOMAIN ns[r] THEN ns[r][n]
                 ELSE IF Alias(r) THEN LegacyNames[n] ELSE NameIn(b, ns, b[r], n)
    <2> HIDE DEF Alias
    <2>1. CASE r \in Stop
      BY <1>2, <1>3, <1>4, <2>1
    <2>2. CASE r \notin Stop
      <3>1. FirstIn(b, r, Stop) = FirstIn(b, b[r], Stop) /\ n \notin DOMAIN ns[r] /\ ~Alias(r)
        BY <1>2, <1>3, <2>2
      <3>2. NameIn(b, ns, r, n) = NameIn(b, ns, b[r], n)
        BY <1>4, <3>1
      <3> QED BY <3>1, <3>2
    <2> QED BY <2>1, <2>2
  <1> QED BY <1>5, <1>6

-----------------------------------------------------------------------------
(* The names.                                                              *)

\* Every registry has its entries and its names.
TablesInv ==
  /\ IsSequence(base) /\ IsSequence(entries) /\ IsSequence(names)
  /\ Len(entries) = Len(base) /\ Len(names) = Len(base)

NamesInv == TablesInv /\ OwnNamesAreReported /\ entries[Default] = BuiltIn /\ Len(base) >= Default

\* What put makes of the tables of r.
PutDone(r, info) ==
  /\ r \in 1..Len(base) /\ r # Default
  /\ IsSequence(entries') /\ IsSequence(names')
  /\ Len(entries') = Len(base) /\ Len(names') = Len(base)
  /\ \A q \in 1..Len(base) : q # r => entries'[q] = entries[q] /\ names'[q] = names[q]
  /\ DOMAIN entries'[r] = {info.id} \cup DOMAIN entries[r]
  /\ entries'[r][info.id] = [name |-> info.name, type |-> info.type]
  /\ \A id \in DOMAIN entries[r] : id # info.id => entries'[r][id] = entries[r][id]
  /\ info.name \in DOMAIN names'[r] /\ names'[r][info.name] = info.id
  /\ \A n \in DOMAIN names'[r] : n # info.name =>
       /\ n \in DOMAIN names[r] /\ names'[r][n] = names[r][n]
       /\ info.id \in DOMAIN entries[r] => n # entries[r][info.id].name
  /\ info.id \notin DOMAIN entries[r] => DOMAIN names'[r] = {info.name} \cup DOMAIN names[r]

LEMMA PutFacts ==
  ASSUME NamesInv, NEW r \in Made, NEW info, Put(r, info)
  PROVE  PutDone(r, info)
  <1>1. /\ Len(base) \in Nat /\ DOMAIN entries = 1..Len(base) /\ DOMAIN names = 1..Len(base)
        /\ r \in 1..Len(base) /\ r # Default
    BY DEF NamesInv, TablesInv, IsSequence, Made, Registries
  <1> DEFINE entry   == [name |-> info.name, type |-> info.type]
             retired == IF info.id \in DOMAIN entries[r]
                        THEN {entries[r][info.id].name} \ {info.name} ELSE {}
             kept    == [n \in DOMAIN names[r] \ retired |-> names[r][n]]
  <1>2. /\ entries' = [entries EXCEPT ![r] = Assigned(@, info.id, entry)]
        /\ names' = [names EXCEPT ![r] = Assigned(kept, info.name, info.id)]
    BY DEF Put
  <1>3. /\ IsSequence(entries') /\ IsSequence(names')
        /\ Len(entries') = Len(base) /\ Len(names') = Len(base)
    <2>1. \A e : LET t == [entries EXCEPT ![r] = e] IN IsSequence(t) /\ Len(t) = Len(entries)
      BY <1>1, ExceptOfSequence, ZenonT(60) DEF NamesInv, TablesInv
    <2>2. \A e : LET t == [names EXCEPT ![r] = e] IN IsSequence(t) /\ Len(t) = Len(names)
      BY <1>1, ExceptOfSequence, ZenonT(60) DEF NamesInv, TablesInv
    <2> QED BY <1>2, <2>1, <2>2 DEF NamesInv, TablesInv
  <1>4. ASSUME NEW q \in 1..Len(base), q # r
        PROVE  entries'[q] = entries[q] /\ names'[q] = names[q]
    BY <1>1, <1>2, <1>4
  <1>5. entries'[r] = Assigned(entries[r], info.id, entry) /\ names'[r] = Assigned(kept, info.name, info.id)
    BY <1>1, <1>2
  <1>6. /\ DOMAIN entries'[r] = {info.id} \cup DOMAIN entries[r]
        /\ entries'[r][info.id] = entry
        /\ \A id \in DOMAIN entries[r] : id # info.id => entries'[r][id] = entries[r][id]
    BY <1>5 DEF Assigned
  <1>7. /\ DOMAIN names'[r] = {info.name} \cup (DOMAIN names[r] \ retired)
        /\ names'[r][info.name] = info.id
        /\ \A n \in DOMAIN names[r] \ retired : n # info.name => names'[r][n] = names[r][n]
    BY <1>5 DEF Assigned
  <1>8. ASSUME NEW n \in DOMAIN names'[r], n # info.name
        PROVE  /\ n \in DOMAIN names[r] /\ names'[r][n] = names[r][n]
               /\ info.id \in DOMAIN entries[r] => n # entries[r][info.id].name
    BY <1>7, <1>8
  <1>9. info.id \notin DOMAIN entries[r] => DOMAIN names'[r] = {info.name} \cup DOMAIN names[r]
    BY <1>7
  <1> HIDE DEF entry, retired, kept
  <1> QED BY <1>1, <1>3, <1>4, <1>6, <1>7, <1>8, <1>9 DEF entry, PutDone

\* put: a name that now stands for the new entry is not left to the entry it replaces.
LEMMA PutRenames ==
  ASSUME NamesInv, NEW r \in Made, NEW info, Put(r, info), UNCHANGED base
  PROVE  NamesInv'
  <1>0. PutDone(r, info)
    BY PutFacts
  <1>1. TablesInv'
    BY <1>0 DEF PutDone, NamesInv, TablesInv
  <1>2. ASSUME NEW n \in DOMAIN names'[r]
        PROVE  names'[r][n] \in DOMAIN entries'[r] /\ entries'[r][names'[r][n]].name = n
    <2>1. CASE n = info.name
      BY <2>1, <1>0 DEF PutDone
    <2>2. CASE n # info.name
      <3>1. n \in DOMAIN names[r] /\ names'[r][n] = names[r][n]
        BY <1>2, <2>2, <1>0 DEF PutDone
      <3>2. names[r][n] \in DOMAIN entries[r] /\ entries[r][names[r][n]].name = n
        BY <3>1 DEF NamesInv, OwnNamesAreReported
      <3>3. names[r][n] # info.id
        BY <1>2, <2>2, <3>2, <1>0 DEF PutDone
      <3> QED BY <3>1, <3>2, <3>3, <1>0 DEF PutDone
    <2> QED BY <2>1, <2>2
  <1>3. ASSUME NEW q \in Made', NEW n \in DOMAIN names'[q]
        PROVE  names'[q][n] \in DOMAIN entries'[q] /\ entries'[q][names'[q][n]].name = n
    <2>1. CASE q = r
      BY <1>2, <2>1
    <2>2. CASE q # r
      <3>1. q \in Made /\ entries'[q] = entries[q] /\ names'[q] = names[q]
        BY <2>2, <1>0 DEF PutDone, Made, Registries
      <3> QED BY <3>1 DEF NamesInv, OwnNamesAreReported
    <2> QED BY <2>1, <2>2
  <1>4. entries'[Default] = BuiltIn /\ Len(base') >= Default
    BY <1>0 DEF PutDone, NamesInv, Default
  <1> QED BY <1>1, <1>3, <1>4 DEF NamesInv, OwnNamesAreReported

\* A registry is made without entries or names of its own.
LEMMA NewHasNoNames ==
  ASSUME NamesInv, NEW b, NewRegistry(b)
  PROVE  NamesInv'
  <1>1. /\ base' = Append(base, b) /\ entries' = Append(entries, << >>)
        /\ names' = Append(names, << >>)
    BY DEF NewRegistry
  <1>2. TablesInv' /\ Len(base') = Len(base) + 1 /\ Len(base) \in Nat
    BY <1>1, AppendToSequence DEF NamesInv, TablesInv
  <1>3. /\ \A q \in 1..Len(base) : entries'[q] = entries[q] /\ names'[q] = names[q]
        /\ names'[Len(base) + 1] = << >>
    BY <1>1, AppendToSequence DEF NamesInv, TablesInv
  <1>4. DOMAIN << >> = {}
    OBVIOUS
  <1>5. \A q \in Made' : q \in Made \/ q = Len(base) + 1
    BY <1>2 DEF Made, Registries
  <1>6. OwnNamesAreReported'
    BY <1>2, <1>3, <1>4, <1>5 DEF NamesInv, OwnNamesAreReported, Made, Registries
  <1> QED BY <1>2, <1>3, <1>6 DEF NamesInv, Default

LEMMA NamesStep == NamesInv /\ [RegNext]_regVars => NamesInv'
  <1> SUFFICES ASSUME NamesInv, [RegNext]_regVars PROVE NamesInv'
    OBVIOUS
  <1>1. CASE \E b \in {NilRegistry} \cup Registries : NewRegistry(b)
    BY <1>1, NewHasNoNames
  <1>2. CASE \E r \in {NilRegistry} \cup Registries, info \in Registrations :
               Register(r, info) \/ Override(r, info)
    <2>1. PICK r \in {NilRegistry} \cup Registries, info \in Registrations :
            Register(r, info) \/ Override(r, info)
      BY <1>2
    <2>2. CASE Refusal(r, info) = "none" /\ Put(r, info)
      <3>1. r \in Made /\ UNCHANGED base
        BY <2>1, <2>2 DEF Refusal, Made, Register, Override
      <3> QED BY <2>2, <3>1, PutRenames
    <2>3. CASE UNCHANGED <<base, entries, names>>
      BY <2>3 DEF NamesInv, TablesInv, OwnNamesAreReported, Made, Registries
    <2> QED BY <2>1, <2>2, <2>3 DEF Register, Override
  <1>3. CASE UNCHANGED regVars
    BY <1>3 DEF regVars, NamesInv, TablesInv, OwnNamesAreReported, Made, Registries
  <1> QED BY <1>1, <1>2, <1>3 DEF RegNext

LEMMA NamesInit == RegInit => NamesInv
  <1> SUFFICES ASSUME RegInit PROVE NamesInv
    OBVIOUS
  <1>1. Len(base) = 1 /\ Len(entries) = 1 /\ Len(names) = 1
    BY DEF RegInit
  <1>2. TablesInv
    <2>1. \A e : IsSequence(<<e>>)
      <3> SUFFICES ASSUME NEW e PROVE <<e>> \in Seq(Range(<<e>>))
        BY DEF IsSequence
      <3>1. e \in Range(<<e>>)
        BY DEF Range
      <3> QED BY <3>1
    <2> QED BY <1>1, <2>1 DEF RegInit, TablesInv
  <1>3. Made = {}
    BY <1>1 DEF Made, Registries, Default
  <1>4. entries[1] = BuiltIn
    <2>1. entries = <<BuiltIn>>
      BY DEF RegInit
    <2> QED BY <2>1
  <1>5. OwnNamesAreReported
    BY <1>3 DEF OwnNamesAreReported
  <1> QED BY <1>1, <1>2, <1>4, <1>5 DEF NamesInv, Default

\* After any sequence of registrations and overrides, of any chain of registries - names
\* exchanged, taken over, given up and taken back - a name that a registry has of its own
\* stands for the entry that bears it (matroska/registry.go, put).
THEOREM NamesAreReported == RegSpec => []OwnNamesAreReported
  <1>1. NamesInv => OwnNamesAreReported
    BY DEF NamesInv
  <1> QED BY <1>1, NamesInit, NamesStep, PTL DEF RegSpec

\* The built-in registry, which every chain ends in and every consumer shares, is never
\* changed through any registry (matroska/registry.go, checkRegistrable).
THEOREM BuiltInStays == RegSpec => [](entries[Default] = BuiltIn)
  <1>1. NamesInv => entries[Default] = BuiltIn
    BY DEF NamesInv
  <1> QED BY <1>1, NamesInit, NamesStep, PTL DEF RegSpec

-----------------------------------------------------------------------------
(* The types.                                                              *)

LEMMA TypedChain == RegTypeOK => IsChain(base)
  <1> SUFFICES ASSUME RegTypeOK PROVE IsChain(base)
    OBVIOUS
  <1>1. base \in Seq(0..MaxRegistries) /\ \A r \in 1..Len(base) : base[r] < r
    BY DEF RegTypeOK, Registries
  <1>2. Len(base) \in Nat
    BY <1>1
  <1>3. \A r \in 1..Len(base) : base[r] \in 0..MaxRegistries
    BY <1>1, ElementOfSeq
  <1>4. ASSUME NEW r \in 1..Len(base) PROVE base[r] \in 0..(r - 1)
    <2>1. base[r] \in 0..MaxRegistries /\ base[r] < r /\ MaxRegistries \in Nat
      BY <1>1, <1>3, RegistryAssumption
    <2> QED BY <1>2, <2>1
  <1> QED BY <1>2, <1>4 DEF IsChain, Linked

\* An entry is never taken for a lookup without a hit.
LEMMA EntryIsSomething ==
  ASSUME RegTypeOK, NEW r \in Registries, NEW id \in DOMAIN entries[r]
  PROVE  entries[r][id] # None /\ entries[r][id].name # "" /\ id # "" /\ id \in KnownID
  <1>1. entries[r][id].name # "" /\ id # "" /\ id \in KnownID
    BY DEF RegTypeOK
  <1>2. None.name = ""
    BY DEF None
  <1> QED BY <1>1, <1>2

LEMMA TypesInit == RegInit => RegTypeOK
  <1> SUFFICES ASSUME RegInit PROVE RegTypeOK
    OBVIOUS
  <1>1. base = <<0>> /\ Len(base) = 1 /\ base[1] = 0 /\ Len(entries) = 1 /\ Len(names) = 1 /\ reordered = {}
    BY DEF RegInit, NilRegistry
  <1>2. Registries = {1}
    BY <1>1 DEF Registries
  <1>3. entries[1] = BuiltIn /\ DOMAIN names[1] = {BuiltIn[id].name : id \in DOMAIN BuiltIn}
    BY DEF RegInit
  <1>4. DOMAIN names[1] \subseteq KnownName \ {""}
    BY <1>3, RegistryAssumption DEF KnownName
  <1>5. /\ DOMAIN entries[1] \subseteq KnownID \ {""}
        /\ \A id \in DOMAIN entries[1] : entries[1][id].name # "" /\ entries[1][id].type # TypeUnknown
    BY <1>3, RegistryAssumption DEF KnownID
  <1>6. last.error = "none"
    BY DEF RegInit, Call
  <1>7. base \in Seq(0..MaxRegistries)
    <2> DEFINE S == 0..MaxRegistries
    <2>1. 0 \in S
      <3>1. MaxRegistries \in Nat
        BY RegistryAssumption
      <3> QED BY <3>1
    <2> HIDE DEF S
    <2>2. <<0>> \in Seq(S)
      BY <2>1
    <2> QED BY <1>1, <2>2 DEF S
  <1>8. \A r \in Registries : base[r] < r
    BY <1>1, <1>2
  <1>9. last.error \in {"none", "immutable", "invalid", "duplicate"} /\ reordered \subseteq Registries
    BY <1>1, <1>6
  <1> QED BY <1>1, <1>2, <1>4, <1>5, <1>7, <1>8, <1>9 DEF RegTypeOK

\* A new registry falls back to nil or to an older one.
LEMMA NewTypes ==
  ASSUME NamesInv, RegTypeOK, NEW b \in {NilRegistry} \cup Registries, NewRegistry(b)
  PROVE  RegTypeOK'
  <1>1. /\ base' = Append(base, b) /\ entries' = Append(entries, << >>)
        /\ names' = Append(names, << >>) /\ Len(base) < MaxRegistries
    BY DEF NewRegistry
  <1>2. /\ base \in Seq(0..MaxRegistries) /\ Len(base) \in Nat /\ b \in 0..Len(base)
        /\ MaxRegistries \in Nat
    <2>1. base \in Seq(0..MaxRegistries) /\ MaxRegistries \in Nat
      BY RegistryAssumption DEF RegTypeOK
    <2>2. Len(base) \in Nat
      BY <2>1
    <2> QED BY <2>1, <2>2 DEF Registries, NilRegistry
  <1>3. b \in 0..MaxRegistries
    BY <1>1, <1>2
  <1>4. /\ base' \in Seq(0..MaxRegistries) /\ Len(base') = Len(base) + 1
        /\ \A q \in 1..Len(base) : base'[q] = base[q]
        /\ base'[Len(base) + 1] = b
    BY <1>1, <1>2, <1>3
  <1>5. /\ Len(entries') = Len(base) + 1 /\ Len(names') = Len(base) + 1
        /\ \A q \in 1..Len(base) : entries'[q] = entries[q] /\ names'[q] = names[q]
        /\ entries'[Len(base) + 1] = << >> /\ names'[Len(base) + 1] = << >>
    BY <1>1, AppendToSequence DEF NamesInv, TablesInv
  <1>6. DOMAIN << >> = {}
    OBVIOUS
  <1>7. \A q \in Registries' : q \in Registries \/ q = Len(base) + 1
    BY <1>2, <1>4 DEF Registries
  <1>8. ASSUME NEW q \in Registries'
        PROVE  /\ base'[q] < q
               /\ DOMAIN entries'[q] \subseteq KnownID \ {""}
               /\ \A id \in DOMAIN entries'[q] :
                    entries'[q][id].name # "" /\ entries'[q][id].type # TypeUnknown
               /\ DOMAIN names'[q] \subseteq KnownName \ {""}
    <2>1. CASE q \in Registries
      <3>1. base'[q] = base[q] /\ entries'[q] = entries[q] /\ names'[q] = names[q]
        BY <1>4, <1>5, <2>1 DEF Registries
      <3> QED BY <2>1, <3>1 DEF RegTypeOK
    <2>2. CASE q = Len(base) + 1
      <3>1. base'[q] < q
        BY <1>2, <1>4, <2>2
      <3>2. entries'[q] = << >> /\ names'[q] = << >>
        BY <1>5, <2>2
      <3> QED BY <1>6, <3>1, <3>2
    <2> QED BY <1>7, <2>1, <2>2
  <1>9. last'.error = "none"
    BY DEF NewRegistry, Call
  <1>10. reordered' \subseteq Registries'
    <2>1. reordered \subseteq 1..Len(base)
      BY DEF RegTypeOK, Registries
    <2>2. reordered' \subseteq reordered \cup {Len(base) + 1}
      BY DEF NewRegistry
    <2>3. Registries' = 1..(Len(base) + 1)
      BY <1>4 DEF Registries
    <2> QED BY <1>2, <2>1, <2>2, <2>3
  <1>11. last'.error \in {"none", "immutable", "invalid", "duplicate"}
    BY <1>9
  <1>12. Len(entries') = Len(base') /\ Len(names') = Len(base')
    BY <1>4, <1>5
  <1> QED BY <1>4, <1>8, <1>10, <1>11, <1>12 DEF RegTypeOK, KnownID, KnownName

\* What is put has an ID, a name and a type.
LEMMA PutTypes ==
  ASSUME NamesInv, RegTypeOK, NEW r \in Made, NEW info \in Registrations, Put(r, info),
         Refusal(r, info) = "none", UNCHANGED base,
         last'.error = "none", reordered' \subseteq Registries
  PROVE  RegTypeOK'
  <1>0. PutDone(r, info)
    BY PutFacts
  <1>1. info.id # "" /\ info.name # "" /\ info.type # TypeUnknown
    BY DEF Refusal, Made, NilRegistry, Registries
  <1>2. info.id \in KnownID /\ info.name \in KnownName
    BY DEF KnownID, KnownName
  <1>3. Registries' = Registries /\ r \in Registries
    BY <1>0 DEF Registries, PutDone
  <1>4. ASSUME NEW q \in Registries
        PROVE  /\ DOMAIN entries'[q] \subseteq KnownID \ {""}
               /\ \A id \in DOMAIN entries'[q] :
                    entries'[q][id].name # "" /\ entries'[q][id].type # TypeUnknown
               /\ DOMAIN names'[q] \subseteq KnownName \ {""}
    <2>1. /\ DOMAIN entries[q] \subseteq KnownID \ {""}
          /\ \A id \in DOMAIN entries[q] : entries[q][id].name # "" /\ entries[q][id].type # TypeUnknown
          /\ DOMAIN names[q] \subseteq KnownName \ {""}
      BY DEF RegTypeOK
    <2>2. CASE q = r
      <3>1. DOMAIN entries'[r] \subseteq KnownID \ {""}
        BY <1>0, <1>1, <1>2, <2>1, <2>2 DEF PutDone
      <3>2. \A id \in DOMAIN entries'[r] : entries'[r][id].name # "" /\ entries'[r][id].type # TypeUnknown
        <4>1. \A id \in DOMAIN entries'[r] : id # info.id =>
                id \in DOMAIN entries[r] /\ entries'[r][id] = entries[r][id]
          BY <1>0 DEF PutDone
        <4>2. entries'[r][info.id].name = info.name /\ entries'[r][info.id].type = info.type
          BY <1>0 DEF PutDone
        <4> QED BY <1>1, <2>1, <2>2, <4>1, <4>2
      <3>3. DOMAIN names'[r] \subseteq KnownName \ {""}
        BY <1>0, <1>1, <1>2, <2>1, <2>2 DEF PutDone
      <3> QED BY <2>2, <3>1, <3>2, <3>3
    <2>3. CASE q # r
      BY <1>0, <2>1, <2>3 DEF PutDone, Registries
    <2> QED BY <2>2, <2>3
  <1> QED BY <1>0, <1>3, <1>4 DEF RegTypeOK, PutDone, KnownID, KnownName

\* How a call ends: refused, with an entry registered, or with one overridden.
Refused ==
  /\ UNCHANGED <<base, entries, names, reordered>>
  /\ last'.error \in {"immutable", "invalid", "duplicate"}

Registered(r, info) ==
  /\ r \in Made /\ info \in Registrations /\ UNCHANGED base
  /\ Refusal(r, info) = "none" /\ ~Duplicate(r, info) /\ Put(r, info)
  /\ last' = Call("Register", r, info.id, "none") /\ reordered' = reordered \cup (Derived(r) \ {r})

Overridden(r, info) ==
  /\ r \in Made /\ info \in Registrations /\ UNCHANGED base
  /\ Refusal(r, info) = "none" /\ Put(r, info)
  /\ last' = Call("Override", r, info.id, "none") /\ reordered' = reordered \cup Derived(r)

LEMMA CallsEnd ==
  ASSUME NEW r \in {NilRegistry} \cup Registries, NEW info \in Registrations,
         Register(r, info) \/ Override(r, info)
  PROVE  Refused \/ Registered(r, info) \/ Overridden(r, info)
  <1>1. CASE Refusal(r, info) # "none"
    <2>1. /\ UNCHANGED <<base, entries, names, reordered>>
          /\ \/ last' = Call("Register", NilRegistry, "", Refusal(r, info))
             \/ last' = Call("Override", NilRegistry, "", Refusal(r, info))
      BY <1>1 DEF Register, Override
    <2>2. ASSUME NEW e \in {"immutable", "invalid"}, Refusal(r, info) = e PROVE Refused
      <3>1. \/ last' = Call("Register", NilRegistry, "", e)
            \/ last' = Call("Override", NilRegistry, "", e)
        BY <2>1, <2>2
      <3>2. CASE last' = Call("Register", NilRegistry, "", e)
        BY <2>1, <3>2 DEF Refused, Call
      <3>3. CASE last' = Call("Override", NilRegistry, "", e)
        BY <2>1, <3>3 DEF Refused, Call
      <3> QED BY <3>1, <3>2, <3>3
    <2> QED BY <1>1, <2>2 DEF Refusal
  <1>2. CASE Refusal(r, info) = "none" /\ last' = Call("Register", NilRegistry, "", "duplicate")
             /\ UNCHANGED <<base, entries, names, reordered>>
    BY <1>2 DEF Refused, Call
  <1>3. Refusal(r, info) = "none" => r \in Made
    BY DEF Refusal, Made
  <1> QED BY <1>1, <1>2, <1>3 DEF Register, Override, Registered, Overridden

LEMMA TypesStep == NamesInv /\ RegTypeOK /\ [RegNext]_regVars => RegTypeOK'
  <1> SUFFICES ASSUME NamesInv, RegTypeOK, [RegNext]_regVars PROVE RegTypeOK'
    OBVIOUS
  <1>1. CASE \E b \in {NilRegistry} \cup Registries : NewRegistry(b)
    BY <1>1, NewTypes
  <1>2. CASE \E r \in {NilRegistry} \cup Registries, info \in Registrations :
               Register(r, info) \/ Override(r, info)
    <2>1. PICK r \in {NilRegistry} \cup Registries, info \in Registrations :
            Register(r, info) \/ Override(r, info)
      BY <1>2
    <2>2. reordered \subseteq Registries /\ Derived(r) \subseteq Registries
      BY DEF RegTypeOK, Derived
    <2>3. CASE Refused
      BY <2>3 DEF Refused, RegTypeOK, Registries, KnownID, KnownName
    <2>4. CASE Registered(r, info)
      <3>1. last'.error = "none"
        BY <2>4 DEF Registered, Call
      <3>2. reordered' \subseteq Registries
        BY <2>2, <2>4 DEF Registered
      <3> QED BY <2>4, <3>1, <3>2, PutTypes DEF Registered
    <2>5. CASE Overridden(r, info)
      <3>1. last'.error = "none"
        BY <2>5 DEF Overridden, Call
      <3>2. reordered' \subseteq Registries
        BY <2>2, <2>5 DEF Overridden
      <3> QED BY <2>5, <3>1, <3>2, PutTypes DEF Overridden
    <2> QED BY <2>1, <2>3, <2>4, <2>5, CallsEnd
  <1>3. CASE UNCHANGED regVars
    BY <1>3 DEF regVars, RegTypeOK, Registries, KnownID, KnownName
  <1> QED BY <1>1, <1>2, <1>3 DEF RegNext

-----------------------------------------------------------------------------
(* Names and IDs.                                                          *)

\* The names of the built-in table are those of its elements.
DefaultNames ==
  /\ \A n \in DOMAIN names[Default] :
       names[Default][n] \in DOMAIN BuiltIn /\ BuiltIn[names[Default][n]].name = n
  /\ \A id \in DOMAIN BuiltIn : BuiltIn[id].name \in DOMAIN names[Default]

\* What r resolves it resolves both ways.
BothWays(b, e, ns, r) ==
  /\ \A id : LookupIn(b, e, r, id) # None => NameIn(b, ns, r, LookupIn(b, e, r, id).name) = id
  /\ \A n : NameIn(b, ns, r, n) # "" =>
       LookupIn(b, e, r, NameIn(b, ns, r, n)).name = n \/ n \in DOMAIN LegacyNames

\* The inductive invariant, but for BothWays.
Tables == NamesInv /\ RegTypeOK /\ DefaultNames

LEMMA TablesFacts ==
  ASSUME Tables
  PROVE  /\ IsChain(base) /\ Registries = 1..Len(base) /\ Len(base) \in Nat
         /\ Default \in 1..Len(base) /\ entries[Default] = BuiltIn
         /\ \A r \in 1..Len(base) : \A id \in DOMAIN entries[r] :
              entries[r][id] # None /\ entries[r][id].name # "" /\ id # "" /\ id \in KnownID
  <1>1. IsChain(base) /\ Registries = 1..Len(base) /\ Len(base) \in Nat
    BY TypedChain DEF Tables, Registries, IsChain
  <1>2. Default \in 1..Len(base) /\ entries[Default] = BuiltIn
    BY <1>1 DEF Tables, NamesInv, Default
  <1> QED BY <1>1, <1>2, EntryIsSomething DEF Tables

\* Whatever table it is in, a name is of an element of the same registry.
LEMMA NamesBelong ==
  ASSUME Tables, NEW r \in 1..Len(base), NEW n \in DOMAIN names[r]
  PROVE  names[r][n] \in DOMAIN entries[r] /\ entries[r][names[r][n]].name = n
  <1>1. CASE r = Default
    BY <1>1, TablesFacts DEF Tables, DefaultNames
  <1>2. CASE r # Default
    BY <1>2 DEF Tables, NamesInv, OwnNamesAreReported, Made, Registries
  <1> QED BY <1>1, <1>2

\* An ID that a registry answers is not the empty one.
LEMMA FoundIsKnown ==
  ASSUME Tables, NEW id, NEW r \in 0..Len(base), LookupIn(base, entries, r, id) # None
  PROVE  id # "" /\ id \in KnownID
  <1> DEFINE Found(q) == LookupIn(base, entries, q, id) # None
             Known == id # "" /\ id \in KnownID
             S == {q \in 0..Len(base) : Found(q) => Known}
  <1>0. IsChain(base)
    BY TablesFacts
  <1>1. ASSUME NEW q \in 0..Len(base), \A k \in 0..(q - 1) : k \in S PROVE q \in S
    <2>1. CASE q = 0
      <3>1. ~Found(q)
        BY <2>1, <1>0, LookupSteps DEF NilRegistry
      <3> QED BY <3>1
    <2>2. CASE q # 0
      <3>1. q \in 1..Len(base) /\ base[q] \in 0..(q - 1)
        BY <2>2, <1>0 DEF IsChain, Linked
      <3>2. LookupIn(base, entries, q, id) =
              IF id \in DOMAIN entries[q] THEN entries[q][id] ELSE LookupIn(base, entries, base[q], id)
        BY <1>0, <3>1, LookupSteps
      <3>3. CASE id \in DOMAIN entries[q]
        BY <3>1, <3>3, TablesFacts
      <3>4. CASE id \notin DOMAIN entries[q]
        <4>1. Found(q) => Found(base[q])
          BY <3>2, <3>4
        <4>2. Found(base[q]) => Known
          BY <1>1, <3>1
        <4> QED BY <4>1, <4>2
      <3> QED BY <3>3, <3>4
    <2> QED BY <2>1, <2>2
  <1> HIDE DEF S
  <1>2. 0..Len(base) \subseteq S
    BY <1>0, <1>1, StrongInduction DEF IsChain
  <1> QED BY <1>2 DEF S

LEMMA ChainLinks ==
  ASSUME NEW b, IsChain(b)
  PROVE  \A q \in 0..Len(b) : q # 0 => q \in 1..Len(b) /\ b[q] \in 0..(q - 1)
  BY DEF IsChain, Linked

\* The ID of a name that a registry resolves is one it answers: a name and its entry are
\* in the same table, and an entry nearer by only hides the entry.
LEMMA NamesAreFound ==
  ASSUME Tables, NEW n, NEW r \in 0..Len(base), NameIn(base, names, r, n) # ""
  PROVE  LookupIn(base, entries, r, NameIn(base, names, r, n)) # None
  <1>0. IsChain(base)
    BY TablesFacts
  <1>b. \A q \in 0..Len(base) : q # 0 => q \in 1..Len(base) /\ base[q] \in 0..(q - 1)
    BY <1>0, ChainLinks
  <1> DEFINE Id(q) == NameIn(base, names, q, n)
             Found(q) == LookupIn(base, entries, q, Id(q)) # None
             S == {q \in 0..Len(base) : Id(q) # "" => Found(q)}
  <1>1. ASSUME NEW q \in 0..Len(base), \A k \in 0..(q - 1) : k \in S PROVE q \in S
    <2>1. CASE q = 0
      <3>1. Id(q) = ""
        BY <2>1, <1>0, NameSteps DEF NilRegistry
      <3> QED BY <3>1
    <2>2. CASE q # 0
      <3>1. q \in 1..Len(base) /\ base[q] \in 0..(q - 1)
        BY <1>b, <2>2
      <3>2. Id(q) = IF n \in DOMAIN names[q] THEN names[q][n]
                    ELSE IF q = Default /\ n \in DOMAIN LegacyNames THEN LegacyNames[n]
                    ELSE Id(base[q])
        BY <1>0, <3>1, NameSteps
      <3>3. \A id : LookupIn(base, entries, q, id) =
              IF id \in DOMAIN entries[q] THEN entries[q][id] ELSE LookupIn(base, entries, base[q], id)
        BY <1>0, <3>1, LookupSteps
      <3>4. \A id \in DOMAIN entries[q] : LookupIn(base, entries, q, id) # None
        BY <3>1, <3>3, TablesFacts
      <3> DEFINE Alias == q = Default /\ n \in DOMAIN LegacyNames
      <3>5. CASE n \in DOMAIN names[q]
        <4>1. Id(q) = names[q][n] /\ names[q][n] \in DOMAIN entries[q]
          BY <3>1, <3>2, <3>5, NamesBelong
        <4> QED BY <3>4, <4>1
      <3>6. CASE n \notin DOMAIN names[q] /\ Alias
        <4>1. Id(q) = LegacyNames[n] /\ LegacyNames[n] \in DOMAIN BuiltIn
          BY <3>2, <3>6, RegistryAssumption
        <4>2. DOMAIN entries[q] = DOMAIN BuiltIn
          BY <3>6, TablesFacts
        <4> QED BY <3>4, <4>1, <4>2
      <3>7. CASE n \notin DOMAIN names[q] /\ ~Alias
        <4>1. Id(q) = Id(base[q])
          BY <3>2, <3>7
        <4>2. Id(base[q]) # "" => Found(base[q])
          BY <1>1, <3>1
        <4>3. Id(q) # "" => LookupIn(base, entries, base[q], Id(q)) # None
          BY <4>1, <4>2
        <4>4. Id(q) # "" => Found(q)
          BY <3>3, <3>4, <4>3
        <4> QED BY <4>4
      <3> QED BY <3>5, <3>6, <3>7
    <2> QED BY <2>1, <2>2
  <1> HIDE DEF S
  <1>2. 0..Len(base) \subseteq S
    BY <1>0, <1>1, StrongInduction DEF IsChain
  <1> QED BY <1>2 DEF S

\* Whatever is put in r, a registry that does not resolve through r answers as before.
LEMMA Elsewhere ==
  ASSUME Tables, NEW r, NEW info, PutDone(r, info),
         NEW q \in 0..Len(base), FirstIn(base, q, {r}) # r
  PROVE  /\ \A id : LookupIn(base, entries', q, id) = LookupIn(base, entries, q, id)
         /\ \A n : NameIn(base, names', q, n) = NameIn(base, names, q, n)
  <1>1. IsChain(base) /\ r \in 1..Len(base)
    BY TablesFacts DEF PutDone
  <1>2. \A d \in 1..Len(base) : d # r => entries'[d] = entries[d] /\ names'[d] = names[d]
    BY DEF PutDone
  <1>3. ASSUME NEW id PROVE LookupIn(base, entries', q, id) = LookupIn(base, entries, q, id)
    <2> DEFINE Stop == EntriesOf(base, entries, id)
               Stop2 == EntriesOf(base, entries', id)
               d == FirstIn(base, q, Stop)
    <2>1. \A k \in 1..Len(base) : k # r => (k \in Stop2 <=> k \in Stop)
      BY <1>2 DEF EntriesOf
    <2> HIDE DEF Stop, Stop2
    <2>2. FirstIn(base, q, Stop2) = d
      BY <1>1, <2>1, FirstElsewhere
    <2>3. d # r
      BY <1>1, FirstReaches
    <2>4. d \in {NilRegistry} \cup 1..Len(base)
      <3>1. d \in {NilRegistry} \cup (Stop \cap 1..q)
        BY <1>1, FirstRange
      <3>2. Stop \subseteq 1..Len(base)
        BY DEF Stop, EntriesOf
      <3> QED BY <3>1, <3>2
    <2>5. LookupIn(base, entries', q, id) = IF d = NilRegistry THEN None ELSE entries'[d][id]
      BY <2>2, Zenon DEF LookupIn, Stop2
    <2>6. LookupIn(base, entries, q, id) = IF d = NilRegistry THEN None ELSE entries[d][id]
      BY Zenon DEF LookupIn, Stop
    <2> QED BY <1>2, <2>3, <2>4, <2>5, <2>6
  <1>4. ASSUME NEW n PROVE NameIn(base, names', q, n) = NameIn(base, names, q, n)
    <2> DEFINE Stop == NamesOf(base, names, n)
               Stop2 == NamesOf(base, names', n)
               d == FirstIn(base, q, Stop)
    <2>1. \A k \in 1..Len(base) : k # r => (k \in Stop2 <=> k \in Stop)
      BY <1>2 DEF NamesOf
    <2> HIDE DEF Stop, Stop2
    <2>2. FirstIn(base, q, Stop2) = d
      BY <1>1, <2>1, FirstElsewhere
    <2>3. d # r
      BY <1>1, FirstReaches
    <2>4. d \in {NilRegistry} \cup 1..Len(base)
      <3>1. d \in {NilRegistry} \cup (Stop \cap 1..q)
        BY <1>1, FirstRange
      <3>2. Stop \subseteq 1..Len(base)
        BY DEF Stop, NamesOf
      <3> QED BY <3>1, <3>2
    <2>5. NameIn(base, names', q, n) =
            IF d = NilRegistry THEN "" ELSE IF n \in DOMAIN names'[d] THEN names'[d][n] ELSE LegacyNames[n]
      BY <2>2, Zenon DEF NameIn, Stop2
    <2>6. NameIn(base, names, q, n) =
            IF d = NilRegistry THEN "" ELSE IF n \in DOMAIN names[d] THEN names[d][n] ELSE LegacyNames[n]
      BY Zenon DEF NameIn, Stop
    <2> HIDE DEF d
    <2>7. CASE d = NilRegistry
      BY <2>5, <2>6, <2>7
    <2>8. CASE d # NilRegistry
      <3>1. names'[d] = names[d]
        BY <1>2, <2>3, <2>4, <2>8
      <3> QED BY <2>5, <2>6, <2>8, <3>1
    <2> QED BY <2>7, <2>8
  <1> QED BY <1>3, <1>4

\* A registry that falls back to nil or to an older one keeps the chain a chain.
LEMMA NewChain ==
  ASSUME Tables, NEW b \in {NilRegistry} \cup Registries, base' = Append(base, b)
  PROVE  IsChain(base')
  <1>1. /\ Len(base') = Len(base) + 1 /\ Len(base) \in Nat /\ base'[Len(base) + 1] = b
        /\ \A d \in 1..Len(base) : base'[d] = base[d]
    BY AppendToSequence DEF Tables, NamesInv, TablesInv
  <1>2. b \in 0..Len(base) /\ \A d \in 1..Len(base) : base[d] \in 0..(d - 1)
    <2>1. IsChain(base) /\ Registries = 1..Len(base)
      BY TablesFacts
    <2>2. b \in 0..Len(base)
      BY <1>1, <2>1 DEF NilRegistry
    <2> QED BY <2>1, <2>2 DEF IsChain, Linked
  <1>3. ASSUME NEW d \in 1..Len(base') PROVE base'[d] \in 0..(d - 1)
    <2>1. CASE d = Len(base) + 1
      BY <1>1, <1>2, <2>1
    <2>2. CASE d # Len(base) + 1
      <3>1. d \in 1..Len(base)
        BY <1>1, <2>2
      <3> QED BY <1>1, <1>2, <3>1
    <2> QED BY <2>1, <2>2
  <1> QED BY <1>1, <1>3 DEF IsChain, Linked

\* Older registries answer as before when one is made.
LEMMA OlderAnswer ==
  ASSUME Tables, NEW b \in {NilRegistry} \cup Registries, NewRegistry(b), NEW q \in 0..Len(base)
  PROVE  /\ \A id : LookupIn(base', entries', q, id) = LookupIn(base, entries, q, id)
         /\ \A n : NameIn(base', names', q, n) = NameIn(base, names, q, n)
         /\ \A id : ChildrenIn(base', entries', q, id) = ChildrenIn(base, entries, q, id)
  <1>1. base' = Append(base, b) /\ entries' = Append(entries, << >>) /\ names' = Append(names, << >>)
    BY DEF NewRegistry
  <1>2. /\ Len(base') = Len(base) + 1 /\ Len(base) \in Nat
        /\ \A d \in 1..Len(base) :
             base'[d] = base[d] /\ entries'[d] = entries[d] /\ names'[d] = names[d]
    BY <1>1, AppendToSequence DEF Tables, NamesInv, TablesInv
  <1>3. IsChain(base) /\ IsChain(base') /\ Len(base) \in 0..Len(base) /\ Len(base) <= Len(base')
    <2>1. IsChain(base')
      BY <1>1, NewChain
    <2>2. Len(base) \in 0..Len(base) /\ Len(base) <= Len(base')
      BY <1>2
    <2>3. IsChain(base)
      BY TablesFacts
    <2> QED BY <2>1, <2>2, <2>3
  <1>4. ASSUME NEW Stop, NEW Stop2, \A d \in 1..Len(base) : d \in Stop2 <=> d \in Stop
        PROVE  FirstIn(base', q, Stop2) = FirstIn(base, q, Stop)
    <2>1. \A d \in 1..Len(base) : base'[d] = base[d] /\ (d \in Stop2 <=> d \in Stop)
      BY <1>2, <1>4
    <2> QED BY <1>3, <2>1, FirstAgrees
  <1>5. ASSUME NEW Stop PROVE FirstIn(base, q, Stop) \in {NilRegistry} \cup 1..Len(base)
    <2>1. FirstIn(base, q, Stop) \in {NilRegistry} \cup (Stop \cap 1..q)
      BY <1>3, FirstRange
    <2>2. 1..q \subseteq 1..Len(base)
      BY <1>2
    <2> QED BY <2>1, <2>2
  <1>6. ASSUME NEW id PROVE LookupIn(base', entries', q, id) = LookupIn(base, entries, q, id)
    <2> DEFINE d == FirstIn(base, q, EntriesOf(base, entries, id))
    <2>1. FirstIn(base', q, EntriesOf(base', entries', id)) = d
      <3>1. \A k \in 1..Len(base) : k \in EntriesOf(base', entries', id) <=> k \in EntriesOf(base, entries, id)
        BY <1>2 DEF EntriesOf
      <3> QED BY <1>4, <3>1
    <2>2. d = NilRegistry \/ entries'[d] = entries[d]
      BY <1>2, <1>5
    <2>3. LookupIn(base', entries', q, id) = IF d = NilRegistry THEN None ELSE entries'[d][id]
      BY <2>1, Zenon DEF LookupIn
    <2>4. LookupIn(base, entries, q, id) = IF d = NilRegistry THEN None ELSE entries[d][id]
      BY Zenon DEF LookupIn
    <2> HIDE DEF d
    <2>5. CASE d = NilRegistry
      BY <2>3, <2>4, <2>5
    <2>6. CASE d # NilRegistry
      BY <2>2, <2>3, <2>4, <2>6
    <2> QED BY <2>5, <2>6
  <1>7. ASSUME NEW n PROVE NameIn(base', names', q, n) = NameIn(base, names, q, n)
    <2> DEFINE d == FirstIn(base, q, NamesOf(base, names, n))
    <2>1. FirstIn(base', q, NamesOf(base', names', n)) = d
      <3>1. \A k \in 1..Len(base) : k \in NamesOf(base', names', n) <=> k \in NamesOf(base, names, n)
        BY <1>2 DEF NamesOf
      <3> QED BY <1>4, <3>1
    <2>2. d = NilRegistry \/ names'[d] = names[d]
      BY <1>2, <1>5
    <2>3. NameIn(base', names', q, n) =
            IF d = NilRegistry THEN "" ELSE IF n \in DOMAIN names'[d] THEN names'[d][n] ELSE LegacyNames[n]
      BY <2>1, Zenon DEF NameIn
    <2>4. NameIn(base, names, q, n) =
            IF d = NilRegistry THEN "" ELSE IF n \in DOMAIN names[d] THEN names[d][n] ELSE LegacyNames[n]
      BY Zenon DEF NameIn
    <2> HIDE DEF d
    <2>5. CASE d = NilRegistry
      BY <2>3, <2>4, <2>5
    <2>6. CASE d # NilRegistry
      BY <2>2, <2>3, <2>4, <2>6
    <2> QED BY <2>5, <2>6
  <1>8. ASSUME NEW id PROVE ChildrenIn(base', entries', q, id) = ChildrenIn(base, entries, q, id)
    <2> DEFINE Stop == {Default} \cup EntriesOf(base, entries, id)
               Stop2 == {Default} \cup EntriesOf(base', entries', id)
    <2>1. \A k \in 1..Len(base) : k \in Stop2 <=> k \in Stop
      BY <1>2 DEF EntriesOf
    <2>2. FirstIn(base', q, Stop2) = FirstIn(base, q, Stop)
      <3> HIDE DEF Stop, Stop2
      <3> QED BY <1>4, <2>1
    <2> QED BY <2>2, Zenon DEF ChildrenIn
  <1> QED BY <1>6, <1>7, <1>8

\* What Register puts in r was resolved by neither its ID nor its name.
LEMMA WasUnknown ==
  ASSUME Tables, NEW r, NEW info, Registered(r, info)
  PROVE  /\ PutDone(r, info)
         /\ LookupIn(base, entries, r, info.id) = None /\ info.id \notin DOMAIN entries[r]
         /\ NameIn(base, names, r, info.name) = ""
         /\ DOMAIN names'[r] = {info.name} \cup DOMAIN names[r]
  <1>1. PutDone(r, info)
    BY PutFacts DEF Registered, Tables
  <1>2. r \in 1..Len(base) /\ IsChain(base)
    BY <1>1, TablesFacts DEF PutDone
  <1>3. /\ LookupIn(base, entries, r, info.id) = None
        /\ NameIn(base, names, r, info.name) \in {"", info.id}
    BY OfTables DEF Registered, Duplicate, Resolves
  <1>4. info.id \notin DOMAIN entries[r]
    <2>1. LookupIn(base, entries, r, info.id) =
            IF info.id \in DOMAIN entries[r] THEN entries[r][info.id]
            ELSE LookupIn(base, entries, base[r], info.id)
      BY <1>2, LookupSteps
    <2>2. info.id \in DOMAIN entries[r] => entries[r][info.id] # None
      BY <1>2, TablesFacts
    <2> QED BY <1>3, <2>1, <2>2
  <1>5. NameIn(base, names, r, info.name) = ""
    <2>1. r \in 0..Len(base)
      BY <1>2
    <2> QED BY <1>3, <2>1, NamesAreFound
  <1> QED BY <1>1, <1>3, <1>4, <1>5 DEF PutDone

\* Register adds the one entry and the one name to what a registry answers.
LEMMA RegisteredAnswers ==
  ASSUME Tables, NEW r, NEW info, Registered(r, info)
  PROVE  /\ \A id : LookupIn(base, entries', r, id) =
              IF id = info.id THEN [name |-> info.name, type |-> info.type]
              ELSE LookupIn(base, entries, r, id)
         /\ \A n : NameIn(base, names', r, n) =
              IF n = info.name THEN info.id ELSE NameIn(base, names, r, n)
  <1>1. PutDone(r, info) /\ DOMAIN names'[r] = {info.name} \cup DOMAIN names[r]
    BY WasUnknown
  <1>2. r \in 1..Len(base) /\ IsChain(base) /\ r # Default
    BY <1>1, TablesFacts DEF PutDone
  <1>3. base[r] \in 0..(r - 1) /\ base[r] \in 0..Len(base)
    BY <1>2, ChainLinks DEF IsChain
  <1>4. FirstIn(base, base[r], {r}) # r
    <2> DEFINE R == {r}
    <2>1. FirstIn(base, base[r], R) \in {NilRegistry} \cup (R \cap 1..base[r])
      <3> HIDE DEF R
      <3> QED BY <1>2, <1>3, FirstRange
    <2> QED BY <1>2, <1>3, <2>1 DEF NilRegistry
  <1>5. /\ \A id : LookupIn(base, entries', base[r], id) = LookupIn(base, entries, base[r], id)
        /\ \A n : NameIn(base, names', base[r], n) = NameIn(base, names, base[r], n)
    BY <1>1, <1>3, <1>4, Elsewhere
  <1>6. ASSUME NEW id
        PROVE  LookupIn(base, entries', r, id) =
                 IF id = info.id THEN [name |-> info.name, type |-> info.type]
                 ELSE LookupIn(base, entries, r, id)
    <2>1. /\ LookupIn(base, entries', r, id) =
               IF id \in DOMAIN entries'[r] THEN entries'[r][id] ELSE LookupIn(base, entries', base[r], id)
          /\ LookupIn(base, entries, r, id) =
               IF id \in DOMAIN entries[r] THEN entries[r][id] ELSE LookupIn(base, entries, base[r], id)
      BY <1>2, LookupSteps
    <2>2. CASE id = info.id
      BY <1>1, <2>1, <2>2 DEF PutDone
    <2>3. CASE id # info.id
      <3>1. /\ id \in DOMAIN entries'[r] <=> id \in DOMAIN entries[r]
            /\ id \in DOMAIN entries[r] => entries'[r][id] = entries[r][id]
        BY <1>1, <2>3 DEF PutDone
      <3> QED BY <1>5, <2>1, <2>3, <3>1
    <2> QED BY <2>2, <2>3
  <1>7. ASSUME NEW n
        PROVE  NameIn(base, names', r, n) = IF n = info.name THEN info.id ELSE NameIn(base, names, r, n)
    <2>1. /\ NameIn(base, names', r, n) =
               IF n \in DOMAIN names'[r] THEN names'[r][n] ELSE NameIn(base, names', base[r], n)
          /\ NameIn(base, names, r, n) =
               IF n \in DOMAIN names[r] THEN names[r][n] ELSE NameIn(base, names, base[r], n)
      <3>1. \A k \in 1..Len(base) : NameIn(base, names', k, n) =
              IF n \in DOMAIN names'[k] THEN names'[k][n]
              ELSE IF k = Default /\ n \in DOMAIN LegacyNames THEN LegacyNames[n]
              ELSE NameIn(base, names', base[k], n)
        BY <1>2, NameSteps, ZenonT(60)
      <3>2. \A k \in 1..Len(base) : NameIn(base, names, k, n) =
              IF n \in DOMAIN names[k] THEN names[k][n]
              ELSE IF k = Default /\ n \in DOMAIN LegacyNames THEN LegacyNames[n]
              ELSE NameIn(base, names, base[k], n)
        BY <1>2, NameSteps, ZenonT(60)
      <3> QED BY <1>2, <3>1, <3>2
    <2>2. CASE n = info.name
      BY <1>1, <2>1, <2>2 DEF PutDone
    <2>3. CASE n # info.name
      <3>1. /\ n \in DOMAIN names'[r] <=> n \in DOMAIN names[r]
            /\ n \in DOMAIN names[r] => names'[r][n] = names[r][n]
        BY <1>1, <2>3 DEF PutDone
      <3> QED BY <1>5, <2>1, <2>3, <3>1
    <2> QED BY <2>2, <2>3
  <1> QED BY <1>6, <1>7

\* A registry that resolves both ways still does with one more element.
LEMMA RegisterInverts ==
  ASSUME Tables, NEW r, NEW info, Registered(r, info), BothWays(base, entries, names, r)
  PROVE  BothWays(base, entries', names', r)
  <1> DEFINE L(id) == LookupIn(base, entries, r, id)
             N(n)  == NameIn(base, names, r, n)
             entry == [name |-> info.name, type |-> info.type]
  <1>1. /\ L(info.id) = None /\ N(info.name) = ""
        /\ r \in 0..Len(base)
    <2>1. r \in 1..Len(base)
      BY WasUnknown DEF PutDone
    <2>2. r \in 0..Len(base)
      BY <2>1
    <2> QED BY <2>2, WasUnknown
  <1>2. /\ \A id : LookupIn(base, entries', r, id) = IF id = info.id THEN entry ELSE L(id)
        /\ \A n : NameIn(base, names', r, n) = IF n = info.name THEN info.id ELSE N(n)
    BY RegisteredAnswers
  <1>3. entry.name = info.name
    OBVIOUS
  <1>5. \A id : L(id) # None => id # ""
    BY <1>1, FoundIsKnown
  <1>6. \A n : N(n) # "" => L(N(n)) # None
    BY <1>1, NamesAreFound
  <1>7. /\ \A id : L(id) # None => N(L(id).name) = id
        /\ \A n : N(n) # "" => L(N(n)).name = n \/ n \in DOMAIN LegacyNames
    BY DEF BothWays
  <1> HIDE DEF L, N, entry
  <1>8. ASSUME NEW id, LookupIn(base, entries', r, id) # None
        PROVE  NameIn(base, names', r, LookupIn(base, entries', r, id).name) = id
    <2>1. CASE id = info.id
      BY <1>2, <1>3, <2>1
    <2>2. CASE id # info.id
      <3>1. LookupIn(base, entries', r, id) = L(id) /\ L(id) # None
        BY <1>2, <1>8, <2>2
      <3>2. N(L(id).name) = id /\ id # ""
        BY <1>5, <1>7, <3>1
      <3>3. L(id).name # info.name
        BY <1>1, <3>2
      <3> QED BY <1>2, <3>1, <3>2, <3>3
    <2> QED BY <2>1, <2>2
  <1>9. ASSUME NEW n, NameIn(base, names', r, n) # ""
        PROVE  LookupIn(base, entries', r, NameIn(base, names', r, n)).name = n \/ n \in DOMAIN LegacyNames
    <2>1. CASE n = info.name
      BY <1>2, <1>3, <2>1
    <2>2. CASE n # info.name
      <3>1. NameIn(base, names', r, n) = N(n) /\ N(n) # ""
        BY <1>2, <1>9, <2>2
      <3>2. N(n) # info.id
        BY <1>1, <1>6, <3>1
      <3>3. LookupIn(base, entries', r, N(n)) = L(N(n))
        BY <1>2, <3>2
      <3> QED BY <1>7, <3>1, <3>3
    <2> QED BY <2>1, <2>2
  <1> QED BY <1>8, <1>9 DEF BothWays

\* So does one that answers what another answers.
LEMMA SameInverts ==
  ASSUME NEW b, NEW e, NEW ns, NEW q, NEW b2, NEW e2, NEW ns2, NEW q2,
         BothWays(b, e, ns, q),
         \A id : LookupIn(b2, e2, q2, id) = LookupIn(b, e, q, id),
         \A n : NameIn(b2, ns2, q2, n) = NameIn(b, ns, q, n)
  PROVE  BothWays(b2, e2, ns2, q2)
  BY DEF BothWays

LEMMA DefaultInverts == Tables => BothWays(base, entries, names, Default)
  <1> SUFFICES ASSUME Tables PROVE BothWays(base, entries, names, Default)
    OBVIOUS
  <1>1. IsChain(base) /\ Default \in 1..Len(base) /\ base[Default] = NilRegistry /\ entries[Default] = BuiltIn
    <2>1. IsChain(base) /\ Default \in 1..Len(base) /\ entries[Default] = BuiltIn
      BY TablesFacts
    <2>2. 1 \in 0..Len(base) /\ 1 # 0
      BY <2>1 DEF Default, IsChain
    <2>3. base[1] \in 0..(1 - 1)
      BY <2>1, <2>2, ChainLinks
    <2> QED BY <2>1, <2>3 DEF Default, NilRegistry
  <1>2. \A id : LookupIn(base, entries, Default, id) = IF id \in DOMAIN BuiltIn THEN BuiltIn[id] ELSE None
    <2> SUFFICES ASSUME NEW id
                 PROVE  LookupIn(base, entries, Default, id) =
                          IF id \in DOMAIN BuiltIn THEN BuiltIn[id] ELSE None
      OBVIOUS
    <2>1. LookupIn(base, entries, NilRegistry, id) = None
      BY <1>1, LookupSteps
    <2>2. \A k \in 1..Len(base) : LookupIn(base, entries, k, id) =
            IF id \in DOMAIN entries[k] THEN entries[k][id] ELSE LookupIn(base, entries, base[k], id)
      BY <1>1, LookupSteps
    <2> QED BY <1>1, <2>1, <2>2
  <1>3. ASSUME NEW n
        PROVE  NameIn(base, names, Default, n) =
                 IF n \in DOMAIN names[Default] THEN names[Default][n]
                 ELSE IF n \in DOMAIN LegacyNames THEN LegacyNames[n] ELSE ""
    <2>1. NameIn(base, names, NilRegistry, n) = ""
      BY <1>1, NameSteps
    <2>2. \A k \in 1..Len(base) : NameIn(base, names, k, n) =
            IF n \in DOMAIN names[k] THEN names[k][n]
            ELSE IF k = Default /\ n \in DOMAIN LegacyNames THEN LegacyNames[n]
            ELSE NameIn(base, names, base[k], n)
      <3>1. IsChain(base)
        BY <1>1
      <3> QED BY <3>1, NameSteps
    <2>3. NameIn(base, names, Default, n) =
            IF n \in DOMAIN names[Default] THEN names[Default][n]
            ELSE IF Default = Default /\ n \in DOMAIN LegacyNames THEN LegacyNames[n]
            ELSE NameIn(base, names, base[Default], n)
      BY <1>1, <2>2, Zenon
    <2> QED BY <1>1, <2>1, <2>3
  <1>4. /\ \A n \in DOMAIN names[Default] :
             names[Default][n] \in DOMAIN BuiltIn /\ BuiltIn[names[Default][n]].name = n
        /\ \A id \in DOMAIN BuiltIn : BuiltIn[id].name \in DOMAIN names[Default]
    BY DEF Tables, DefaultNames
  <1>5. ASSUME NEW id, LookupIn(base, entries, Default, id) # None
        PROVE  NameIn(base, names, Default, LookupIn(base, entries, Default, id).name) = id
    <2>1. id \in DOMAIN BuiltIn /\ LookupIn(base, entries, Default, id) = BuiltIn[id]
      BY <1>2, <1>5
    <2> DEFINE n == BuiltIn[id].name
    <2>2. n \in DOMAIN names[Default] /\ names[Default][n] \in DOMAIN BuiltIn
          /\ BuiltIn[names[Default][n]].name = n
      BY <1>4, <2>1
    <2>3. names[Default][n] = id
      BY <2>1, <2>2, RegistryAssumption
    <2> HIDE DEF n
    <2>4. NameIn(base, names, Default, n) = id
      BY <1>3, <2>2, <2>3
    <2> QED BY <2>1, <2>4 DEF n
  <1>6. ASSUME NEW n, NameIn(base, names, Default, n) # ""
        PROVE  LookupIn(base, entries, Default, NameIn(base, names, Default, n)).name = n \/ n \in DOMAIN LegacyNames
    <2>1. CASE n \in DOMAIN names[Default]
      BY <1>2, <1>3, <1>4, <2>1
    <2>2. CASE n \notin DOMAIN names[Default]
      BY <1>3, <1>6, <2>2
    <2> QED BY <2>1, <2>2
  <1> QED BY <1>5, <1>6 DEF BothWays

\* The inductive invariant.
RegStrong == Tables /\ \A r \in Registries \ reordered : BothWays(base, entries, names, r)

LEMMA StrongInit == RegInit => RegStrong
  <1> SUFFICES ASSUME RegInit PROVE RegStrong
    OBVIOUS
  <1>1. NamesInv /\ RegTypeOK
    BY NamesInit, TypesInit
  <1>2. DefaultNames
    <2> DEFINE D == {BuiltIn[id].name : id \in DOMAIN BuiltIn}
               Bearer(n) == CHOOSE id \in DOMAIN BuiltIn : BuiltIn[id].name = n
    <2>1. names[1] = [n \in D |-> Bearer(n)]
      BY DEF RegInit
    <2>2. \A n \in D : Bearer(n) \in DOMAIN BuiltIn /\ BuiltIn[Bearer(n)].name = n
      OBVIOUS
    <2>3. \A id \in DOMAIN BuiltIn : BuiltIn[id].name \in D
      OBVIOUS
    <2> HIDE DEF D, Bearer
    <2> QED BY <2>1, <2>2, <2>3 DEF DefaultNames, Default
  <1>3. Registries = {Default}
    <2>1. Len(base) = 1
      BY DEF RegInit
    <2> QED BY <2>1 DEF Registries, Default
  <1> QED BY <1>1, <1>2, <1>3, DefaultInverts DEF RegStrong, Tables

LEMMA TablesStep == Tables /\ [RegNext]_regVars => Tables'
  <1> SUFFICES ASSUME Tables, [RegNext]_regVars PROVE Tables'
    OBVIOUS
  <1>1. NamesInv' /\ RegTypeOK'
    BY NamesStep, TypesStep DEF Tables
  <1>2. Default \in 1..Len(base)
    BY TablesFacts
  <1>3. names'[Default] = names[Default]
    <2>1. CASE \E b \in {NilRegistry} \cup Registries : NewRegistry(b)
      <3>1. names' = Append(names, << >>)
        BY <2>1 DEF NewRegistry
      <3>2. Default \in 1..Len(names)
        BY <1>2 DEF Tables, NamesInv, TablesInv
      <3> QED BY <3>1, <3>2, AppendToSequence DEF Tables, NamesInv, TablesInv
    <2>2. CASE \E r \in {NilRegistry} \cup Registries, info \in Registrations :
                 Register(r, info) \/ Override(r, info)
      <3>1. PICK r \in {NilRegistry} \cup Registries, info \in Registrations :
              Register(r, info) \/ Override(r, info)
        BY <2>2
      <3>2. CASE Refused
        BY <3>2 DEF Refused
      <3>3. CASE Registered(r, info) \/ Overridden(r, info)
        <4>1. PutDone(r, info)
          BY <3>3, PutFacts DEF Registered, Overridden, Tables
        <4> QED BY <1>2, <4>1 DEF PutDone
      <3> QED BY <3>1, <3>2, <3>3, CallsEnd
    <2>3. CASE UNCHANGED regVars
      BY <2>3 DEF regVars
    <2> QED BY <2>1, <2>2, <2>3 DEF RegNext
  <1>4. DefaultNames'
    BY <1>3 DEF Tables, DefaultNames
  <1> QED BY <1>1, <1>4 DEF Tables

LEMMA StrongStep == RegStrong /\ [RegNext]_regVars => RegStrong'
  <1> SUFFICES ASSUME RegStrong, [RegNext]_regVars PROVE RegStrong'
    OBVIOUS
  <1>t. Tables /\ Tables'
    BY TablesStep DEF RegStrong
  <1>i. \A r \in 1..Len(base) : r \notin reordered => BothWays(base, entries, names, r)
    BY DEF RegStrong, Registries
  <1>c. IsChain(base) /\ Len(base) \in Nat
    BY <1>t, TablesFacts
  <1> SUFFICES ASSUME NEW q \in 1..Len(base'), q \notin reordered'
               PROVE  BothWays(base', entries', names', q)
    BY <1>t DEF RegStrong, Registries
  <1>1. CASE \E b \in {NilRegistry} \cup Registries : NewRegistry(b)
    <2>1. PICK b \in {NilRegistry} \cup Registries : NewRegistry(b)
      BY <1>1
    <2>2. base' = Append(base, b) /\ entries' = Append(entries, << >>) /\ names' = Append(names, << >>)
      BY <2>1 DEF NewRegistry
    <2>3. /\ Len(base') = Len(base) + 1 /\ base'[Len(base) + 1] = b
          /\ entries'[Len(base) + 1] = << >> /\ names'[Len(base) + 1] = << >>
      BY <1>t, <2>2, AppendToSequence DEF Tables, NamesInv, TablesInv
    <2>4. IsChain(base')
      BY <1>t, <2>2, NewChain
    <2>5. ASSUME NEW d \in 1..Len(base), d \notin reordered
          PROVE  BothWays(base', entries', names', d)
      <3>1. d \in 0..Len(base) /\ BothWays(base, entries, names, d)
        BY <1>i, <2>5
      <3>2. /\ \A id : LookupIn(base', entries', d, id) = LookupIn(base, entries, d, id)
            /\ \A n : NameIn(base', names', d, n) = NameIn(base, names, d, n)
        BY <1>t, <2>1, <3>1, OlderAnswer
      <3> QED BY <3>1, <3>2, SameInverts
    <2>6. CASE q # Len(base) + 1
      <3>1. q \in 1..Len(base) /\ q \notin reordered
        <4>1. reordered \subseteq reordered'
          BY <2>1 DEF NewRegistry
        <4> QED BY <1>c, <2>3, <2>6, <4>1
      <3> QED BY <2>5, <3>1
    <2>7. CASE q = Len(base) + 1
      <3>1. BothWays(base', entries', names', b)
        <4>1. CASE b = NilRegistry
          <5>1. \A id : LookupIn(base', entries', b, id) = None
            BY <2>4, <4>1, LookupSteps
          <5>2. \A n : NameIn(base', names', b, n) = ""
            BY <2>4, <4>1, NameSteps
          <5> QED BY <5>1, <5>2 DEF BothWays
        <4>2. CASE b # NilRegistry
          <5>1. b \in 1..Len(base)
            BY <4>2 DEF Registries
          <5>2. b \notin reordered
            BY <2>1, <2>7 DEF NewRegistry
          <5> QED BY <2>5, <5>1, <5>2
        <4> QED BY <4>1, <4>2
      <3>2. q # Default /\ DOMAIN << >> = {}
        <4>1. Len(base) >= 1
          <5>1. Default \in 1..Len(base)
            BY <1>t, TablesFacts
          <5> QED BY <1>c, <5>1 DEF Default
        <4> QED BY <1>c, <2>7, <4>1 DEF Default
      <3>3. ASSUME NEW id PROVE LookupIn(base', entries', q, id) = LookupIn(base', entries', b, id)
        <4>1. \A k \in 1..Len(base') : LookupIn(base', entries', k, id) =
                IF id \in DOMAIN entries'[k] THEN entries'[k][id] ELSE LookupIn(base', entries', base'[k], id)
          BY <2>4, LookupSteps
        <4> QED BY <2>3, <2>7, <3>2, <4>1
      <3>4. ASSUME NEW n PROVE NameIn(base', names', q, n) = NameIn(base', names', b, n)
        <4>1. \A k \in 1..Len(base') : NameIn(base', names', k, n) =
                IF n \in DOMAIN names'[k] THEN names'[k][n]
                ELSE IF k = Default /\ n \in DOMAIN LegacyNames THEN LegacyNames[n]
                ELSE NameIn(base', names', base'[k], n)
          BY <2>4, NameSteps
        <4> QED BY <2>3, <2>7, <3>2, <4>1
      <3> QED BY <3>1, <3>3, <3>4, SameInverts
    <2> QED BY <2>6, <2>7
  <1>2. CASE \E r \in {NilRegistry} \cup Registries, info \in Registrations :
               Register(r, info) \/ Override(r, info)
    <2>1. PICK r \in {NilRegistry} \cup Registries, info \in Registrations :
            Register(r, info) \/ Override(r, info)
      BY <1>2
    <2>2. CASE Refused
      BY <1>i, <2>2 DEF Refused
    <2>3. CASE Registered(r, info)
      <3>1. PutDone(r, info) /\ base' = base
        BY <1>t, <2>3, WasUnknown DEF Registered
      <3>2. q \in 1..Len(base) /\ q \notin reordered /\ (q # r => q \notin Derived(r))
        BY <2>3, <3>1 DEF Registered
      <3>3. BothWays(base, entries, names, q)
        BY <1>i, <3>2
      <3>4. CASE q = r
        BY <1>t, <2>3, <3>1, <3>3, <3>4, RegisterInverts
      <3>5. CASE q # r
        <4>1. FirstIn(base, q, {r}) # r /\ q \in 0..Len(base)
          BY <3>2, <3>5 DEF Derived, Registries
        <4>2. /\ \A id : LookupIn(base, entries', q, id) = LookupIn(base, entries, q, id)
              /\ \A n : NameIn(base, names', q, n) = NameIn(base, names, q, n)
          BY <1>t, <3>1, <4>1, Elsewhere
        <4> QED BY <3>1, <3>3, <4>2, SameInverts
      <3> QED BY <3>4, <3>5
    <2>4. CASE Overridden(r, info)
      <3>1. PutDone(r, info) /\ base' = base
        BY <1>t, <2>4, PutFacts DEF Overridden, Tables
      <3>2. q \in 1..Len(base) /\ q \notin reordered /\ q \notin Derived(r)
        BY <2>4, <3>1 DEF Overridden
      <3>3. BothWays(base, entries, names, q)
        BY <1>i, <3>2
      <3>4. FirstIn(base, q, {r}) # r /\ q \in 0..Len(base)
        BY <3>2 DEF Derived, Registries
      <3>5. /\ \A id : LookupIn(base, entries', q, id) = LookupIn(base, entries, q, id)
            /\ \A n : NameIn(base, names', q, n) = NameIn(base, names, q, n)
        BY <1>t, <3>1, <3>4, Elsewhere
      <3> QED BY <3>1, <3>3, <3>5, SameInverts
    <2> QED BY <2>1, <2>2, <2>3, <2>4, CallsEnd
  <1>3. CASE UNCHANGED regVars
    BY <1>3, <1>i DEF regVars
  <1> QED BY <1>1, <1>2, <1>3 DEF RegNext

LEMMA StrongInverts == RegStrong => NamesInvert
  <1> SUFFICES ASSUME RegStrong, NEW r \in Made \ reordered
               PROVE  /\ \A id : Resolves(r, id) => IDForName(r, Lookup(r, id).name) = id
                      /\ \A n : IDForName(r, n) # "" =>
                           Lookup(r, IDForName(r, n)).name = n \/ n \in DOMAIN LegacyNames
    BY DEF NamesInvert
  <1>1. BothWays(base, entries, names, r)
    BY DEF RegStrong, Made
  <1>2. /\ \A id : Lookup(r, id) = LookupIn(base, entries, r, id)
        /\ \A n : IDForName(r, n) = NameIn(base, names, r, n)
    BY OfTables
  <1> QED BY <1>1, <1>2 DEF BothWays, Resolves

-----------------------------------------------------------------------------
(* The elements and the boundaries.                                        *)

\* collect is a recursion over the chain that adds what is nearer over what is further.
LEMMA ElementsSteps ==
  ASSUME Tables
  PROVE  \A r \in 1..Len(base) :
           /\ DOMAIN Elements(r) = {id \in KnownID : LookupIn(base, entries, r, id) # None}
           /\ \A id \in DOMAIN Elements(r) : Elements(r)[id] = LookupIn(base, entries, r, id)
  <1> DEFINE Value(f, q) == IF q = NilRegistry THEN << >> ELSE Over(entries[q], f[base[q]])
             in == CHOOSE f : f = [q \in 0..Len(base) |-> Value(f, q)]
             L(q, id) == LookupIn(base, entries, q, id)
             Answered(q) == {id \in KnownID : L(q, id) # None}
             T(q) == [id \in Answered(q) |-> L(q, id)]
             g == [q \in 0..Len(base) |-> T(q)]
  <1>c. IsChain(base)
    BY TablesFacts
  <1>b. \A q \in 0..Len(base) : q # 0 => q \in 1..Len(base) /\ base[q] \in 0..(q - 1) /\ base[q] \in 0..Len(base)
    <2>1. \A q \in 0..Len(base) : q # 0 => q \in 1..Len(base) /\ base[q] \in 0..(q - 1)
      BY <1>c, ChainLinks
    <2> QED BY <2>1, <1>c DEF IsChain
  <1>0. \A id : L(NilRegistry, id) = None
    BY <1>c, LookupSteps
  <1>1. \A id : \A q \in 1..Len(base) :
          L(q, id) = IF id \in DOMAIN entries[q] THEN entries[q][id] ELSE L(base[q], id)
    BY <1>c, LookupSteps
  <1>2. \A q \in 1..Len(base) : \A id \in DOMAIN entries[q] : entries[q][id] # None /\ id \in KnownID
    BY TablesFacts
  <1> HIDE DEF L
  <1>3. T(NilRegistry) = << >>
    <2>1. Answered(NilRegistry) = {}
      BY <1>0
    <2> HIDE DEF Answered
    <2> QED BY <2>1
  <1>4. ASSUME NEW q \in 1..Len(base) PROVE T(q) = Over(entries[q], T(base[q]))
    <2>1. Answered(q) = DOMAIN entries[q] \cup Answered(base[q])
      BY <1>1, <1>2
    <2>2. DOMAIN T(base[q]) = Answered(base[q]) /\ \A id \in Answered(base[q]) : T(base[q])[id] = L(base[q], id)
      OBVIOUS
    <2>3. Over(entries[q], T(base[q])) =
            [id \in Answered(q) |-> IF id \in DOMAIN entries[q] THEN entries[q][id] ELSE T(base[q])[id]]
      <3> HIDE DEF T, Answered
      <3> QED BY <2>1, <2>2 DEF Over
    <2>4. \A id \in Answered(q) :
            L(q, id) = IF id \in DOMAIN entries[q] THEN entries[q][id] ELSE T(base[q])[id]
      <3> SUFFICES ASSUME NEW id \in Answered(q)
                   PROVE  L(q, id) = IF id \in DOMAIN entries[q] THEN entries[q][id] ELSE T(base[q])[id]
        OBVIOUS
      <3>1. L(q, id) = IF id \in DOMAIN entries[q] THEN entries[q][id] ELSE L(base[q], id)
        BY <1>1
      <3>2. id \in DOMAIN entries[q] \/ id \in Answered(base[q])
        BY <2>1
      <3> HIDE DEF T, Answered
      <3> QED BY <2>2, <3>1, <3>2
    <2>5. T(q) = [id \in Answered(q) |-> L(q, id)]
      OBVIOUS
    <2> HIDE DEF T, Answered
    <2> QED BY <2>3, <2>4, <2>5
  <1> HIDE DEF T
  <1>5. g = [q \in 0..Len(base) |-> Value(g, q)]
    <2>1. ASSUME NEW q \in 0..Len(base) PROVE T(q) = Value(g, q)
      <3>1. CASE q = 0
        BY <3>1, <1>3 DEF NilRegistry
      <3>2. CASE q # 0
        <4>1. q \in 1..Len(base) /\ g[base[q]] = T(base[q]) /\ q # NilRegistry
          BY <1>b, <3>2 DEF NilRegistry
        <4> QED BY <1>4, <4>1
      <3> QED BY <3>1, <3>2
    <2> HIDE DEF Value
    <2> QED BY <2>1
  <1>6. in = [q \in 0..Len(base) |-> Value(in, q)]
    <2> HIDE DEF g
    <2> QED BY <1>5, Zenon
  <1>7. \A r : Elements(r) = in[r]
    BY Zenon DEF Elements
  <1> HIDE DEF in, g
  <1>8. \A q \in 0..Len(base) : in[q] = Value(in, q)
    <2> HIDE DEF Value
    <2> QED BY <1>6
  <1> DEFINE S == {q \in 0..Len(base) : in[q] = T(q)}
  <1>9. ASSUME NEW q \in 0..Len(base), \A k \in 0..(q - 1) : k \in S PROVE q \in S
    <2>1. CASE q = 0
      BY <2>1, <1>3, <1>8 DEF NilRegistry
    <2>2. CASE q # 0
      <3>1. q \in 1..Len(base) /\ base[q] \in 0..(q - 1) /\ q # NilRegistry
        BY <1>b, <2>2 DEF NilRegistry
      <3>2. in[base[q]] = T(base[q])
        BY <1>9, <3>1
      <3>3. in[q] = Over(entries[q], in[base[q]])
        BY <1>8, <3>1
      <3> QED BY <1>4, <3>1, <3>2, <3>3
    <2> QED BY <2>1, <2>2
  <1> HIDE DEF S
  <1>10. 0..Len(base) \subseteq S
    BY <1>c, <1>9, StrongInduction DEF IsChain
  <1>11. \A q \in 1..Len(base) : Elements(q) = T(q)
    <2>1. \A q \in 1..Len(base) : q \in 0..Len(base)
      OBVIOUS
    <2> QED BY <1>7, <1>10, <2>1 DEF S
  <1>12. \A q : DOMAIN T(q) = Answered(q) /\ \A id \in Answered(q) : T(q)[id] = L(q, id)
    BY DEF T
  <1> QED BY <1>11, <1>12 DEF L

LEMMA ElementsResolve == Tables => ElementsAreWhatResolves
  <1> SUFFICES ASSUME Tables, NEW r \in Made
               PROVE  /\ DOMAIN Elements(r) = {id \in KnownID : Resolves(r, id)}
                      /\ \A id \in DOMAIN Elements(r) : Elements(r)[id] = Lookup(r, id)
    BY DEF ElementsAreWhatResolves
  <1>1. \A id : Lookup(r, id) = LookupIn(base, entries, r, id)
    BY OfTables
  <1>2. r \in 1..Len(base)
    BY DEF Made, Registries
  <1> QED BY <1>1, <1>2, ElementsSteps DEF Resolves

\* Where the built-in table's children are found, its entry is.
LEMMA ChildrenOfEntry ==
  ASSUME Tables, NEW r, NEW open, ChildrenIn(base, entries, r, open)
  PROVE  LookupIn(base, entries, r, open) = BuiltIn[open] /\ open \in DOMAIN BuiltIn
  <1>1. open \in DOMAIN BuiltIn
    BY RegistryAssumption DEF ChildrenIn
  <1>2. Default \in EntriesOf(base, entries, open) /\ entries[Default] = BuiltIn /\ Default # NilRegistry
    <2>1. Default \in 1..Len(base) /\ entries[Default] = BuiltIn
      BY TablesFacts
    <2>2. Default # NilRegistry
      BY DEF Default, NilRegistry
    <2> QED BY <1>1, <2>1, <2>2 DEF EntriesOf
  <1>3. {Default} \cup EntriesOf(base, entries, open) = EntriesOf(base, entries, open)
    BY <1>2
  <1>4. FirstIn(base, r, EntriesOf(base, entries, open)) = Default
    BY <1>3 DEF ChildrenIn
  <1> QED BY <1>1, <1>2, <1>4 DEF LookupIn

LEMMA EndsAsBuiltIn == Tables => NothingEndsEarlier
  <1> SUFFICES ASSUME Tables, NEW r \in Made, NEW open, NEW next,
                      StreamBoundary(r, open, next), next \notin {"EBML", "Segment"}
               PROVE  /\ StreamBoundary(Default, open, next)
                      /\ Lookup(r, open) = BuiltIn[open] /\ KindForElementID(r, open) = "master"
                      /\ next \notin GlobalElements
    BY DEF NothingEndsEarlier
  <1>1. EndsUnknownSizeMaster(r, open, next)
    BY DEF StreamBoundary
  <1>2. /\ HasChildren(r, open) /\ open \in DOMAIN CompleteChildren
        /\ next \notin GlobalElements /\ next \in DOMAIN BuiltIn /\ next \notin CompleteChildren[open]
    BY <1>1 DEF EndsUnknownSizeMaster, HasChildren
  <1>3. ChildrenIn(base, entries, r, open)
    BY <1>2, OfTables
  <1>4. Lookup(r, open) = BuiltIn[open]
    BY <1>3, ChildrenOfEntry, OfTables
  <1>5. KindForElementID(r, open) = "master"
    <2>1. BuiltIn[open].type = "master"
      BY <1>2, RegistryAssumption
    <2> QED BY <1>4, <2>1 DEF KindForElementID
  <1>6. HasChildren(Default, open)
    <2> DEFINE Stop == {Default} \cup HaveEntry(open)
    <2>1. Default \in Stop /\ IsChain(base) /\ Default \in 1..Len(base)
      BY TablesFacts
    <2> HIDE DEF Stop
    <2>2. FirstIn(base, Default, Stop) = Default
      BY <2>1, FirstSteps DEF Steps
    <2> QED BY <1>2, <2>2 DEF HasChildren, Stop
  <1>7. StreamBoundary(Default, open, next)
    BY <1>2, <1>6 DEF StreamBoundary, EndsUnknownSizeMaster
  <1> QED BY <1>2, <1>4, <1>5, <1>7

\* After any sequence of calls: the types; the names that stand for the entries that bear
\* them; Elements, that lists what Lookup resolves; names and IDs that are each other's
\* inverse where nothing was overridden; and no master that ends where the schema would
\* not end it (matroska/registry.go, classify.go).
THEOREM RegistriesAreCoherent == RegSpec => []RegInv
  <1>1. RegStrong => RegInv
    BY StrongInverts, ElementsResolve, EndsAsBuiltIn DEF RegStrong, Tables, NamesInv, RegInv
  <1> QED BY <1>1, StrongInit, StrongStep, PTL DEF RegSpec

-----------------------------------------------------------------------------
(* What one call changes.                                                  *)

\* Of what is put in r, a registry sees nothing, or it is derived from r, the chain comes
\* to r with the ID not yet found, and from there it is r that answers.
LEMMA PutIsSeen ==
  ASSUME Tables, NEW r, NEW info, PutDone(r, info), NEW q \in 1..Len(base), NEW id
  PROVE  \/ LookupIn(base, entries', q, id) = LookupIn(base, entries, q, id)
         \/ /\ id = info.id /\ q \in Derived(r)
            /\ LookupIn(base, entries, q, id) = LookupIn(base, entries, r, id)
  <1>1. IsChain(base) /\ r \in 1..Len(base) /\ q \in 0..Len(base)
    <2>1. IsChain(base) /\ r \in 1..Len(base)
      BY TablesFacts DEF PutDone
    <2>2. q \in 0..Len(base)
      OBVIOUS
    <2> QED BY <2>1, <2>2
  <1> DEFINE Stop == EntriesOf(base, entries, id)
             Stop2 == EntriesOf(base, entries', id)
             d == FirstIn(base, q, Stop)
  <1>e. \A k \in 1..Len(base) : k # r => entries'[k] = entries[k]
    BY DEF PutDone
  <1>2. \A k \in 1..Len(base) : k # r => (k \in Stop2 <=> k \in Stop)
    BY <1>e DEF EntriesOf
  <1>3. d = NilRegistry \/ (d \in Stop /\ d \in 1..Len(base))
    <2>1. d = NilRegistry \/ d \in Stop
      <3> HIDE DEF Stop
      <3>1. d \in {NilRegistry} \cup (Stop \cap 1..q)
        BY <1>1, FirstRange
      <3> HIDE DEF d
      <3> QED BY <3>1
    <2>2. Stop \subseteq 1..Len(base)
      BY DEF EntriesOf
    <2> HIDE DEF Stop, d
    <2> QED BY <2>1, <2>2
  <1>4. \A k : LookupIn(base, entries', k, id) =
                 IF FirstIn(base, k, Stop2) = NilRegistry THEN None ELSE entries'[FirstIn(base, k, Stop2)][id]
    BY Zenon DEF LookupIn
  <1>5. \A k : LookupIn(base, entries, k, id) =
                 IF FirstIn(base, k, Stop) = NilRegistry THEN None ELSE entries[FirstIn(base, k, Stop)][id]
    BY Zenon DEF LookupIn
  <1>6. CASE id # info.id
    <2>1. /\ r \in Stop2 <=> r \in Stop
          /\ id \in DOMAIN entries[r] => entries'[r][id] = entries[r][id]
      BY <1>6, <1>1 DEF PutDone, EntriesOf
    <2>2. Stop2 = Stop
      <3>1. Stop \subseteq 1..Len(base) /\ Stop2 \subseteq 1..Len(base)
        BY DEF EntriesOf
      <3> HIDE DEF Stop, Stop2
      <3>2. \A k \in 1..Len(base) : k \in Stop2 <=> k \in Stop
        BY <1>2, <2>1
      <3> QED BY <3>1, <3>2
    <2>3. d # NilRegistry => entries'[d][id] = entries[d][id]
      <3>1. d \in Stop => id \in DOMAIN entries[d]
        BY DEF EntriesOf
      <3> HIDE DEF d
      <3> QED BY <1>e, <1>3, <2>1, <3>1
    <2>4. FirstIn(base, q, Stop2) = d
      <3> HIDE DEF Stop, Stop2
      <3> QED BY <2>2
    <2> HIDE DEF Stop, Stop2
    <2> QED BY <1>4, <1>5, <2>3, <2>4
  <1>7. CASE id = info.id
    <2>1. r \in Stop2
      BY <1>1, <1>7 DEF PutDone, EntriesOf
    <2> HIDE DEF Stop, Stop2
    <2>2. \/ FirstIn(base, q, Stop2) = d /\ FirstIn(base, q, Stop2) # r
          \/ /\ FirstIn(base, q, Stop2) = r /\ FirstIn(base, q, {r}) = r
             /\ d = FirstIn(base, r, Stop)
      BY <1>1, <1>2, <2>1, FirstThrough
    <2>3. CASE FirstIn(base, q, Stop2) = d /\ d # r
      <3>1. d # NilRegistry => entries'[d] = entries[d]
        BY <1>e, <1>3, <2>3
      <3> QED BY <1>4, <1>5, <2>3, <3>1
    <2>4. CASE FirstIn(base, q, {r}) = r /\ d = FirstIn(base, r, Stop)
      <3>1. q \in Derived(r)
        BY <2>4 DEF Derived, Registries
      <3>2. LookupIn(base, entries, q, id) = LookupIn(base, entries, r, id)
        BY <1>5, <2>4
      <3> QED BY <1>7, <3>1, <3>2
    <2> QED BY <2>2, <2>3, <2>4
  <1> QED BY <1>6, <1>7

\* The children of a master are found as before, or it is the master that was put, in a
\* registry that resolves through r.
LEMMA ChildrenAreSeen ==
  ASSUME Tables, NEW r, NEW info, PutDone(r, info), NEW q \in 1..Len(base), NEW open
  PROVE  \/ ChildrenIn(base, entries', q, open) = ChildrenIn(base, entries, q, open)
         \/ /\ open = info.id /\ q \in Derived(r)
            /\ ChildrenIn(base, entries, q, open) => ChildrenIn(base, entries, r, open)
            /\ ~ChildrenIn(base, entries', q, open)
  <1>1. IsChain(base) /\ r \in 1..Len(base) /\ q \in 0..Len(base) /\ r # Default
    <2>1. IsChain(base) /\ r \in 1..Len(base) /\ r # Default
      BY TablesFacts DEF PutDone
    <2>2. q \in 0..Len(base)
      OBVIOUS
    <2> QED BY <2>1, <2>2
  <1> DEFINE Stop == {Default} \cup EntriesOf(base, entries, open)
             Stop2 == {Default} \cup EntriesOf(base, entries', open)
             d == FirstIn(base, q, Stop)
  <1>2. \A k \in 1..Len(base) : k # r => (k \in Stop2 <=> k \in Stop)
    BY DEF PutDone, EntriesOf
  <1>4. ChildrenIn(base, entries', q, open) <=>
          FirstIn(base, q, Stop2) = Default /\ open \in DOMAIN CompleteChildren
    BY Zenon DEF ChildrenIn
  <1>5. \A k : ChildrenIn(base, entries, k, open) <=>
          FirstIn(base, k, Stop) = Default /\ open \in DOMAIN CompleteChildren
    BY Zenon DEF ChildrenIn
  <1>6. CASE open # info.id
    <2>1. r \in Stop2 <=> r \in Stop
      BY <1>6, <1>1 DEF PutDone, EntriesOf
    <2>2. Stop2 = Stop
      <3>1. EntriesOf(base, entries', open) = EntriesOf(base, entries, open)
        <4>1. open \in DOMAIN entries'[r] <=> open \in DOMAIN entries[r]
          BY <1>6 DEF PutDone
        <4>2. \A k \in 1..Len(base) : open \in DOMAIN entries'[k] <=> open \in DOMAIN entries[k]
          BY <4>1 DEF PutDone
        <4> QED BY <4>2 DEF EntriesOf
      <3> QED BY <3>1
    <2>3. ChildrenIn(base, entries', q, open) = ChildrenIn(base, entries, q, open)
      BY <2>2, Zenon DEF ChildrenIn
    <2> QED BY <2>3
  <1>7. CASE open = info.id
    <2>1. r \in Stop2
      BY <1>1, <1>7 DEF PutDone, EntriesOf
    <2> HIDE DEF Stop, Stop2
    <2>2. \/ FirstIn(base, q, Stop2) = d /\ FirstIn(base, q, Stop2) # r
          \/ /\ FirstIn(base, q, Stop2) = r /\ FirstIn(base, q, {r}) = r
             /\ d = FirstIn(base, r, Stop)
      BY <1>1, <1>2, <2>1, FirstThrough
    <2>3. CASE FirstIn(base, q, Stop2) = d
      <3>1. ChildrenIn(base, entries', q, open) = ChildrenIn(base, entries, q, open)
        BY <2>3, Zenon DEF ChildrenIn, Stop, Stop2
      <3> QED BY <3>1
    <2>4. CASE FirstIn(base, q, Stop2) = r /\ FirstIn(base, q, {r}) = r /\ d = FirstIn(base, r, Stop)
      <3>1. q \in Derived(r)
        BY <2>4 DEF Derived, Registries
      <3>2. ~ChildrenIn(base, entries', q, open)
        BY <1>1, <1>4, <2>4
      <3>3. ChildrenIn(base, entries, q, open) => ChildrenIn(base, entries, r, open)
        BY <1>5, <2>4
      <3> QED BY <1>7, <3>1, <3>2, <3>3
    <2> QED BY <2>2, <2>3, <2>4
  <1> QED BY <1>6, <1>7

\* A name keeps its ID when something is registered that no name stood for.
LEMMA NamesAreKept ==
  ASSUME Tables, NEW r, NEW info, Registered(r, info), NEW q \in 1..Len(base), NEW n
  PROVE  NameIn(base, names, q, n) # "" =>
           NameIn(base, names', q, n) = NameIn(base, names, q, n)
  <1>0. PutDone(r, info) /\ DOMAIN names'[r] = {info.name} \cup DOMAIN names[r]
        /\ NameIn(base, names, r, info.name) = ""
    BY WasUnknown
  <1>1. IsChain(base) /\ r \in 1..Len(base) /\ q \in 0..Len(base) /\ r # Default
    <2>1. IsChain(base) /\ r \in 1..Len(base) /\ r # Default
      BY <1>0, TablesFacts DEF PutDone
    <2>2. q \in 0..Len(base)
      OBVIOUS
    <2> QED BY <2>1, <2>2
  <1> DEFINE Stop == NamesOf(base, names, n)
             Stop2 == NamesOf(base, names', n)
             d == FirstIn(base, q, Stop)
  <1>e. \A k \in 1..Len(base) : k # r => names'[k] = names[k]
    BY <1>0 DEF PutDone
  <1>2. \A k \in 1..Len(base) : k # r => (k \in Stop2 <=> k \in Stop)
    BY <1>e DEF NamesOf
  <1>3. d = NilRegistry \/ (d \in Stop /\ d \in 1..Len(base))
    <2>1. d = NilRegistry \/ d \in Stop
      <3> HIDE DEF Stop
      <3>1. d \in {NilRegistry} \cup (Stop \cap 1..q)
        BY <1>1, FirstRange
      <3> HIDE DEF d
      <3> QED BY <3>1
    <2>2. Stop \subseteq 1..Len(base)
      BY DEF NamesOf
    <2> HIDE DEF Stop, d
    <2> QED BY <2>1, <2>2
  <1>4. \A k : NameIn(base, names', k, n) =
          IF FirstIn(base, k, Stop2) = NilRegistry THEN ""
          ELSE IF n \in DOMAIN names'[FirstIn(base, k, Stop2)] THEN names'[FirstIn(base, k, Stop2)][n]
          ELSE LegacyNames[n]
    BY Zenon DEF NameIn
  <1>5. \A k : NameIn(base, names, k, n) =
          IF FirstIn(base, k, Stop) = NilRegistry THEN ""
          ELSE IF n \in DOMAIN names[FirstIn(base, k, Stop)] THEN names[FirstIn(base, k, Stop)][n]
          ELSE LegacyNames[n]
    BY Zenon DEF NameIn
  <1>6. CASE n # info.name
    <2>1. /\ n \in DOMAIN names'[r] <=> n \in DOMAIN names[r]
          /\ n \in DOMAIN names[r] => names'[r][n] = names[r][n]
      BY <1>6, <1>0 DEF PutDone
    <2>2. FirstIn(base, q, Stop2) = d
      <3>1. Stop2 = Stop
        <4>1. r \in Stop2 <=> r \in Stop
          BY <2>1, <1>1 DEF NamesOf
        <4>2. Stop \subseteq 1..Len(base) /\ Stop2 \subseteq 1..Len(base)
          BY DEF NamesOf
        <4> HIDE DEF Stop, Stop2
        <4>3. \A k \in 1..Len(base) : k \in Stop2 <=> k \in Stop
          BY <1>2, <4>1
        <4> QED BY <4>2, <4>3
      <3> HIDE DEF Stop, Stop2
      <3> QED BY <3>1
    <2> HIDE DEF Stop, Stop2
    <2>3. NameIn(base, names', q, n) =
          IF d = NilRegistry THEN "" ELSE IF n \in DOMAIN names'[d] THEN names'[d][n] ELSE LegacyNames[n]
      BY <1>4, <2>2
    <2>4. NameIn(base, names, q, n) =
          IF d = NilRegistry THEN "" ELSE IF n \in DOMAIN names[d] THEN names[d][n] ELSE LegacyNames[n]
      BY <1>5
    <2> HIDE DEF d
    <2>5. CASE d = r
      BY <2>1, <2>3, <2>4, <2>5
    <2>6. CASE d # r
      <3>1. d # NilRegistry => names'[d] = names[d]
        BY <1>e, <1>3, <2>6
      <3> QED BY <2>3, <2>4, <3>1
    <2> QED BY <2>5, <2>6
  <1>7. CASE n = info.name
    <2>1. r \in Stop2
      BY <1>0, <1>1, <1>7 DEF PutDone, NamesOf
    <2> HIDE DEF Stop, Stop2
    <2>2. \/ FirstIn(base, q, Stop2) = d /\ FirstIn(base, q, Stop2) # r
          \/ /\ FirstIn(base, q, Stop2) = r /\ FirstIn(base, q, {r}) = r
             /\ d = FirstIn(base, r, Stop)
      BY <1>1, <1>2, <2>1, FirstThrough
    <2>3. CASE FirstIn(base, q, Stop2) = d /\ d # r
      <3>1. d # NilRegistry => names'[d] = names[d]
        BY <1>e, <1>3, <2>3
      <3> QED BY <1>4, <1>5, <2>3, <3>1
    <2>4. CASE d = FirstIn(base, r, Stop)
      <3>1. NameIn(base, names, q, n) = NameIn(base, names, r, n)
        BY <1>5, <2>4
      <3> QED BY <1>0, <1>7, <3>1
    <2> QED BY <2>2, <2>3, <2>4
  <1> QED BY <1>6, <1>7

\* The answers of one registry, after and before a step.
Contained(q, id) ==
  /\ \/ LookupIn(base', entries', q, id) = LookupIn(base, entries, q, id)
     \/ last'.error = "none" /\ q \in Derived(last'.r) /\ id = last'.id
        /\ (last'.call = "Override" \/ LookupIn(base, entries, q, id) = None)
  /\ \/ ChildrenIn(base', entries', q, id) = ChildrenIn(base, entries, q, id)
     \/ last'.call = "Override" /\ q \in Derived(last'.r) /\ id = last'.id
  /\ last'.call = "Register" => \A n \in KnownName :
       NameIn(base, names, q, n) # "" => NameIn(base', names', q, n) = NameIn(base, names, q, n)

LEMMA StepContained ==
  ASSUME Tables, RegNext, NEW q \in Made, NEW id
  PROVE  Contained(q, id)
  <1>0. q \in 1..Len(base) /\ q \in 0..Len(base)
    <2>1. q \in 1..Len(base)
      BY DEF Made, Registries
    <2>2. 1..Len(base) \subseteq 0..Len(base)
      OBVIOUS
    <2> QED BY <2>1, <2>2
  <1>1. CASE \E b \in {NilRegistry} \cup Registries : NewRegistry(b)
    <2>1. PICK b \in {NilRegistry} \cup Registries : NewRegistry(b)
      BY <1>1
    <2>2. /\ LookupIn(base', entries', q, id) = LookupIn(base, entries, q, id)
          /\ ChildrenIn(base', entries', q, id) = ChildrenIn(base, entries, q, id)
          /\ \A n : NameIn(base', names', q, n) = NameIn(base, names, q, n)
      BY <1>0, <2>1, OlderAnswer
    <2> QED BY <2>2 DEF Contained
  <1>2. CASE \E r \in {NilRegistry} \cup Registries, info \in Registrations :
               Register(r, info) \/ Override(r, info)
    <2>1. PICK r \in {NilRegistry} \cup Registries, info \in Registrations :
            Register(r, info) \/ Override(r, info)
      BY <1>2
    <2>2. CASE Refused
      <3>1. base' = base /\ entries' = entries /\ names' = names
        BY <2>2 DEF Refused
      <3> QED BY <3>1 DEF Contained
    <2>3. CASE Registered(r, info)
      <3>1. PutDone(r, info) /\ LookupIn(base, entries, r, info.id) = None /\ base' = base
        BY <2>3, WasUnknown DEF Registered
      <3>2. last'.call = "Register" /\ last'.r = r /\ last'.id = info.id /\ last'.error = "none"
        BY <2>3 DEF Registered, Call
      <3>3. \/ LookupIn(base, entries', q, id) = LookupIn(base, entries, q, id)
            \/ id = info.id /\ q \in Derived(r) /\ LookupIn(base, entries, q, id) = None
        BY <1>0, <3>1, PutIsSeen
      <3>4. ChildrenIn(base, entries', q, id) = ChildrenIn(base, entries, q, id)
        <4>1. CASE /\ id = info.id
                   /\ ChildrenIn(base, entries, q, id) => ChildrenIn(base, entries, r, id)
                   /\ ~ChildrenIn(base, entries', q, id)
          <5>1. ~ChildrenIn(base, entries, r, id)
            <6> SUFFICES ASSUME ChildrenIn(base, entries, r, id) PROVE FALSE
              OBVIOUS
            <6>1. LookupIn(base, entries, r, id) = BuiltIn[id] /\ id \in DOMAIN entries[Default]
              BY ChildrenOfEntry, TablesFacts
            <6>2. entries[Default][id] # None
              BY <6>1, TablesFacts
            <6> QED BY <3>1, <4>1, <6>1, <6>2, TablesFacts
          <5>2. ~ChildrenIn(base, entries, q, id)
            BY <4>1, <5>1
          <5> QED BY <4>1, <5>2 DEF ChildrenIn
        <4> QED BY <1>0, <3>1, <4>1, ChildrenAreSeen
      <3>5. \A n : NameIn(base, names, q, n) # "" => NameIn(base, names', q, n) = NameIn(base, names, q, n)
        BY <1>0, <2>3, NamesAreKept
      <3> QED BY <3>1, <3>2, <3>3, <3>4, <3>5 DEF Contained
    <2>4. CASE Overridden(r, info)
      <3>1. PutDone(r, info) /\ base' = base
        BY <2>4, PutFacts DEF Overridden, Tables
      <3>2. last'.call = "Override" /\ last'.r = r /\ last'.id = info.id /\ last'.error = "none"
        BY <2>4 DEF Overridden, Call
      <3>3. \/ LookupIn(base, entries', q, id) = LookupIn(base, entries, q, id)
            \/ id = info.id /\ q \in Derived(r)
        BY <1>0, <3>1, PutIsSeen
      <3>4. \/ ChildrenIn(base, entries', q, id) = ChildrenIn(base, entries, q, id)
            \/ id = info.id /\ q \in Derived(r)
        BY <1>0, <3>1, ChildrenAreSeen
      <3> QED BY <3>1, <3>2, <3>3, <3>4 DEF Contained
    <2> QED BY <2>1, <2>2, <2>3, <2>4, CallsEnd
  <1> QED BY <1>1, <1>2 DEF RegNext

\* A Register takes back nothing that any registry answers, however the registries are
\* derived from one another, and moves no boundary; an Override changes the answers for
\* its one ID, in the registry and those derived from it; a refused call changes nothing
\* (matroska/registry.go, Register and Override).
THEOREM RegistrationsAreContained == RegSpec => RegistrationIsContained
  <1>1. ASSUME RegStrong, [RegNext]_regVars
        PROVE  [<<base, entries, names>>' # <<base, entries, names>> => \A q \in Made, id \in KnownID :
                 /\ \/ Lookup(q, id)' = Lookup(q, id)
                    \/ last'.error = "none" /\ q \in Derived(last'.r) /\ id = last'.id
                       /\ (last'.call = "Override" \/ ~Resolves(q, id))
                 /\ \/ HasChildren(q, id)' = HasChildren(q, id)
                    \/ last'.call = "Override" /\ q \in Derived(last'.r) /\ id = last'.id
                 /\ last'.call = "Register" => \A n \in KnownName :
                      IDForName(q, n) # "" => IDForName(q, n)' = IDForName(q, n)]_<<base, entries, names>>
    <2> SUFFICES ASSUME RegNext, NEW q \in Made, NEW id \in KnownID
                 PROVE /\ \/ Lookup(q, id)' = Lookup(q, id)
                          \/ last'.error = "none" /\ q \in Derived(last'.r) /\ id = last'.id
                             /\ (last'.call = "Override" \/ ~Resolves(q, id))
                       /\ \/ HasChildren(q, id)' = HasChildren(q, id)
                          \/ last'.call = "Override" /\ q \in Derived(last'.r) /\ id = last'.id
                       /\ last'.call = "Register" => \A n \in KnownName :
                            IDForName(q, n) # "" => IDForName(q, n)' = IDForName(q, n)
      BY <1>1 DEF regVars
    <2>1. Contained(q, id)
      BY <1>1, StepContained DEF RegStrong
    <2>2. /\ Lookup(q, id) = LookupIn(base, entries, q, id)
          /\ Lookup(q, id)' = LookupIn(base', entries', q, id)
          /\ HasChildren(q, id) = ChildrenIn(base, entries, q, id)
          /\ HasChildren(q, id)' = ChildrenIn(base', entries', q, id)
      BY OfTables, Zenon
    <2>3. \A n : /\ IDForName(q, n) = NameIn(base, names, q, n)
                 /\ IDForName(q, n)' = NameIn(base', names', q, n)
      BY OfTables, Zenon
    <2> QED BY <2>1, <2>2, <2>3 DEF Contained, Resolves
  <1> QED BY <1>1, StrongInit, StrongStep, PTL DEF RegSpec, RegistrationIsContained

-----------------------------------------------------------------------------
(* The elements around an element.                                         *)

\* Every element has a parent before it.
Parented(ns) == IsSequence(ns) /\ \A k \in DOMAIN ns : ns[k].parent \in 0..(k - 1)

\* Around an element are its parent and what is around that.
AroundIs(anc, ns) ==
  \A k \in DOMAIN ns :
    anc[k] = IF ns[k].parent = 0 THEN {} ELSE {ns[k].parent} \cup anc[ns[k].parent]

LEMMA AncestorsAre ==
  ASSUME NEW ns, Parented(ns)
  PROVE  AroundIs(AncestorsIn(ns), ns)
  <1> DEFINE n == Len(ns)
             Value(f, k) == IF ns[k].parent = 0 THEN {} ELSE {ns[k].parent} \cup f[ns[k].parent]
             anc == CHOOSE f : f = [k \in 1..n |-> Value(f, k)]
             b == [k \in 1..n |-> ns[k].parent]
             g == [k \in 1..n |-> [x \in SUBSET (0..n) |->
                                     IF b[k] = 0 THEN {} ELSE {b[k]} \cup x]]
  <1>1. n \in Nat /\ DOMAIN ns = 1..n /\ \A k \in 1..n : ns[k].parent \in 0..(k - 1)
    BY DEF Parented, IsSequence
  <1>2. Linked(b, n)
    BY <1>1 DEF Linked
  <1>3. PICK f : GoesAlong(f, b, n, {}, g)
    <2> HIDE DEF n, b, g
    <2>1. n \in Nat
      BY <1>1
    <2>2. \E f : GoesAlong(f, b, n, {}, g)
      BY <2>1, <1>2, LinkedFunction, Zenon
    <2> QED BY <2>2
  <1>4. \A k \in 1..n : ns[k].parent \in 0..n /\ ns[k].parent < k /\ ns[k].parent >= 0
    BY <1>1
  <1> HIDE DEF n
  <1>5. \A k \in 0..n : f[k] \in SUBSET (0..n)
    <2> DEFINE T == {k \in 0..n : f[k] \in SUBSET (0..n)}
    <2>1. ASSUME NEW m \in 0..n, 0..(m - 1) \subseteq T PROVE m \in T
      <3>1. CASE m = 0
        BY <1>3, <3>1 DEF GoesAlong
      <3>2. CASE m # 0
        <4>1. m \in 1..n /\ b[m] \in 0..(m - 1)
          BY <1>1, <3>2
        <4>2. f[b[m]] \in SUBSET (0..n)
          BY <2>1, <4>1
        <4>3. f[m] = IF b[m] = 0 THEN {} ELSE {b[m]} \cup f[b[m]]
          BY <1>3, <4>1, <4>2 DEF GoesAlong
        <4>4. b[m] \in 0..n
          BY <1>4, <4>1
        <4> QED BY <4>2, <4>3, <4>4
      <3> QED BY <3>1, <3>2
    <2> HIDE DEF T
    <2>2. 0..n \subseteq T
      BY <1>1, <2>1, StrongInduction
    <2> QED BY <2>2 DEF T
  <1>6. ASSUME NEW k \in 1..n PROVE f[k] = Value(f, k)
    <2>1. b[k] = ns[k].parent /\ b[k] \in 0..n
      BY <1>4
    <2>2. f[b[k]] \in SUBSET (0..n)
      BY <1>5, <2>1
    <2>3. f[k] = IF b[k] = 0 THEN {} ELSE {b[k]} \cup f[b[k]]
      BY <1>3, <2>2 DEF GoesAlong
    <2> QED BY <2>1, <2>3
  <1> DEFINE r == [k \in 1..n |-> f[k]]
  <1>7. ASSUME NEW k \in 1..n PROVE r[k] = Value(r, k)
    <2>1. ns[k].parent # 0 => ns[k].parent \in 1..n
      BY <1>1, <1>4
    <2> QED BY <1>6, <2>1
  <1>8. r = [k \in 1..n |-> r[k]]
    OBVIOUS
  <1> HIDE DEF r, Value
  <1>9. r = [k \in 1..n |-> Value(r, k)]
    BY <1>7, <1>8
  <1>10. anc = [k \in 1..n |-> Value(anc, k)]
    BY <1>9, Zenon
  <1>11. AncestorsIn(ns) = anc
    BY <1>1, Zenon DEF AncestorsIn, Value
  <1> HIDE DEF anc
  <1>12. \A k \in 1..n : anc[k] = Value(anc, k)
    BY <1>10
  <1> QED BY <1>1, <1>11, <1>12 DEF AroundIs, Value

-----------------------------------------------------------------------------
(* What the loop of Parse keeps.                                           *)

IsNode(n) ==
  /\ DOMAIN n = {"id", "offset", "headerLen", "size", "payload", "truncated", "parent"}
  /\ n.id \in ElementID /\ n.offset \in Nat /\ n.headerLen \in Nat
  /\ n.size \in Nat \cup {UnknownSize} /\ n.parent \in Nat

\* A parser between two calls of the loop.
IsBetween(q) == q.fed \in Nat /\ q.pos \in Nat /\ q.current = NoElement /\ IsSequence(q.stack)

\* The parser's frame is that of the element k.
FrameOf(f, k) ==
  /\ f.id = nodes[k].id /\ f.start = nodes[k].offset
  /\ f.end = IF nodes[k].size = UnknownSize THEN UnknownSize ELSE EndOf(k)

ParseTypes ==
  /\ doc \in DOMAIN Documents /\ edits \in Nat
  /\ IsSequence(nodes) /\ \A k \in DOMAIN nodes : IsNode(nodes[k])

\* The two stacks are the same masters, each the parent of the next.
StacksInv ==
  phase = "parsing" =>
    /\ edits = 0 /\ IsBetween(p) /\ IsSequence(stack) /\ Len(stack) = Len(p.stack)
    /\ \A i \in 1..Len(stack) :
         /\ stack[i] \in DOMAIN nodes /\ IsMaster(stack[i])
         /\ nodes[stack[i]].parent = IF i = 1 THEN 0 ELSE stack[i - 1]
         /\ FrameOf(p.stack[i], stack[i])

ParentsInv ==
  \A k \in DOMAIN nodes :
    /\ nodes[k].parent \in 0..(k - 1)
    /\ nodes[k].parent # 0 => IsMaster(nodes[k].parent)
    /\ IsMaster(k) => nodes[k].payload = << >>

\* A document that can be read at pos has a header there.
LEMMA ElementIsThere ==
  ASSUME doc \in DOMAIN Documents, HeaderResult(doc, p) = "ok"
  PROVE  /\ p.pos \in DOMAIN Documents[doc].at /\ h0 = Documents[doc].at[p.pos]
         /\ h0 \in Header /\ h0.id \in ElementID /\ h0.idLen \in 1..4 /\ h0.sizeLen \in 0..8
         /\ HeaderLen(h0) \in Nat /\ HeaderLen(h0) >= 1
         /\ h0.size \in Nat \cup {UnknownSize} /\ KindOf[h0.id] \in Kind
         /\ h0.size = UnknownSize => KindOf[h0.id] = "master"
  <1>1. VINTResult(h0, Available(p)) = "ok" /\ (h0.size = UnknownSize => KindOf[h0.id] = "master")
    BY DEF HeaderResult, HeaderOutcome, h0
  <1>2. h0.idLen # 0
    BY <1>1 DEF VINTResult
  <1>3. p.pos \in DOMAIN Documents[doc].at /\ h0 = Documents[doc].at[p.pos]
    BY <1>2 DEF h0, HeaderAt
  <1>4. h0 \in Header
    BY <1>3, Assumption DEF DocumentsAssumption
  <1>5. h0.id \in ElementID /\ h0.idLen \in 0..4 /\ h0.sizeLen \in 0..8
        /\ h0.size \in Nat \cup {UnknownSize}
    BY <1>4 DEF Header
  <1>6. HeaderLen(h0) \in Nat /\ HeaderLen(h0) >= 1 /\ h0.idLen \in 1..4
    BY <1>2, <1>5 DEF HeaderLen
  <1>7. KindOf[h0.id] \in Kind
    BY <1>5, Assumption DEF DocumentsAssumption
  <1> QED BY <1>1, <1>3, <1>4, <1>5, <1>6, <1>7

\* The parser is at an element only where there is a header.
LEMMA PeekedIsHeader ==
  ASSUME Peeked = "ok"
  PROVE  ~AtMasterEnd(p) /\ HeaderResult(doc, p) = "ok"
  BY DEF Peeked, PeekResult

\* No call of the parser returns the word for a Parse that goes on.
LEMMA ResultsAreVerdicts ==
  ASSUME NEW d, NEW q
  PROVE  PeekResult(d, q) # "parsing" /\ LeaveMasterResult(q) # "parsing"
         /\ FinalizeEOFResult(d, q) # "parsing"
  <1>1. ASSUME NEW x PROVE PeekResult(d, x) # "parsing"
    <2>1. ASSUME NEW h, NEW n PROVE VINTResult(h, n) # "parsing"
      BY DEF VINTResult
    <2>2. ASSUME NEW h PROVE HeaderOutcome(h, x) # "parsing"
      BY <2>1 DEF HeaderOutcome
    <2> QED BY <2>2 DEF PeekResult, HeaderResult
  <1>2. LeaveMasterResult(q) # "parsing"
    BY DEF LeaveMasterResult
  <1>3. LeftoverResult(d, q) # "parsing"
    BY <1>1 DEF LeftoverResult
  <1>4. FinalizeEOFResult(d, q) # "parsing"
    BY <1>3 DEF FinalizeEOFResult
  <1> QED BY <1>1, <1>2, <1>4

\* What an element that is attached is.
LEMMA NodeIs ==
  ASSUME NEW h \in Header, NEW payload, NEW cut, p.pos \in Nat,
         NEW parent \in Nat, parent = IF stack = << >> THEN 0 ELSE Last(stack)
  PROVE  /\ IsNode(Node(h, payload, cut))
         /\ Node(h, payload, cut).id = h.id /\ Node(h, payload, cut).offset = p.pos
         /\ Node(h, payload, cut).headerLen = HeaderLen(h) /\ Node(h, payload, cut).size = h.size
         /\ Node(h, payload, cut).payload = payload /\ Node(h, payload, cut).parent = parent
         /\ Node(h, payload, cut).truncated = cut
  BY DEF Node, IsNode, Header, HeaderLen, UnknownSize

\* The master on top of the stack, if there is one.
LEMMA TopOfStack ==
  ASSUME ParseTypes, StacksInv, phase = "parsing"
  PROVE  /\ Len(stack) \in Nat /\ DOMAIN stack = 1..Len(stack)
         /\ Len(nodes) \in Nat /\ DOMAIN nodes = 1..Len(nodes)
         /\ stack # << >> => /\ Len(stack) \in 1..Len(stack) /\ Last(stack) = stack[Len(stack)]
                             /\ Last(stack) \in DOMAIN nodes /\ IsMaster(Last(stack))
         /\ stack = << >> => Len(stack) = 0
         /\ (IF stack = << >> THEN 0 ELSE Last(stack)) \in 0..Len(nodes)
  <1>1. Len(stack) \in Nat /\ DOMAIN stack = 1..Len(stack)
    BY DEF StacksInv, IsSequence
  <1>2. Len(nodes) \in Nat /\ DOMAIN nodes = 1..Len(nodes)
    BY DEF ParseTypes, IsSequence
  <1>3. stack # << >> => Len(stack) \in 1..Len(stack)
    BY DEF StacksInv, IsSequence
  <1>4. Last(stack) = stack[Len(stack)]
    BY DEF Last
  <1>5. \A i \in 1..Len(stack) : stack[i] \in DOMAIN nodes /\ IsMaster(stack[i])
    BY DEF StacksInv
  <1>6. stack = << >> => Len(stack) = 0
    OBVIOUS
  <1>7. stack # << >> => Last(stack) \in DOMAIN nodes /\ IsMaster(Last(stack))
    BY <1>3, <1>4, <1>5
  <1>8. (IF stack = << >> THEN 0 ELSE Last(stack)) \in 0..Len(nodes)
    <2>1. CASE stack = << >>
      BY <1>2, <2>1
    <2>2. CASE stack # << >>
      BY <1>2, <1>7, <2>2
    <2> QED BY <2>1, <2>2
  <1> QED BY <1>1, <1>2, <1>3, <1>4, <1>6, <1>7, <1>8

\* An element behind the others.
LEMMA Attached ==
  ASSUME ParseTypes, ParentsInv, StacksInv, phase = "parsing", Peeked = "ok",
         NEW payload, NEW cut, KindOf[h0.id] = "master" => payload = << >>,
         nodes' = Append(nodes, Node(h0, payload, cut)), UNCHANGED <<doc, edits>>
  PROVE  /\ ParseTypes' /\ ParentsInv'
         /\ Len(nodes) \in Nat /\ DOMAIN nodes = 1..Len(nodes)
         /\ DOMAIN nodes' = 1..(Len(nodes) + 1) /\ Len(nodes') = Len(nodes) + 1
         /\ \A k \in DOMAIN nodes : nodes'[k] = nodes[k]
         /\ LET n == nodes'[Len(nodes) + 1]
            IN /\ n.id = h0.id /\ n.offset = p.pos /\ n.headerLen = HeaderLen(h0)
               /\ n.size = h0.size /\ n.payload = payload /\ n.truncated = cut
               /\ n.parent = IF stack = << >> THEN 0 ELSE Last(stack)
  <1> DEFINE n == Node(h0, payload, cut)
             N == Len(nodes) + 1
  <1>1. IsSequence(nodes) /\ doc \in DOMAIN Documents /\ edits \in Nat
        /\ \A k \in DOMAIN nodes : IsNode(nodes[k])
    BY DEF ParseTypes
  <1>2. /\ Len(nodes) \in Nat /\ DOMAIN nodes = 1..Len(nodes)
        /\ IsSequence(nodes') /\ Len(nodes') = N /\ DOMAIN nodes' = 1..N
        /\ \A i \in 1..Len(nodes) : nodes'[i] = nodes[i]
        /\ nodes'[N] = n
    <2>1. nodes' = Append(nodes, n)
      OBVIOUS
    <2> HIDE DEF n
    <2> QED BY <1>1, <2>1, AppendToSequence
  <1>3. PICK parent \in 0..Len(nodes) :
          /\ parent = IF stack = << >> THEN 0 ELSE Last(stack)
          /\ parent # 0 => parent \in DOMAIN nodes /\ IsMaster(parent)
    BY <1>2, TopOfStack
  <1>4. h0 \in Header /\ p.pos \in Nat
    BY <1>1, PeekedIsHeader, ElementIsThere DEF StacksInv, IsBetween
  <1>5. /\ IsNode(n) /\ n.id = h0.id /\ n.offset = p.pos /\ n.headerLen = HeaderLen(h0)
        /\ n.size = h0.size /\ n.payload = payload /\ n.truncated = cut /\ n.parent = parent
    <2>1. parent \in Nat
      BY <1>2, <1>3
    <2> QED BY <1>3, <1>4, <2>1, NodeIs
  <1> HIDE DEF n
  <1>6. \A k \in DOMAIN nodes' : k \in DOMAIN nodes \/ k = N
    BY <1>2
  <1>7. \A k \in DOMAIN nodes' : IsNode(nodes'[k])
    BY <1>1, <1>2, <1>5, <1>6
  <1>8. ParseTypes'
    BY <1>1, <1>2, <1>7 DEF ParseTypes
  <1>9. \A k \in DOMAIN nodes : IsMaster(k)' <=> IsMaster(k)
    BY <1>2 DEF IsMaster
  <1>10. ASSUME NEW k \in DOMAIN nodes'
         PROVE  /\ nodes'[k].parent \in 0..(k - 1)
                /\ nodes'[k].parent # 0 => IsMaster(nodes[k].parent)'
                /\ IsMaster(k)' => nodes'[k].payload = << >>
    <2>1. CASE k \in DOMAIN nodes
      <3>1. nodes'[k] = nodes[k] /\ nodes[k].parent \in 0..(k - 1)
            /\ (nodes[k].parent # 0 => IsMaster(nodes[k].parent))
            /\ (IsMaster(k) => nodes[k].payload = << >>)
        BY <1>2, <2>1 DEF ParentsInv
      <3>2. nodes[k].parent # 0 => nodes[k].parent \in DOMAIN nodes
        BY <1>2, <2>1, <3>1
      <3> QED BY <1>9, <2>1, <3>1, <3>2
    <2>2. CASE k = N
      <3>1. nodes'[k].parent = parent /\ nodes'[k].payload = payload /\ nodes'[k].id = h0.id
        BY <1>2, <1>5, <2>2
      <3>2. parent \in 0..(k - 1)
        BY <1>2, <1>3, <2>2
      <3>3. parent # 0 => IsMaster(parent)'
        BY <1>3, <1>9
      <3> QED BY <3>1, <3>2, <3>3 DEF IsMaster
    <2> QED BY <1>6, <2>1, <2>2
  <1>11. ParentsInv'
    BY <1>10 DEF ParentsInv
  <1> QED BY <1>2, <1>3, <1>5, <1>8, <1>11 DEF n

-----------------------------------------------------------------------------
(* What was read, and how it nests.                                        *)

\* Every byte up to the position is in an element that was kept.
ReadInv ==
  edits = 0 => /\ PrefixIsKept /\ ReadTo \in Nat
               /\ \A k \in DOMAIN nodes : nodes[k].headerLen >= 1

Declared(a) == IsMaster(a) /\ nodes[a].size # UnknownSize

\* The declared masters that reach over an element are around it, and all that are
\* around it were there before.
NestedAt(k) ==
  /\ \A a \in Ancestors[k] : a \in 1..(k - 1)
  /\ \A a \in 1..(k - 1) : Declared(a) /\ nodes[k].offset < EndOf(a) => a \in Ancestors[k]
  /\ nodes[k].id \in TopLevelID /\ nodes[k].parent # 0 =>
       nodes[nodes[k].parent].size # UnknownSize

\* Around a master on the stack are those below it; a declared one that is no longer
\* there was read to its end.
StackNests ==
  /\ \A i \in 1..Len(stack) : Ancestors[stack[i]] = {stack[j] : j \in 1..(i - 1)}
  /\ \A m \in DOMAIN nodes :
       Declared(m) /\ (\A i \in 1..Len(stack) : stack[i] # m) => EndOf(m) <= p.pos

NestInv ==
  edits = 0 => /\ \A k \in DOMAIN nodes : NestedAt(k)
               /\ phase = "parsing" => StackNests

TreeStrong == ParseTypes /\ ParentsInv /\ StacksInv /\ ReadInv /\ NestInv

LEMMA NodesTyped ==
  ASSUME ParseTypes, NEW k \in DOMAIN nodes
  PROVE  /\ nodes[k].offset \in Nat /\ nodes[k].headerLen \in Nat
         /\ nodes[k].size \in Nat \cup {UnknownSize} /\ nodes[k].parent \in Nat
         /\ nodes[k].size # UnknownSize => EndOf(k) \in Nat
  <1>1. /\ nodes[k].offset \in Nat /\ nodes[k].headerLen \in Nat
        /\ nodes[k].size \in Nat \cup {UnknownSize} /\ nodes[k].parent \in Nat
    BY DEF ParseTypes, IsNode
  <1> QED BY <1>1 DEF EndOf

\* The tree nests as its document declares it.
LEMMA NestsSo == ASSUME TreeStrong PROVE NestsAsDeclared
  <1> SUFFICES ASSUME edits = 0, ~RunsPast, NEW k \in DOMAIN nodes
               PROVE  /\ \A a \in {m \in DOMAIN nodes : IsMaster(m) /\ nodes[m].size # UnknownSize} :
                           a \in Ancestors[k] <=> (a < k /\ nodes[k].offset < EndOf(a))
                      /\ nodes[k].id \in TopLevelID /\ nodes[k].parent # 0 =>
                           nodes[nodes[k].parent].size # UnknownSize
    BY DEF NestsAsDeclared
  <1>1. NestedAt(k) /\ ParseTypes /\ nodes[k].headerLen >= 1
    BY DEF TreeStrong, NestInv, ReadInv
  <1>2. DOMAIN nodes = 1..Len(nodes) /\ Len(nodes) \in Nat /\ k \in Nat
    BY <1>1 DEF ParseTypes, IsSequence
  <1>3. ASSUME NEW a \in DOMAIN nodes, IsMaster(a), nodes[a].size # UnknownSize
        PROVE  a \in Ancestors[k] <=> (a < k /\ nodes[k].offset < EndOf(a))
    <2>1. /\ nodes[k].offset \in Nat /\ nodes[k].headerLen \in Nat /\ EndOf(a) \in Nat
      BY <1>1, <1>3, NodesTyped
    <2>2. ASSUME a \in Ancestors[k] PROVE a < k /\ nodes[k].offset < EndOf(a)
      <3>1. a < k
        BY <1>1, <1>2, <2>2 DEF NestedAt
      <3>2. ~(nodes[k].offset + nodes[k].headerLen > EndOf(a))
        BY <1>3, <2>2 DEF RunsPast
      <3> QED BY <1>1, <2>1, <3>1, <3>2
    <2>3. ASSUME a < k, nodes[k].offset < EndOf(a) PROVE a \in Ancestors[k]
      <3>1. a \in 1..(k - 1)
        BY <1>2, <2>3
      <3> QED BY <1>1, <1>3, <2>3, <3>1 DEF NestedAt, Declared
    <2> QED BY <2>2, <2>3
  <1> QED BY <1>1, <1>3 DEF NestedAt

\* Both stacks lose their top.
LEMMA MasterLeft ==
  ASSUME TreeStrong, phase = "parsing", stack # << >>,
         nodes[Last(stack)].size # UnknownSize => EndOf(Last(stack)) <= p.pos,
         p' = PopMaster(p), stack' = Front(stack), UNCHANGED <<doc, cap, nodes, phase, edits>>
  PROVE  TreeStrong'
  <1>1. /\ edits = 0 /\ IsBetween(p) /\ IsSequence(stack) /\ Len(stack) = Len(p.stack)
        /\ ParseTypes /\ ParentsInv
    BY DEF TreeStrong, StacksInv
  <1> DEFINE n == Len(stack)
  <1>2. /\ n \in Nat \ {0} /\ DOMAIN stack = 1..n
        /\ IsSequence(stack') /\ Len(stack') = n - 1 /\ DOMAIN stack' = 1..(n - 1)
        /\ \A i \in 1..(n - 1) : stack'[i] = stack[i]
    BY <1>1, FrontOfSequence DEF Front
  <1>3. p.stack # << >> /\ IsSequence(p.stack)
    BY <1>1, <1>2 DEF IsBetween
  <1>4. /\ IsSequence(p'.stack) /\ Len(p'.stack) = n - 1
        /\ \A i \in 1..(n - 1) : p'.stack[i] = p.stack[i]
        /\ p'.pos = p.pos /\ p'.fed = p.fed /\ p'.current = p.current
    <2>1. p'.stack = SubSeq(p.stack, 1, Len(p.stack) - 1)
          /\ p'.pos = p.pos /\ p'.fed = p.fed /\ p'.current = p.current
      BY DEF PopMaster, At, Pop
    <2> QED BY <1>1, <1>3, <2>1, FrontOfSequence
  <1>5. \A k : (EndOf(k))' = EndOf(k) /\ (IsMaster(k))' = IsMaster(k)
    BY DEF EndOf, IsMaster
  <1>6. ParseTypes' /\ ParentsInv'
    BY <1>1 DEF ParseTypes, ParentsInv, IsMaster
  <1>7. IsBetween(p')
    BY <1>1, <1>4 DEF IsBetween
  <1>8. StacksInv'
    <2>1. ASSUME NEW i \in 1..(n - 1)
          PROVE  /\ stack'[i] \in DOMAIN nodes' /\ IsMaster(stack[i])'
                 /\ nodes'[stack'[i]].parent = IF i = 1 THEN 0 ELSE stack'[i - 1]
                 /\ FrameOf(p.stack[i], stack[i])'
      <3>1. i \in 1..Len(stack)
        BY <1>2
      <3>2. /\ stack[i] \in DOMAIN nodes /\ IsMaster(stack[i])
            /\ nodes[stack[i]].parent = IF i = 1 THEN 0 ELSE stack[i - 1]
            /\ FrameOf(p.stack[i], stack[i])
        BY <3>1 DEF TreeStrong, StacksInv
      <3>3. stack'[i] = stack[i] /\ p'.stack[i] = p.stack[i]
            /\ (i # 1 => stack'[i - 1] = stack[i - 1])
        <4>1. i # 1 => i - 1 \in 1..(n - 1)
          BY <1>2
        <4> HIDE DEF n
        <4> QED BY <1>2, <1>4, <4>1
      <3>4. nodes' = nodes
        OBVIOUS
      <3> QED BY <3>2, <3>3, <3>4 DEF FrameOf, EndOf, IsMaster
    <2> QED BY <1>1, <1>2, <1>4, <1>7, <2>1 DEF StacksInv
  <1>9. ReadInv'
    <2>1. ReadTo' = ReadTo
      BY <1>4 DEF ReadTo, HasCurrent
    <2>2. PrefixIsKept' <=> PrefixIsKept
      BY <2>1 DEF PrefixIsKept, EndOf, IsMaster, TooLarge
    <2> QED BY <2>1, <2>2 DEF TreeStrong, ReadInv
  <1>10. NestInv'
    <2>1. (\A k \in DOMAIN nodes : NestedAt(k)) /\ StackNests
      BY <1>1 DEF TreeStrong, NestInv
    <2>2. Ancestors' = Ancestors
      BY DEF Ancestors
    <2>3. (\A k \in DOMAIN nodes : NestedAt(k))'
      BY <2>1, <2>2 DEF NestedAt, Declared, EndOf, IsMaster
    <2>4. ASSUME NEW i \in 1..(n - 1) PROVE Ancestors[stack'[i]] = {stack'[j] : j \in 1..(i - 1)}
      <3>1. i \in 1..n /\ \A j \in 1..(i - 1) : stack'[j] = stack[j]
        BY <1>2
      <3>2. {stack'[j] : j \in 1..(i - 1)} = {stack[j] : j \in 1..(i - 1)}
        BY <3>1
      <3> QED BY <1>2, <2>1, <3>1, <3>2 DEF StackNests
    <2>5. ASSUME NEW m \in DOMAIN nodes, Declared(m), \A i \in 1..(n - 1) : stack'[i] # m
          PROVE  EndOf(m) <= p'.pos
      <3>1. CASE stack[n] = m
        BY <1>2, <1>4, <2>5, <3>1 DEF Last, Declared
      <3>2. CASE stack[n] # m
        <4>1. \A i \in 1..n : stack[i] # m
          BY <1>2, <2>5, <3>2
        <4> QED BY <1>4, <2>1, <2>5, <4>1 DEF StackNests
      <3> QED BY <3>1, <3>2
    <2>6. StackNests'
      BY <1>2, <1>5, <2>2, <2>4, <2>5 DEF StackNests, Declared, IsMaster
    <2> QED BY <2>3, <2>6 DEF NestInv
  <1> QED BY <1>6, <1>8, <1>9, <1>10 DEF TreeStrong

\* What was around the elements still is.
LEMMA AncestorsStay ==
  ASSUME NEW ns, NEW more, Parented(ns), Parented(more), Len(more) = Len(ns) + 1,
         \A k \in DOMAIN ns : more[k] = ns[k]
  PROVE  /\ \A k \in DOMAIN ns : AncestorsIn(more)[k] = AncestorsIn(ns)[k]
         /\ AncestorsIn(more)[Len(ns) + 1] =
              IF more[Len(ns) + 1].parent = 0 THEN {}
              ELSE {more[Len(ns) + 1].parent} \cup AncestorsIn(ns)[more[Len(ns) + 1].parent]
  <1> DEFINE n == Len(ns)
             A == AncestorsIn(ns)
             B == AncestorsIn(more)
             T == {k \in 0..n : k # 0 => B[k] = A[k]}
  <1>1. /\ n \in Nat /\ DOMAIN ns = 1..n /\ DOMAIN more = 1..(n + 1)
        /\ \A k \in 1..n : ns[k].parent \in 0..(k - 1)
        /\ more[n + 1].parent \in 0..n
    BY DEF Parented, IsSequence
  <1>2. AroundIs(A, ns) /\ AroundIs(B, more)
    BY AncestorsAre
  <1> HIDE DEF n, A, B
  <1>3. ASSUME NEW m \in 0..n, 0..(m - 1) \subseteq T PROVE m \in T
    <2>1. CASE m = 0
      BY <1>1, <2>1
    <2>2. CASE m # 0
      <3>1. m \in 1..n /\ m \in DOMAIN ns /\ m \in DOMAIN more
        BY <1>1, <2>2
      <3>2. ns[m].parent \in 0..(m - 1) /\ more[m] = ns[m]
        BY <1>1, <3>1
      <3>3. ns[m].parent # 0 => B[ns[m].parent] = A[ns[m].parent]
        BY <1>3, <3>2
      <3>4. B[m] = A[m]
        BY <1>2, <3>1, <3>2, <3>3, ZenonT(60) DEF AroundIs
      <3> QED BY <3>4
    <2> QED BY <2>1, <2>2
  <1> HIDE DEF T
  <1>4. 0..n \subseteq T
    BY <1>1, <1>3, StrongInduction
  <1>5. \A k \in 1..n : B[k] = A[k]
    <2> SUFFICES ASSUME NEW k \in 1..n PROVE B[k] = A[k]
      OBVIOUS
    <2>1. k \in 0..n /\ k # 0
      BY <1>1
    <2> QED BY <1>4, <2>1 DEF T
  <1>6. more[n + 1].parent # 0 => more[n + 1].parent \in 1..n
    BY <1>1
  <1>7. B[n + 1] = IF more[n + 1].parent = 0 THEN {} ELSE {more[n + 1].parent} \cup B[more[n + 1].parent]
    <2>1. n + 1 \in DOMAIN more
      BY <1>1
    <2> QED BY <1>2, <2>1 DEF AroundIs
  <1> QED BY <1>1, <1>5, <1>6, <1>7 DEF n, A, B

LEMMA NodesParented == ASSUME ParseTypes, ParentsInv PROVE Parented(nodes)
  BY DEF ParseTypes, ParentsInv, Parented

\* What attaching an element does to what was read and how it nests: the parser may have
\* stepped over its payload, and its masters are those on the stack.
LEMMA AttachedNests ==
  ASSUME TreeStrong, phase = "parsing", Peeked = "ok", ~AtEnd, ~EndsUnknown,
         NEW payload, NEW cut, KindOf[h0.id] = "master" => payload = << >>,
         KindOf[h0.id] # "master" =>
           h0.size # UnknownSize /\ payload = IF TooLarge(h0) THEN << >> ELSE PayloadAt(h0),
         nodes' = Append(nodes, Node(h0, payload, cut)), UNCHANGED <<doc, cap, edits>>,
         p'.pos = ReachOf(h0, p.pos), p'.current = NoElement
  PROVE  /\ ReadInv'
         /\ \A k \in DOMAIN nodes' : NestedAt(k)'
         /\ \A k \in DOMAIN nodes : Ancestors'[k] = Ancestors[k]
         /\ Ancestors'[Len(nodes) + 1] = {stack[j] : j \in 1..Len(stack)}
  <1> DEFINE N == Len(nodes) + 1
             par == IF stack = << >> THEN 0 ELSE Last(stack)
             at == Documents[doc].at
             o == p.pos
             q == p'.pos
  <1>1. /\ edits = 0 /\ IsBetween(p) /\ ParseTypes /\ ParentsInv /\ StacksInv
        /\ ReadInv /\ StackNests /\ \A k \in DOMAIN nodes : NestedAt(k)
    BY DEF TreeStrong, StacksInv, NestInv
  <1>2. /\ ParseTypes' /\ ParentsInv'
        /\ Len(nodes) \in Nat /\ DOMAIN nodes = 1..Len(nodes)
        /\ DOMAIN nodes' = 1..N /\ Len(nodes') = N
        /\ \A k \in DOMAIN nodes : nodes'[k] = nodes[k]
        /\ nodes'[N].id = h0.id /\ nodes'[N].offset = o
        /\ nodes'[N].headerLen = HeaderLen(h0) /\ nodes'[N].size = h0.size
        /\ nodes'[N].payload = payload /\ nodes'[N].parent = par
    BY <1>1, Attached
  <1>3. /\ o \in DOMAIN at /\ h0 = at[o] /\ h0.id \in ElementID
        /\ HeaderLen(h0) \in Nat /\ HeaderLen(h0) >= 1 /\ o \in Nat
        /\ h0.size \in Nat \cup {UnknownSize}
    BY <1>1, PeekedIsHeader, ElementIsThere DEF ParseTypes, IsBetween
  <1>4. q \in Nat /\ q > o /\ \A x \in DOMAIN at : x \in Nat => (x > o => x >= q)
    <2>1. q \in Nat /\ q > o
      BY <1>3 DEF ReachOf, UnknownSize
    <2>2. \A x \in DOMAIN at : x > o => x >= ReachOf(at[o], o)
      BY <1>1, <1>3, TreeAssumption DEF ParseTypes
    <2> QED BY <1>3, <2>1, <2>2
  <1>5. DOMAIN at \subseteq Nat
    <2>1. doc \in DOMAIN Documents /\ Documents[doc] = Decoded(Text[doc])
      BY <1>1, TreeAssumption DEF ParseTypes
    <2>2. at = Decoded(Text[doc]).at
      BY <2>1
    <2>3. ASSUME NEW x \in DOMAIN Decoded(Text[doc]).at PROVE x \in 0..(Len(Text[doc]) - 1)
      BY <2>3 DEF Decoded
    <2>4. ASSUME NEW x, x \in 0..(Len(Text[doc]) - 1) PROVE x \in Nat
      BY <2>4
    <2> QED BY <2>2, <2>3, <2>4
  <1>6. ReadTo = o /\ ReadTo' = q
    BY <1>1 DEF ReadTo, HasCurrent, IsBetween, NoElement
  <1>7. /\ {nodes[k].offset : k \in DOMAIN nodes} = {x \in DOMAIN at : x < o}
        /\ \A k \in DOMAIN nodes : k > 1 => nodes[k - 1].offset < nodes[k].offset
        /\ \A k \in DOMAIN nodes : nodes[k].headerLen >= 1
    BY <1>1, <1>6 DEF ReadInv, PrefixIsKept
  <1>8. \A k \in DOMAIN nodes' : k \in DOMAIN nodes \/ k = N
    BY <1>2
  <1>9. {nodes'[k].offset : k \in DOMAIN nodes'} = {x \in DOMAIN at : x < q}
    <2>1. ASSUME NEW k \in DOMAIN nodes' PROVE nodes'[k].offset \in {x \in DOMAIN at : x < q}
      <3>1. CASE k \in DOMAIN nodes
        <4>1. nodes[k].offset \in DOMAIN at /\ nodes[k].offset < o /\ nodes[k].offset \in Nat
          BY <1>5, <1>7, <3>1
        <4>2. nodes[k].offset < q
          BY <1>3, <1>4, <4>1
        <4> QED BY <1>2, <3>1, <4>1, <4>2
      <3>2. CASE k = N
        BY <1>2, <1>3, <1>4, <3>2
      <3> QED BY <1>8, <3>1, <3>2
    <2>2. ASSUME NEW x \in DOMAIN at, x < q PROVE \E k \in DOMAIN nodes' : nodes'[k].offset = x
      <3>1. CASE x < o
        <4>1. PICK k \in DOMAIN nodes : nodes[k].offset = x
          BY <1>7, <3>1
        <4>2. k \in DOMAIN nodes'
          BY <1>2
        <4> QED BY <1>2, <4>1, <4>2
      <3>2. CASE ~(x < o)
        <4>1. x = o
          BY <1>3, <1>4, <1>5, <2>2, <3>2
        <4>2. N \in DOMAIN nodes'
          BY <1>2
        <4> QED BY <1>2, <4>1, <4>2
      <3> QED BY <3>1, <3>2
    <2> QED BY <2>1, <2>2
  <1>10. ASSUME NEW k \in DOMAIN nodes', k > 1 PROVE nodes'[k - 1].offset < nodes'[k].offset
    <2>1. k - 1 \in DOMAIN nodes
      BY <1>2, <1>10
    <2>2. nodes'[k - 1] = nodes[k - 1]
      BY <1>2, <2>1
    <2>3. CASE k \in DOMAIN nodes
      BY <1>2, <1>7, <1>10, <2>2, <2>3
    <2>4. CASE k = N
      BY <1>2, <1>7, <2>1, <2>2, <2>4
    <2> QED BY <1>8, <2>3, <2>4
  <1>11. ASSUME NEW k \in DOMAIN nodes', ~IsMaster(k)'
         PROVE  nodes'[k].payload =
                  IF TooLarge(nodes[k])' THEN << >>
                  ELSE SubSeq(Text[doc'], EndOf(k)' - nodes'[k].size + 1, EndOf(k)')
    <2>1. CASE k \in DOMAIN nodes
      <3>1. nodes'[k] = nodes[k] /\ ~IsMaster(k)
        BY <1>2, <1>11, <2>1 DEF IsMaster
      <3>2. nodes[k].payload = IF TooLarge(nodes[k]) THEN << >>
                               ELSE SubSeq(Text[doc], EndOf(k) - nodes[k].size + 1, EndOf(k))
        BY <1>1, <2>1, <3>1 DEF ReadInv, PrefixIsKept
      <3> QED BY <3>1, <3>2 DEF EndOf, TooLarge
    <2>2. CASE k = N
      <3>1. KindOf[h0.id] # "master"
        BY <1>2, <1>11, <2>2 DEF IsMaster
      <3>2. h0.size \in Nat /\ payload = IF TooLarge(h0) THEN << >> ELSE PayloadAt(h0)
        BY <1>3, <3>1
      <3>3. TooLarge(nodes[k])' <=> TooLarge(h0)
        BY <1>2, <2>2 DEF TooLarge
      <3>4. EndOf(k)' = o + HeaderLen(h0) + h0.size
        BY <1>2, <2>2 DEF EndOf
      <3>5. EndOf(k)' - nodes'[k].size + 1 = o + HeaderLen(h0) + 1
        BY <1>2, <1>3, <2>2, <3>2, <3>4, SMTT(30)
      <3>6. PayloadAt(h0) = SubSeq(Text[doc'], EndOf(k)' - nodes'[k].size + 1, EndOf(k)')
        BY <3>4, <3>5 DEF PayloadAt
      <3> QED BY <1>2, <2>2, <3>2, <3>3, <3>6
    <2> QED BY <1>8, <2>1, <2>2
  <1>12. ReadInv'
    <2>1. PrefixIsKept'
      BY <1>6, <1>9, <1>10, <1>11 DEF PrefixIsKept
    <2>2. \A k \in DOMAIN nodes' : nodes'[k].headerLen >= 1
      BY <1>2, <1>3, <1>7, <1>8
    <2> QED BY <1>4, <1>6, <2>1, <2>2 DEF ReadInv
  <1>13. /\ \A k \in DOMAIN nodes : Ancestors'[k] = Ancestors[k]
         /\ Ancestors'[N] = IF par = 0 THEN {} ELSE {par} \cup Ancestors[par]
    <2>1. Parented(nodes) /\ Parented(nodes')
      BY <1>1, <1>2, NodesParented DEF ParseTypes, ParentsInv, Parented
    <2>2. /\ \A k \in DOMAIN nodes : AncestorsIn(nodes')[k] = AncestorsIn(nodes)[k]
          /\ AncestorsIn(nodes')[Len(nodes) + 1] =
               IF nodes'[Len(nodes) + 1].parent = 0 THEN {}
               ELSE {nodes'[Len(nodes) + 1].parent}
                      \cup AncestorsIn(nodes)[nodes'[Len(nodes) + 1].parent]
      <3>1. Len(nodes') = Len(nodes) + 1 /\ \A k \in DOMAIN nodes : nodes'[k] = nodes[k]
        BY <1>2
      <3> QED BY ONLY <2>1, <3>1, AncestorsStay
    <2> QED BY <1>2, <2>2 DEF Ancestors
  <1>14. Ancestors'[N] = {stack[j] : j \in 1..Len(stack)}
    <2>1. Len(stack) \in Nat
      BY <1>1, TopOfStack
    <2>2. CASE stack = << >>
      BY <1>13, <2>2
    <2>3. CASE stack # << >>
      <3>1. Len(stack) \in 1..Len(stack) /\ Last(stack) = stack[Len(stack)]
            /\ Last(stack) \in DOMAIN nodes
        BY <1>1, <2>3, TopOfStack
      <3>2. par = Last(stack) /\ par # 0
        BY <1>2, <2>3, <3>1
      <3>3. Ancestors[par] = {stack[j] : j \in 1..(Len(stack) - 1)}
        BY <1>1, <3>1, <3>2 DEF StackNests
      <3>4. \A j : j \in 1..Len(stack) <=> (j \in 1..(Len(stack) - 1) \/ j = Len(stack))
        BY <2>1, <3>1
      <3> HIDE DEF par
      <3>5. {par} \cup {stack[j] : j \in 1..(Len(stack) - 1)} = {stack[j] : j \in 1..Len(stack)}
        BY <3>1, <3>2, <3>4
      <3> QED BY <1>13, <3>2, <3>3, <3>5
    <2> QED BY <2>2, <2>3
  <1>15. \A a \in DOMAIN nodes : (Declared(a)' <=> Declared(a)) /\ EndOf(a)' = EndOf(a)
    BY <1>2 DEF Declared, IsMaster, EndOf
  <1>16. ASSUME NEW k \in DOMAIN nodes' PROVE NestedAt(k)'
    <2>1. CASE k \in DOMAIN nodes
      <3>1. NestedAt(k) /\ nodes'[k] = nodes[k] /\ Ancestors'[k] = Ancestors[k]
        BY <1>1, <1>2, <1>13, <2>1
      <3>2. \A a \in 1..(k - 1) : a \in DOMAIN nodes
        BY <1>2, <2>1
      <3>3. nodes[k].parent # 0 => nodes'[nodes[k].parent] = nodes[nodes[k].parent]
        <4>1. nodes[k].parent \in 0..(k - 1)
          BY <1>1, <2>1 DEF ParentsInv
        <4>2. nodes[k].parent # 0 => nodes[k].parent \in 1..(k - 1)
          BY <1>2, <2>1, <4>1
        <4> QED BY <1>2, <3>2, <4>2
      <3> QED BY <1>15, <3>1, <3>2, <3>3 DEF NestedAt
    <2>2. CASE k = N
      <3>1. \A i \in 1..Len(stack) : stack[i] \in DOMAIN nodes
        BY <1>1 DEF StacksInv
      <3>2. \A a \in Ancestors'[k] : a \in 1..(k - 1)
        BY <1>2, <1>14, <2>2, <3>1
      <3>3. ASSUME NEW a \in 1..(k - 1), Declared(a)', nodes'[k].offset < EndOf(a)'
            PROVE  a \in Ancestors'[k]
        <4>1. a \in DOMAIN nodes /\ Declared(a) /\ EndOf(a)' = EndOf(a)
          BY <1>2, <1>15, <2>2, <3>3
        <4>2. EndOf(a) \in Nat
          BY <1>1, <4>1, NodesTyped DEF Declared
        <4>3. ~(EndOf(a) <= o)
          BY <1>2, <1>3, <2>2, <3>3, <4>1, <4>2
        <4>4. \E i \in 1..Len(stack) : stack[i] = a
          BY <1>1, <4>1, <4>3 DEF StackNests
        <4> QED BY <1>14, <2>2, <4>4
      <3>4. nodes'[k].id \in TopLevelID /\ nodes'[k].parent # 0 =>
              nodes'[nodes'[k].parent].size # UnknownSize
        <4> SUFFICES ASSUME h0.id \in TopLevelID, par # 0 PROVE nodes'[par].size # UnknownSize
          BY <1>2, <2>2
        <4>1. stack # << >> /\ par = Last(stack) /\ Last(stack) \in DOMAIN nodes
          BY <1>1, TopOfStack
        <4>2. nodes[Last(stack)].size # UnknownSize
          BY <4>1 DEF EndsUnknown
        <4> QED BY <1>2, <4>1, <4>2
      <3> QED BY <3>2, <3>3, <3>4 DEF NestedAt
    <2> QED BY <1>8, <2>1, <2>2
  <1> QED BY <1>12, <1>13, <1>14, <1>16

LEMMA EnterKeeps == ASSUME TreeStrong, Enter PROVE TreeStrong'
  <1>1. /\ phase = "parsing" /\ phase' = phase /\ UNCHANGED <<doc, cap, edits>>
        /\ Peeked = "ok" /\ ~AtEnd /\ ~EndsUnknown /\ KindOf[h0.id] = "master"
        /\ p' = EnterMaster(ConsumeHeader(doc, p))
        /\ nodes' = Append(nodes, Node(h0, << >>, FALSE))
        /\ stack' = Append(stack, Len(nodes) + 1)
    BY DEF Enter, Parsing, AtElement
  <1>2. /\ edits = 0 /\ IsBetween(p) /\ ParseTypes /\ ParentsInv /\ StacksInv /\ StackNests
        /\ IsSequence(stack) /\ Len(stack) = Len(p.stack)
    BY <1>1 DEF TreeStrong, StacksInv, NestInv
  <1> DEFINE N == Len(nodes) + 1
             n == Len(stack)
             end == IF h0.size = UnknownSize THEN UnknownSize ELSE p.pos + HeaderLen(h0) + h0.size
             frame == [id |-> h0.id, start |-> p.pos, end |-> end]
  <1>3. p'.fed = p.fed /\ p'.pos = p.pos + HeaderLen(h0) /\ p'.current = NoElement
        /\ p'.stack = Append(p.stack, frame)
    BY <1>1 DEF EnterMaster, ConsumeHeader, At, h0
  <1>4. /\ h0.id \in ElementID /\ HeaderLen(h0) \in Nat /\ HeaderLen(h0) >= 1 /\ p.pos \in Nat
        /\ h0.size \in Nat \cup {UnknownSize}
    BY <1>1, <1>2, PeekedIsHeader, ElementIsThere DEF ParseTypes, IsBetween
  <1>5. p'.pos = ReachOf(h0, p.pos)
    BY <1>1, <1>3, <1>4 DEF ReachOf
  <1>6. /\ ParseTypes' /\ ParentsInv'
        /\ Len(nodes) \in Nat /\ DOMAIN nodes = 1..Len(nodes) /\ DOMAIN nodes' = 1..N
        /\ \A k \in DOMAIN nodes : nodes'[k] = nodes[k]
        /\ nodes'[N].id = h0.id /\ nodes'[N].offset = p.pos
        /\ nodes'[N].headerLen = HeaderLen(h0) /\ nodes'[N].size = h0.size
        /\ nodes'[N].parent = IF stack = << >> THEN 0 ELSE Last(stack)
    BY <1>1, <1>2, Attached
  <1>7. /\ ReadInv' /\ \A k \in DOMAIN nodes' : NestedAt(k)'
        /\ \A k \in DOMAIN nodes : Ancestors'[k] = Ancestors[k]
        /\ Ancestors'[N] = {stack[j] : j \in 1..n}
    BY <1>1, <1>3, <1>5, AttachedNests
  <1>8. /\ n \in Nat /\ DOMAIN stack = 1..n /\ IsSequence(stack') /\ Len(stack') = n + 1
        /\ \A i \in 1..n : stack'[i] = stack[i]
        /\ stack'[n + 1] = N
    BY <1>1, <1>2, AppendToSequence
  <1>9. /\ IsSequence(p'.stack) /\ Len(p'.stack) = n + 1
        /\ \A i \in 1..n : p'.stack[i] = p.stack[i]
        /\ p'.stack[n + 1] = frame
    <2> HIDE DEF frame
    <2>1. IsSequence(p.stack)
      BY <1>2 DEF IsBetween
    <2> QED BY <1>2, <1>3, <2>1, AppendToSequence
  <1>10. IsBetween(p')
    BY <1>2, <1>3, <1>4, <1>9 DEF IsBetween
  <1>11. \A a \in DOMAIN nodes :
           /\ EndOf(a)' = EndOf(a) /\ (IsMaster(a)' <=> IsMaster(a)) /\ (Declared(a)' <=> Declared(a))
    BY <1>6 DEF EndOf, IsMaster, Declared
  <1>12. \A i \in 1..(n + 1) : i \in 1..n \/ i = n + 1
    BY <1>8
  <1>13. \A i \in 1..n :
           /\ stack[i] \in DOMAIN nodes /\ IsMaster(stack[i])
           /\ nodes[stack[i]].parent = IF i = 1 THEN 0 ELSE stack[i - 1]
           /\ FrameOf(p.stack[i], stack[i])
    BY <1>1, <1>2 DEF StacksInv
  <1>14. ASSUME NEW i \in 1..(n + 1)
         PROVE  /\ stack'[i] \in DOMAIN nodes' /\ IsMaster(stack[i])'
                /\ nodes'[stack'[i]].parent = IF i = 1 THEN 0 ELSE stack'[i - 1]
                /\ FrameOf(p.stack[i], stack[i])'
    <2>1. i # 1 => stack'[i - 1] = stack[i - 1]
      <3>1. i # 1 => i - 1 \in 1..n
        BY <1>8
      <3> HIDE DEF n
      <3> QED BY <1>8, <3>1
    <2>2. CASE i \in 1..n
      <3>1. stack'[i] = stack[i] /\ p'.stack[i] = p.stack[i] /\ stack[i] \in DOMAIN nodes
        BY <1>8, <1>9, <1>13, <2>2
      <3>2. nodes'[stack[i]] = nodes[stack[i]] /\ stack[i] \in DOMAIN nodes'
        BY <1>6, <3>1
      <3>3. FrameOf(p.stack[i], stack[i]) /\ IsMaster(stack[i])
            /\ nodes[stack[i]].parent = IF i = 1 THEN 0 ELSE stack[i - 1]
        BY <1>13, <2>2
      <3>4. IsMaster(stack[i])'
        BY <3>1, <3>2, <3>3 DEF IsMaster
      <3>5. FrameOf(p.stack[i], stack[i])'
        BY <3>1, <3>2, <3>3 DEF FrameOf, EndOf
      <3> HIDE DEF n
      <3> QED BY <2>1, <3>1, <3>2, <3>3, <3>4, <3>5
    <2>3. CASE i = n + 1
      <3>1. stack'[i] = N /\ N \in DOMAIN nodes' /\ p'.stack[i] = frame
        BY <1>6, <1>8, <1>9, <2>3
      <3>2. IsMaster(stack[i])'
        BY <1>1, <1>6, <3>1 DEF IsMaster
      <3>3. FrameOf(p.stack[i], stack[i])'
        BY <1>6, <3>1 DEF FrameOf, EndOf
      <3>4. nodes'[N].parent = IF i = 1 THEN 0 ELSE stack'[i - 1]
        <4>1. CASE stack = << >>
          <5>1. i = 1
            BY <2>3, <4>1
          <5> QED BY <1>6, <4>1, <5>1
        <4>2. CASE stack # << >>
          <5>1. Last(stack) = stack[n] /\ n \in 1..n
            BY <1>1, <1>2, <4>2, TopOfStack
          <5>2. i # 1 /\ i - 1 = n
            BY <1>8, <2>3, <5>1
          <5> QED BY <1>6, <2>1, <4>2, <5>1, <5>2
        <4> QED BY <4>1, <4>2
      <3> QED BY <3>1, <3>2, <3>3, <3>4
    <2> QED BY <1>12, <2>2, <2>3
  <1>15. StacksInv'
    BY <1>1, <1>2, <1>8, <1>9, <1>10, <1>14 DEF StacksInv
  <1>16. StackNests'
    <2>1. ASSUME NEW i \in 1..(n + 1)
          PROVE  Ancestors'[stack'[i]] = {stack'[j] : j \in 1..(i - 1)}
      <3>1. \A j \in 1..(i - 1) : j \in 1..n
        BY <1>8
      <3>2. {stack'[j] : j \in 1..(i - 1)} = {stack[j] : j \in 1..(i - 1)}
        BY <1>8, <3>1
      <3>3. CASE i \in 1..n
        BY <1>2, <1>7, <1>8, <1>13, <3>2, <3>3 DEF StackNests
      <3>4. CASE i = n + 1
        <4>1. i - 1 = n
          BY <1>8, <3>4
        <4> QED BY <1>7, <1>8, <3>2, <3>4, <4>1
      <3> QED BY <1>12, <3>3, <3>4
    <2>2. ASSUME NEW m \in DOMAIN nodes', Declared(m)', \A i \in 1..(n + 1) : stack'[i] # m
          PROVE  EndOf(m)' <= p'.pos
      <3>1. n + 1 \in 1..(n + 1)
        BY <1>8
      <3>2. m # N
        BY <1>8, <2>2, <3>1
      <3>3. m \in DOMAIN nodes
        BY <1>6, <3>2
      <3>4. Declared(m) /\ EndOf(m)' = EndOf(m)
        BY <1>11, <2>2, <3>3
      <3>5. \A i \in 1..n : stack[i] # m
        BY <1>8, <2>2
      <3>6. EndOf(m) <= p.pos
        BY <1>2, <3>3, <3>4, <3>5 DEF StackNests
      <3>7. EndOf(m) \in Nat
        BY <1>2, <3>3, <3>4, NodesTyped DEF Declared
      <3> QED BY <1>3, <1>4, <3>4, <3>6, <3>7
    <2> QED BY <1>8, <2>1, <2>2 DEF StackNests
  <1>17. NestInv'
    BY <1>7, <1>16 DEF NestInv
  <1> QED BY <1>6, <1>7, <1>15, <1>17 DEF TreeStrong

LEMMA LeafKeeps == ASSUME TreeStrong, Leaf PROVE TreeStrong'
  <1> DEFINE c == ConsumeHeader(doc, p)
             payload == IF TooLarge(h0) THEN << >> ELSE PayloadAt(h0)
             N == Len(nodes) + 1
  <1>1. /\ phase = "parsing" /\ phase' = phase /\ UNCHANGED <<doc, cap, edits, stack>>
        /\ Peeked = "ok" /\ ~AtEnd /\ ~EndsUnknown /\ KindOf[h0.id] = "leaf"
        /\ PayloadResult(c) = "ok" /\ p' = StepOver(c)
        /\ nodes' = Append(nodes, Node(h0, payload, TooLarge(h0)))
    BY DEF Leaf, Parsing, AtElement
  <1>2. /\ edits = 0 /\ IsBetween(p) /\ ParseTypes /\ ParentsInv /\ StacksInv /\ StackNests
    BY <1>1 DEF TreeStrong, StacksInv, NestInv
  <1>3. /\ h0.id \in ElementID /\ HeaderLen(h0) \in Nat /\ HeaderLen(h0) >= 1 /\ p.pos \in Nat
        /\ h0.size \in Nat
    <2>1. h0.size # UnknownSize
      BY <1>1, PeekedIsHeader, ElementIsThere, <1>2 DEF ParseTypes
    <2> QED BY <1>1, <1>2, <2>1, PeekedIsHeader, ElementIsThere DEF ParseTypes, IsBetween
  <1>4. p'.fed = p.fed /\ p'.pos = p.pos + HeaderLen(h0) + h0.size /\ p'.current = NoElement
        /\ p'.stack = p.stack
    BY <1>1 DEF StepOver, ConsumeHeader, At, h0
  <1>5. p'.pos = ReachOf(h0, p.pos)
    BY <1>1, <1>3, <1>4 DEF ReachOf, UnknownSize
  <1>6. /\ ParseTypes' /\ ParentsInv'
        /\ Len(nodes) \in Nat /\ DOMAIN nodes = 1..Len(nodes) /\ DOMAIN nodes' = 1..N
        /\ \A k \in DOMAIN nodes : nodes'[k] = nodes[k]
        /\ nodes'[N].id = h0.id
    BY <1>1, <1>2, Attached
  <1>7. h0.size # UnknownSize
    BY <1>3 DEF UnknownSize
  <1>8. /\ ReadInv' /\ \A k \in DOMAIN nodes' : NestedAt(k)'
        /\ \A k \in DOMAIN nodes : Ancestors'[k] = Ancestors[k]
    BY <1>1, <1>4, <1>5, <1>7, AttachedNests
  <1>9. \A a \in DOMAIN nodes :
           /\ EndOf(a)' = EndOf(a) /\ (IsMaster(a)' <=> IsMaster(a)) /\ (Declared(a)' <=> Declared(a))
    BY <1>6 DEF EndOf, IsMaster, Declared
  <1>10. StacksInv'
    <2>1. IsBetween(p')
      BY <1>2, <1>3, <1>4 DEF IsBetween
    <2>2. ASSUME NEW i \in 1..Len(stack)
          PROVE  /\ stack'[i] \in DOMAIN nodes' /\ IsMaster(stack[i])'
                 /\ nodes'[stack'[i]].parent = IF i = 1 THEN 0 ELSE stack'[i - 1]
                 /\ FrameOf(p.stack[i], stack[i])'
      <3>1. /\ stack[i] \in DOMAIN nodes /\ IsMaster(stack[i])
            /\ nodes[stack[i]].parent = IF i = 1 THEN 0 ELSE stack[i - 1]
            /\ FrameOf(p.stack[i], stack[i])
        BY <1>1, <1>2 DEF StacksInv
      <3>2. nodes'[stack[i]] = nodes[stack[i]] /\ stack[i] \in DOMAIN nodes' /\ stack' = stack
        BY <1>1, <1>6, <3>1
      <3> QED BY <1>4, <3>1, <3>2 DEF FrameOf, EndOf, IsMaster
    <2>3. IsSequence(stack) /\ Len(stack) = Len(p.stack)
      BY <1>1, <1>2 DEF StacksInv
    <2> QED BY <1>1, <1>2, <1>4, <2>1, <2>2, <2>3 DEF StacksInv
  <1>11. StackNests'
    <2>1. ASSUME NEW i \in 1..Len(stack)
          PROVE  Ancestors'[stack'[i]] = {stack'[j] : j \in 1..(i - 1)}
      <3>1. stack[i] \in DOMAIN nodes
        BY <1>1, <1>2 DEF StacksInv
      <3> QED BY <1>1, <1>2, <1>8, <3>1 DEF StackNests
    <2>2. ASSUME NEW m \in DOMAIN nodes', Declared(m)', \A i \in 1..Len(stack) : stack'[i] # m
          PROVE  EndOf(m)' <= p'.pos
      <3>1. m # N
        BY <1>1, <1>6, <2>2 DEF Declared, IsMaster
      <3>2. m \in DOMAIN nodes
        BY <1>6, <3>1
      <3>3. Declared(m) /\ EndOf(m)' = EndOf(m)
        BY <1>9, <2>2, <3>2
      <3>4. EndOf(m) <= p.pos
        BY <1>1, <1>2, <2>2, <3>2, <3>3 DEF StackNests
      <3>5. EndOf(m) \in Nat
        BY <1>2, <3>2, <3>3, NodesTyped DEF Declared
      <3> QED BY <1>3, <1>4, <3>3, <3>4, <3>5
    <2> QED BY <1>1, <2>1, <2>2 DEF StackNests
  <1>12. NestInv'
    BY <1>8, <1>11 DEF NestInv
  <1> QED BY <1>6, <1>8, <1>10, <1>12 DEF TreeStrong

LEMMA PopsKeep == ASSUME TreeStrong, MasterEnds \/ UnknownEnds PROVE TreeStrong'
  <1>1. /\ phase = "parsing" /\ stack # << >> /\ p' = PopMaster(p) /\ stack' = Front(stack)
        /\ UNCHANGED <<doc, cap, nodes, phase, edits>>
    BY DEF MasterEnds, UnknownEnds, Parsing, EndsUnknown
  <1>2. nodes[Last(stack)].size # UnknownSize => EndOf(Last(stack)) <= p.pos
    <2> SUFFICES ASSUME nodes[Last(stack)].size # UnknownSize PROVE EndOf(Last(stack)) <= p.pos
      OBVIOUS
    <2>1. MasterEnds
      BY DEF UnknownEnds, EndsUnknown
    <2>2. LeaveMasterResult(p) = "ok"
      BY <2>1 DEF MasterEnds
    <2>3. ~(p.pos < Top(p.stack).end)
      BY <2>2 DEF LeaveMasterResult
    <2>4. /\ ParseTypes /\ StacksInv /\ Len(p.stack) = Len(stack) /\ p.pos \in Nat
      BY <1>1 DEF TreeStrong, StacksInv, IsBetween
    <2>5. Len(stack) \in 1..Len(stack) /\ Last(stack) = stack[Len(stack)] /\ Last(stack) \in DOMAIN nodes
      BY <1>1, <2>4, TopOfStack
    <2>6. Top(p.stack).end = EndOf(Last(stack))
      BY <1>1, <2>4, <2>5 DEF StacksInv, FrameOf, Top
    <2>7. EndOf(Last(stack)) \in Nat
      BY <2>4, <2>5, NodesTyped
    <2> QED BY <2>3, <2>4, <2>6, <2>7
  <1> QED BY <1>1, <1>2, MasterLeft

\* Parse has returned; what it attached stays.
LEMMA ReturnKeeps ==
  ASSUME TreeStrong, phase' # "parsing", UNCHANGED <<doc, cap, nodes, edits>>, ReadTo' = ReadTo
  PROVE  TreeStrong'
  <1>1. ParseTypes' /\ ParentsInv'
    BY DEF TreeStrong, ParseTypes, ParentsInv, IsMaster
  <1>2. StacksInv'
    BY DEF StacksInv
  <1>3. ReadInv'
    <2>1. PrefixIsKept' <=> PrefixIsKept
      BY DEF PrefixIsKept, EndOf, IsMaster, TooLarge
    <2> QED BY <2>1 DEF TreeStrong, ReadInv
  <1>4. NestInv'
    <2>1. \A k : NestedAt(k)' <=> NestedAt(k)
      BY DEF NestedAt, Ancestors, Declared, EndOf, IsMaster
    <2> QED BY <2>1 DEF TreeStrong, NestInv
  <1> QED BY <1>1, <1>2, <1>3, <1>4 DEF TreeStrong

LEMMA FailuresKeep == ASSUME TreeStrong, PeekFails \/ EndIsNone PROVE TreeStrong'
  <1>1. UNCHANGED <<doc, cap, nodes, edits, p>> /\ phase' # "parsing"
    BY ResultsAreVerdicts DEF PeekFails, EndIsNone, Parsing, Fails, Peeked
  <1>2. ReadTo' = ReadTo
    BY <1>1 DEF ReadTo, HasCurrent
  <1> QED BY <1>1, <1>2, ReturnKeeps

LEMMA BufferEndKeeps == ASSUME TreeStrong, BufferEnds PROVE TreeStrong'
  <1>1. /\ phase = "parsing" /\ UNCHANGED <<doc, cap, nodes, edits>>
        /\ phase' = FinalizeEOFResult(doc, Starved)
        /\ p' = IF phase' = "ok" THEN FinalizeEOF(Starved) ELSE Starved
    BY DEF BufferEnds, Parsing
  <1>2. phase' # "parsing"
    BY <1>1, ResultsAreVerdicts
  <1>3. p'.pos = Starved.pos /\ p'.current = Starved.current
    BY <1>1 DEF FinalizeEOF, At
  <1>4. IsBetween(p) /\ doc \in DOMAIN Documents
    BY <1>1 DEF TreeStrong, StacksInv, ParseTypes
  <1>5. ReadTo = p.pos
    BY <1>4 DEF ReadTo, HasCurrent, IsBetween, NoElement
  <1>6. ReadTo' = p.pos
    <2>1. CASE Peeked = "ok"
      <3>1. Starved.current.kind = KindOf[h0.id] /\ Starved.current.offset = p.pos
        BY <2>1 DEF Starved, ConsumeHeader, At, h0
      <3>2. KindOf[h0.id] # "none"
        BY <1>4, <2>1, PeekedIsHeader, ElementIsThere DEF Kind
      <3> QED BY <1>3, <3>1, <3>2 DEF ReadTo, HasCurrent
    <2>2. CASE Peeked # "ok"
      BY <1>3, <1>4, <2>2 DEF Starved, ReadTo, HasCurrent, IsBetween, NoElement
    <2> QED BY <2>1, <2>2
  <1> QED BY <1>1, <1>2, <1>5, <1>6, ReturnKeeps

\* A changed tree is typed, and what it nests in are masters.
LEMMA AppendKeeps ==
  ASSUME TreeStrong, NEW k \in DOMAIN nodes, NEW n \in NewSizes, NEW id \in NewIDs, IsMaster(k),
         AppendChild(k, id, n)
  PROVE  TreeStrong'
  <1> DEFINE new == [id |-> id, offset |-> 0, headerLen |-> 0, size |-> 0,
                     payload |-> NewPayload(n), truncated |-> FALSE, parent |-> k]
             N == Len(nodes) + 1
  <1>1. /\ phase' # "parsing" /\ edits' = edits + 1 /\ doc' = doc /\ nodes' = Append(nodes, new)
        /\ ParseTypes /\ ParentsInv /\ edits \in Nat /\ IsSequence(nodes)
    BY DEF AppendChild, Parsed, TreeStrong, ParseTypes
  <1>2. edits' # 0 /\ edits' \in Nat
    BY <1>1
  <1>3. StacksInv' /\ ReadInv' /\ NestInv'
    BY <1>1, <1>2 DEF StacksInv, ReadInv, NestInv
  <1>4. /\ Len(nodes) \in Nat /\ DOMAIN nodes = 1..Len(nodes)
        /\ IsSequence(nodes') /\ DOMAIN nodes' = 1..N
        /\ \A i \in 1..Len(nodes) : nodes'[i] = nodes[i]
        /\ nodes'[N] = new
    <2> HIDE DEF new
    <2> QED BY <1>1, AppendToSequence
  <1>5. id \in ElementID /\ KindOf[id] # "master"
    BY TreeAssumption
  <1>6. IsNode(new) /\ new.parent = k /\ new.id = id
    BY <1>4, <1>5 DEF IsNode
  <1> HIDE DEF new
  <1>7. \A j \in DOMAIN nodes' : j \in DOMAIN nodes \/ j = N
    BY <1>4
  <1>8. ParseTypes'
    BY <1>1, <1>2, <1>4, <1>6, <1>7 DEF ParseTypes
  <1>9. \A j \in DOMAIN nodes : IsMaster(j)' <=> IsMaster(j)
    BY <1>4 DEF IsMaster
  <1>10. ASSUME NEW j \in DOMAIN nodes'
         PROVE  /\ nodes'[j].parent \in 0..(j - 1)
                /\ nodes'[j].parent # 0 => IsMaster(nodes[j].parent)'
                /\ IsMaster(j)' => nodes'[j].payload = << >>
    <2>1. CASE j \in DOMAIN nodes
      <3>1. nodes'[j] = nodes[j] /\ nodes[j].parent \in 0..(j - 1)
            /\ (nodes[j].parent # 0 => IsMaster(nodes[j].parent))
            /\ (IsMaster(j) => nodes[j].payload = << >>)
        BY <1>1, <1>4, <2>1 DEF ParentsInv
      <3>2. nodes[j].parent # 0 => nodes[j].parent \in DOMAIN nodes
        BY <1>4, <2>1, <3>1
      <3> QED BY <1>9, <2>1, <3>1, <3>2
    <2>2. CASE j = N
      <3>1. ~IsMaster(j)'
        BY <1>4, <1>5, <1>6, <2>2 DEF IsMaster
      <3>2. nodes'[j].parent = k /\ k \in 0..(j - 1) /\ IsMaster(k)'
        BY <1>4, <1>6, <1>9, <2>2
      <3> QED BY <3>1, <3>2
    <2> QED BY <1>7, <2>1, <2>2
  <1>11. ParentsInv'
    BY <1>10 DEF ParentsInv
  <1> QED BY <1>3, <1>8, <1>11 DEF TreeStrong

LEMMA ReplaceKeeps ==
  ASSUME TreeStrong, NEW k \in DOMAIN nodes, NEW n \in NewSizes, ~IsMaster(k),
         ReplacePayload(k, n)
  PROVE  TreeStrong'
  <1> DEFINE new == [nodes[k] EXCEPT !.payload = NewPayload(n), !.truncated = FALSE]
  <1>1. /\ phase' # "parsing" /\ edits' = edits + 1 /\ doc' = doc
        /\ nodes' = [nodes EXCEPT ![k].payload = NewPayload(n), ![k].truncated = FALSE]
        /\ ParseTypes /\ ParentsInv /\ edits \in Nat /\ IsSequence(nodes) /\ IsNode(nodes[k])
    BY DEF ReplacePayload, Parsed, TreeStrong, ParseTypes
  <1>2. edits' # 0 /\ edits' \in Nat
    BY <1>1
  <1>3. StacksInv' /\ ReadInv' /\ NestInv'
    BY <1>1, <1>2 DEF StacksInv, ReadInv, NestInv
  <1>4. nodes' = [nodes EXCEPT ![k] = new]
    BY <1>1
  <1>5. /\ IsNode(new) /\ new.id = nodes[k].id /\ new.parent = nodes[k].parent
    BY <1>1 DEF IsNode
  <1> HIDE DEF new
  <1>6. /\ IsSequence(nodes') /\ DOMAIN nodes' = DOMAIN nodes
        /\ \A j \in DOMAIN nodes : nodes'[j] = IF j = k THEN new ELSE nodes[j]
    <2>1. IsSequence(nodes) /\ k \in DOMAIN nodes
      BY <1>1
    <2>2. /\ IsSequence([nodes EXCEPT ![k] = new])
          /\ DOMAIN [nodes EXCEPT ![k] = new] = DOMAIN nodes
      BY ONLY <2>1, ExceptOfSequence
    <2>3. \A j \in DOMAIN nodes : nodes'[j] = IF j = k THEN new ELSE nodes[j]
      BY ONLY <1>4
    <2> QED BY <1>4, <2>2, <2>3
  <1>7. ParseTypes'
    BY <1>1, <1>2, <1>5, <1>6 DEF ParseTypes
  <1>8. \A j \in DOMAIN nodes : (IsMaster(j)' <=> IsMaster(j)) /\ nodes'[j].parent = nodes[j].parent
                                /\ (j # k => nodes'[j] = nodes[j])
    BY <1>5, <1>6 DEF IsMaster
  <1>9. ParentsInv'
    <2>1. ASSUME NEW j \in DOMAIN nodes
          PROVE  /\ nodes'[j].parent \in 0..(j - 1)
                 /\ nodes'[j].parent # 0 => IsMaster(nodes[j].parent)'
                 /\ IsMaster(j)' => nodes'[j].payload = << >>
      <3>1. nodes[j].parent \in 0..(j - 1)
            /\ (nodes[j].parent # 0 => IsMaster(nodes[j].parent))
            /\ (IsMaster(j) => nodes[j].payload = << >>)
        BY <1>1 DEF ParentsInv
      <3>2. DOMAIN nodes = 1..Len(nodes) /\ Len(nodes) \in Nat
        BY <1>1 DEF IsSequence
      <3>3. nodes[j].parent # 0 => nodes[j].parent \in DOMAIN nodes
        BY <3>1, <3>2
      <3> QED BY <1>8, <3>1, <3>3
    <2> QED BY <1>6, <2>1 DEF ParentsInv
  <1> QED BY <1>3, <1>7, <1>9 DEF TreeStrong

LEMMA WritingKeeps ==
  ASSUME TreeStrong, UNCHANGED <<doc, cap, p, nodes, stack, phase, edits>>
  PROVE  TreeStrong'
  <1>1. ParseTypes' /\ ParentsInv'
    BY DEF TreeStrong, ParseTypes, ParentsInv, IsMaster
  <1>2. StacksInv'
    BY DEF TreeStrong, StacksInv, IsBetween, FrameOf, EndOf, IsMaster
  <1>3. ReadInv'
    BY DEF TreeStrong, ReadInv, PrefixIsKept, ReadTo, HasCurrent, EndOf, IsMaster, TooLarge
  <1>4. NestInv'
    <2>1. \A k : NestedAt(k)' <=> NestedAt(k)
      BY DEF NestedAt, Ancestors, Declared, EndOf, IsMaster
    <2>2. StackNests' <=> StackNests
      BY DEF StackNests, Ancestors, Declared, EndOf, IsMaster
    <2> QED BY <2>1, <2>2 DEF TreeStrong, NestInv
  <1> QED BY <1>1, <1>2, <1>3, <1>4 DEF TreeStrong

LEMMA TreeStrongInit == Init => TreeStrong
  <1> SUFFICES ASSUME Init PROVE TreeStrong
    OBVIOUS
  <1>1. /\ doc \in DOMAIN Documents /\ nodes = << >> /\ stack = << >> /\ phase = "parsing" /\ edits = 0
        /\ p = Feed(New(doc), Documents[doc].len)
    BY DEF Init
  <1>2. Documents[doc].start \in Nat /\ Documents[doc].len \in Nat
    BY <1>1, Assumption DEF DocumentsAssumption
  <1>3. Documents[doc].start = 0 /\ DOMAIN Documents[doc].at \subseteq Nat
    <2>1. Documents[doc] = Decoded(Text[doc])
      BY <1>1, TreeAssumption
    <2>2. Decoded(Text[doc]).start = 0
      BY DEF Decoded
    <2>3. ASSUME NEW x \in DOMAIN Decoded(Text[doc]).at PROVE x \in 0..(Len(Text[doc]) - 1)
      BY <2>3 DEF Decoded
    <2>4. ASSUME NEW x, x \in 0..(Len(Text[doc]) - 1) PROVE x \in Nat
      BY <2>4
    <2> QED BY <2>1, <2>2, <2>3, <2>4
  <1>4. /\ p.pos = 0 /\ p.fed \in Nat /\ p.stack = << >> /\ p.current = NoElement
    BY <1>1, <1>2, <1>3 DEF Feed, New
  <1>5. IsSequence(nodes) /\ IsSequence(stack) /\ IsSequence(p.stack)
    <2> DEFINE e == << >>
    <2>1. DOMAIN e = 1..0 /\ Len(e) = 0
      OBVIOUS
    <2>2. e \in Seq(Range(e))
      BY EmptySeq
    <2>3. nodes = e /\ stack = e /\ p.stack = e
      BY <1>1, <1>4
    <2> HIDE DEF e
    <2> QED BY <2>2, <2>3 DEF IsSequence
  <1>6. DOMAIN nodes = {} /\ Len(stack) = 0 /\ Len(p.stack) = 0
    BY <1>1, <1>4
  <1>7. ParseTypes /\ ParentsInv
    BY <1>1, <1>5, <1>6 DEF ParseTypes, ParentsInv
  <1>8. StacksInv
    BY <1>1, <1>4, <1>5, <1>6 DEF StacksInv, IsBetween
  <1>9. ReadInv
    <2>1. ReadTo = 0
      BY <1>4 DEF ReadTo, HasCurrent, NoElement
    <2>2. {x \in DOMAIN Documents[doc].at : x < 0} = {}
      BY <1>3
    <2> QED BY <1>6, <2>1, <2>2 DEF ReadInv, PrefixIsKept
  <1>10. NestInv
    BY <1>6 DEF NestInv, StackNests
  <1> QED BY <1>7, <1>8, <1>9, <1>10 DEF TreeStrong

LEMMA TreeStrongNext == TreeStrong /\ [Next]_vars => TreeStrong'
  <1> SUFFICES ASSUME TreeStrong, [Next]_vars PROVE TreeStrong'
    OBVIOUS
  <1>1. CASE PeekFails \/ EndIsNone
    BY <1>1, FailuresKeep
  <1>2. CASE MasterEnds \/ UnknownEnds
    BY <1>2, PopsKeep
  <1>3. CASE Enter
    BY <1>3, EnterKeeps
  <1>4. CASE Leaf
    BY <1>4, LeafKeeps
  <1>5. CASE BufferEnds
    BY <1>5, BufferEndKeeps
  <1>6. CASE Marshal \/ SinkFails \/ UNCHANGED vars
    <2>1. UNCHANGED <<doc, cap, p, nodes, stack, phase, edits>>
      BY <1>6 DEF Marshal, SinkFails, vars
    <2> QED BY <2>1, WritingKeeps
  <1>7. ASSUME NEW k \in DOMAIN nodes, NEW n \in NewSizes,
               IsMaster(k) /\ \E id \in NewIDs : AppendChild(k, id, n)
        PROVE  TreeStrong'
    BY <1>7, AppendKeeps
  <1>8. ASSUME NEW k \in DOMAIN nodes, NEW n \in NewSizes, ~IsMaster(k) /\ ReplacePayload(k, n)
        PROVE  TreeStrong'
    BY <1>8, ReplaceKeeps
  <1> QED BY <1>1, <1>2, <1>3, <1>4, <1>5, <1>6, <1>7, <1>8 DEF Next

LEMMA TreeStrongAlways == Spec => []TreeStrong
  <1> QED BY TreeStrongInit, TreeStrongNext, PTL DEF Spec

\* While Parse runs the parser's stack and its own are the same masters, a parent is
\* always a master that came before, and what was attached nests as the document declares
\* it, unless something runs past a declared end: for every text and classifier.
THEOREM TreesNestAsDeclared == Spec => []TreeInv
  <1>1. TreeStrong => TreeInv
    <2> SUFFICES ASSUME TreeStrong PROVE TreeInv
      OBVIOUS
    <2>1. NestsAsDeclared
      BY NestsSo
    <2>2. /\ ParentsInv /\ StacksInv
      BY DEF TreeStrong
    <2>3. phase = "parsing" => DOMAIN stack = 1..Len(stack)
      BY <2>2 DEF StacksInv, IsSequence
    <2>4. TreeTypeOK
      BY <2>2, <2>3 DEF TreeTypeOK, ParentsInv, StacksInv, FrameOf
    <2> QED BY <2>1, <2>4 DEF TreeInv
  <1> QED BY <1>1, TreeStrongAlways, PTL

\* Whether Parse succeeds or stops at a cut or a fault, the elements it keeps are exactly
\* those that begin before the position it reached, each once and in order, a leaf with
\* its bytes unless they are more than the cap.
THEOREM NothingReadIsLost == Spec => []PrefixIsKept
  <1>1. TreeStrong => PrefixIsKept
    BY DEF TreeStrong, ReadInv, PrefixIsKept
  <1> QED BY <1>1, TreeStrongAlways, PTL

-----------------------------------------------------------------------------
(* Pieces of a text.                                                       *)

\* The bytes from a up to b.
Slice(t, a, b) == SubSeq(t, a + 1, b)

LEMMA SliceIs ==
  ASSUME NEW t, IsSequence(t), NEW a \in 0..Len(t), NEW b \in a..Len(t)
  PROVE  /\ Slice(t, a, b) \in Seq(Range(t)) /\ Len(Slice(t, a, b)) = b - a
         /\ a = b => Slice(t, a, b) = << >>
  <1>1. Len(t) \in Nat /\ t \in Seq(Range(t))
    BY DEF IsSequence
  <1>2. \A i \in (a + 1)..b : t[i] \in Range(t)
    <2>1. \A i \in (a + 1)..b : i \in 1..Len(t)
      BY <1>1
    <2> QED BY <1>1, <2>1, ElementOfSeq
  <1>3. a + 1 \in Int /\ b \in Int
    BY <1>1
  <1>4. /\ SubSeq(t, a + 1, b) \in Seq(Range(t))
        /\ Len(SubSeq(t, a + 1, b)) = IF a + 1 <= b THEN b - (a + 1) + 1 ELSE 0
    BY <1>2, <1>3, SubSeqProperties
  <1>5. (IF a + 1 <= b THEN b - (a + 1) + 1 ELSE 0) = b - a
    BY <1>1
  <1>6. a = b => SubSeq(t, a + 1, b) = << >>
    BY <1>1, SubSeqEmpty
  <1> QED BY <1>4, <1>5, <1>6 DEF Slice

LEMMA SlicesJoin ==
  ASSUME NEW t, IsSequence(t), NEW a \in 0..Len(t), NEW b \in a..Len(t), NEW c \in b..Len(t)
  PROVE  Slice(t, a, b) \o Slice(t, b, c) = Slice(t, a, c)
  <1>1. Len(t) \in Nat /\ t \in Seq(Range(t))
    BY DEF IsSequence
  <1> DEFINE m == a + 1
  <1>2. m \in 1..(Len(t) + 1) /\ b \in (m - 1)..Len(t) /\ c \in b..Len(t)
    BY <1>1
  <1> HIDE DEF m
  <1>3. SubSeq(t, m, b) \o SubSeq(t, b + 1, c) = SubSeq(t, m, c)
    BY <1>1, <1>2, ConcatAdjacentSubSeq
  <1> QED BY <1>3 DEF Slice, m

LEMMA SliceOfAll == ASSUME NEW t, IsSequence(t) PROVE Slice(t, 0, Len(t)) = t
  <1>1. t \in Seq(Range(t))
    BY DEF IsSequence
  <1>2. SubSeq(t, 1, Len(t)) = t
    BY <1>1, SubSeqFull
  <1>3. 0 + 1 = 1
    OBVIOUS
  <1> QED BY <1>2, <1>3 DEF Slice

-----------------------------------------------------------------------------
(* Encodings one after the other.                                          *)

\* f is what encs of ks come to, the first of n, the first two, and so on.
ComesTo(f, encs, ks, n) ==
  f = [m \in 0..n |-> IF m = 0 THEN Nothing
                      ELSE IF m \in ks THEN Then(f[m - 1], encs[m]) ELSE f[m - 1]]

LEMMA JoinedIs ==
  ASSUME NEW n \in Nat, NEW encs, NEW ks
  PROVE  \E f : ComesTo(f, encs, ks, n) /\ Joined(encs, ks, n) = f[n]
  <1> DEFINE Value(f, m) == IF m = 0 THEN Nothing
                            ELSE IF m \in ks THEN Then(f[m - 1], encs[m]) ELSE f[m - 1]
             Upto(k) == \E f : f = [m \in 0..k |-> Value(f, m)]
             T == {k \in 0..n : Upto(k)}
  <1>1. 0 \in T
    <2> DEFINE f == [m \in 0..0 |-> Nothing]
               g == [m \in 0..0 |-> Value(f, m)]
    <2>1. f = g
      OBVIOUS
    <2> HIDE DEF f
    <2>2. Upto(0)
      BY <2>1
    <2> HIDE DEF Upto
    <2> QED BY <2>2
  <1>2. ASSUME NEW k \in 1..n, k - 1 \in T PROVE k \in T
    <2>1. PICK f : f = [m \in 0..(k - 1) |-> Value(f, m)]
      BY <1>2
    <2> DEFINE h == [m \in 0..k |-> IF m = k THEN Value(f, m) ELSE f[m]]
               r == [m \in 0..k |-> Value(h, m)]
    <2>2. ASSUME NEW m \in 0..k PROVE h[m] = Value(h, m)
      <3>1. m # 0 => m - 1 \in 0..(k - 1) /\ m - 1 # k /\ m - 1 \in 0..k
        OBVIOUS
      <3>2. m # 0 => h[m - 1] = f[m - 1]
        BY <3>1
      <3>3. h[m] = Value(f, m)
        <4>1. CASE m = k
          BY <4>1
        <4>2. CASE m # k
          <5>1. m \in 0..(k - 1)
            BY <4>2
          <5>2. f[m] = Value(f, m)
            <6> HIDE DEF Value
            <6> QED BY <2>1, <5>1
          <5> HIDE DEF Value
          <5> QED BY <4>2, <5>2
        <4> QED BY <4>1, <4>2
      <3> HIDE DEF h
      <3> QED BY <3>2, <3>3
    <2>3. h = [m \in 0..k |-> h[m]]
      OBVIOUS
    <2> HIDE DEF h, Value
    <2>4. h = r
      BY <2>2, <2>3
    <2>5. Upto(k)
      BY <2>4
    <2> HIDE DEF Upto
    <2> QED BY <2>5
  <1> HIDE DEF T
  <1>3. 0..n \subseteq T
    BY <1>1, <1>2, BoundedInduction
  <1>4. Upto(n)
    <2>1. n \in T
      BY <1>3
    <2> QED BY <2>1 DEF T
  <1> DEFINE f == CHOOSE f : f = [m \in 0..n |-> Value(f, m)]
  <1>5. f = [m \in 0..n |-> Value(f, m)]
    <2> HIDE DEF Value
    <2> QED BY <1>4
  <1>6. Joined(encs, ks, n) = f[n]
    BY DEF Joined
  <1> HIDE DEF f
  <1>7. ComesTo(f, encs, ks, n)
    BY <1>5 DEF ComesTo
  <1> QED BY <1>6, <1>7

\* Step by step.
LEMMA ComesToBySteps ==
  ASSUME NEW n \in Nat, NEW encs, NEW ks, NEW f, ComesTo(f, encs, ks, n)
  PROVE  /\ f[0] = Nothing
         /\ \A m \in 1..n : f[m] = IF m \in ks THEN Then(f[m - 1], encs[m]) ELSE f[m - 1]
  <1> DEFINE V(m) == IF m = 0 THEN Nothing
                     ELSE IF m \in ks THEN Then(f[m - 1], encs[m]) ELSE f[m - 1]
  <1>1. f = [m \in 0..n |-> V(m)]
    BY DEF ComesTo
  <1> HIDE DEF V
  <1>2. \A m \in 0..n : f[m] = V(m)
    BY <1>1
  <1>3. 0 \in 0..n /\ \A m \in 1..n : m \in 0..n /\ m # 0
    OBVIOUS
  <1>4. f[0] = V(0) /\ \A m \in 1..n : f[m] = V(m)
    BY <1>2, <1>3
  <1> QED BY <1>3, <1>4 DEF V

\* What is not of ks has no part in it.
LEMMA JoinedAlike ==
  ASSUME NEW n \in Nat, NEW ks, NEW encs, NEW more, \A k \in ks : encs[k] = more[k]
  PROVE  Joined(encs, ks, n) = Joined(more, ks, n)
  <1>1. PICK f : ComesTo(f, encs, ks, n) /\ Joined(encs, ks, n) = f[n]
    BY JoinedIs
  <1>2. PICK g : ComesTo(g, more, ks, n) /\ Joined(more, ks, n) = g[n]
    BY JoinedIs
  <1>3. /\ f[0] = Nothing
        /\ \A m \in 1..n : f[m] = IF m \in ks THEN Then(f[m - 1], encs[m]) ELSE f[m - 1]
    BY <1>1, ComesToBySteps
  <1>4. /\ g[0] = Nothing
        /\ \A m \in 1..n : g[m] = IF m \in ks THEN Then(g[m - 1], more[m]) ELSE g[m - 1]
    BY <1>2, ComesToBySteps
  <1> DEFINE T == {m \in 0..n : f[m] = g[m]}
  <1>5. 0 \in T
    BY <1>3, <1>4
  <1>6. ASSUME NEW m \in 1..n, m - 1 \in T PROVE m \in T
    BY <1>3, <1>4, <1>6
  <1> HIDE DEF T
  <1>7. 0..n \subseteq T
    BY <1>5, <1>6, BoundedInduction
  <1>8. n \in T
    BY <1>7
  <1> QED BY <1>1, <1>2, <1>8 DEF T

\* An element is encoded from what its children are.
LEMMA EncodingsAre ==
  ASSUME NEW ns, Parented(ns)
  PROVE  \A k \in DOMAIN ns : EncodingsOf(ns)[k] = Encoding(ns[k], Body(ns, EncodingsOf(ns), k))
  <1> DEFINE n == Len(ns)
             Value(f, k) == Encoding(ns[k], Body(ns, f, k))
             From(m) == \E f : f = [k \in 1..n |-> f[k]] /\ \A k \in 1..n : k > m => f[k] = Value(f, k)
             T == {m \in 0..n : From(m)}
  <1>1. n \in Nat /\ DOMAIN ns = 1..n /\ \A k \in 1..n : ns[k].parent \in 0..(k - 1)
    BY DEF Parented, IsSequence
  <1> HIDE DEF n
  <1>2. ASSUME NEW f, NEW g, NEW m \in 0..n, \A j \in 1..n : j > m => f[j] = g[j],
               NEW k \in 1..n, k >= m
        PROVE  Value(f, k) = Value(g, k)
    <2>1. \A j \in ChildrenAmong(ns, k) : j \in 1..n /\ k \in 0..(j - 1)
      BY <1>1 DEF ChildrenAmong
    <2>2. \A j \in ChildrenAmong(ns, k) : j \in 1..n /\ j > m
      BY <1>1, <1>2, <2>1
    <2>3. \A j \in ChildrenAmong(ns, k) : f[j] = g[j]
      BY <1>2, <2>2
    <2>4. Joined(f, ChildrenAmong(ns, k), n) = Joined(g, ChildrenAmong(ns, k), n)
      BY <1>1, <2>3, JoinedAlike
    <2> QED BY <2>4 DEF Body, n
  <1> HIDE DEF Value
  <1>3. n \in T
    <2> DEFINE f == [k \in 1..n |-> k]
    <2>1. f = [k \in 1..n |-> f[k]] /\ \A k \in 1..n : ~(k > n)
      BY <1>1
    <2> HIDE DEF f
    <2>2. From(n)
      BY <2>1
    <2> HIDE DEF From
    <2> QED BY <1>1, <2>2
  <1>4. ASSUME NEW m \in 0..(n - 1), m + 1 \in T PROVE m \in T
    <2>1. PICK f : \A k \in 1..n : k > m + 1 => f[k] = Value(f, k)
      BY <1>4
    <2> DEFINE h == [k \in 1..n |-> IF k = m + 1 THEN Value(f, k) ELSE f[k]]
    <2>2. h = [k \in 1..n |-> h[k]]
      OBVIOUS
    <2>3. m + 1 \in 0..n /\ \A j \in 1..n : j > m + 1 => h[j] = f[j]
      BY <1>1
    <2>4. ASSUME NEW k \in 1..n, k > m PROVE h[k] = Value(h, k)
      <3>1. k >= m + 1
        BY <1>1, <2>4
      <3>2. Value(h, k) = Value(f, k)
        <4> HIDE DEF h
        <4> QED BY <1>2, <2>3, <3>1
      <3>3. h[k] = Value(f, k)
        <4>1. CASE k = m + 1
          BY <4>1
        <4>2. CASE k # m + 1
          <5>1. k > m + 1 /\ h[k] = f[k]
            BY <1>1, <2>4, <4>2
          <5> QED BY <2>1, <5>1
        <4> QED BY <4>1, <4>2
      <3> QED BY <3>2, <3>3
    <2> HIDE DEF h
    <2>5. From(m)
      BY <2>2, <2>4
    <2> HIDE DEF From
    <2> QED BY <1>1, <2>5
  <1> HIDE DEF T
  <1>5. 0..n \subseteq T
    BY <1>1, <1>3, <1>4, DownwardInduction
  <1>6. From(0)
    <2>1. 0 \in T
      BY <1>1, <1>5
    <2> QED BY <2>1 DEF T
  <1>7. PICK f : f = [k \in 1..n |-> f[k]] /\ \A k \in 1..n : k > 0 => f[k] = Value(f, k)
    BY <1>6
  <1> DEFINE r == [k \in 1..n |-> Value(f, k)]
             enc == CHOOSE g : g = [k \in 1..n |-> Value(g, k)]
  <1>8. \A k \in 1..n : f[k] = Value(f, k)
    BY <1>1, <1>7
  <1>9. f = r
    BY <1>7, <1>8
  <1>10. enc = [k \in 1..n |-> Value(enc, k)]
    BY <1>9, Zenon
  <1>11. EncodingsOf(ns) = enc
    BY <1>1, Zenon DEF EncodingsOf, Value
  <1> HIDE DEF enc
  <1>12. \A k \in 1..n : enc[k] = Value(enc, k)
    BY <1>10
  <1> QED BY <1>1, <1>11, <1>12 DEF Value

-----------------------------------------------------------------------------
(* The order in which a text has its elements.                             *)

\* The next element begins where this one's header ends, or its payload.
NextStart(k) ==
  IF k = 0 THEN 0
  ELSE nodes[k].offset + nodes[k].headerLen + IF IsMaster(k) THEN 0 ELSE nodes[k].size

\* m is k or in it; everything is in 0.
Under(k, m) == k = 0 \/ m = k \/ k \in Ancestors[m]

\* A parent is the element before, or around that.
InTextOrder ==
  /\ Parented(nodes) /\ AroundIs(Ancestors, nodes)
  /\ \A k \in DOMAIN nodes : \A a \in Ancestors[k] : a \in 1..(k - 1)
  /\ \A k \in DOMAIN nodes : nodes[k].parent # 0 => Under(nodes[k].parent, k - 1)

LEMMA OrderFacts ==
  ASSUME InTextOrder
  PROVE  /\ Len(nodes) \in Nat /\ DOMAIN nodes = 1..Len(nodes)
         /\ \A k \in DOMAIN nodes :
              /\ nodes[k].parent \in 0..(k - 1)
              /\ nodes[k].parent # 0 => nodes[k].parent \in DOMAIN nodes
              /\ Ancestors[k] = IF nodes[k].parent = 0 THEN {}
                                ELSE {nodes[k].parent} \cup Ancestors[nodes[k].parent]
              /\ \A a \in Ancestors[k] : a \in DOMAIN nodes /\ a < k
  <1>1. Len(nodes) \in Nat /\ DOMAIN nodes = 1..Len(nodes)
        /\ \A k \in DOMAIN nodes : nodes[k].parent \in 0..(k - 1)
    BY DEF InTextOrder, Parented, IsSequence
  <1>2. ASSUME NEW k \in DOMAIN nodes
        PROVE  /\ nodes[k].parent # 0 => nodes[k].parent \in DOMAIN nodes
               /\ Ancestors[k] = IF nodes[k].parent = 0 THEN {}
                                 ELSE {nodes[k].parent} \cup Ancestors[nodes[k].parent]
               /\ \A a \in Ancestors[k] : a \in DOMAIN nodes /\ a < k
    <2>1. nodes[k].parent \in 0..(k - 1) /\ k \in 1..Len(nodes)
      BY <1>1
    <2>2. nodes[k].parent # 0 => nodes[k].parent \in DOMAIN nodes
      BY <1>1, <2>1
    <2>3. \A a \in 1..(k - 1) : a \in DOMAIN nodes /\ a < k
      BY <1>1, <2>1
    <2>4. \A a \in Ancestors[k] : a \in 1..(k - 1)
      BY DEF InTextOrder
    <2>5. Ancestors[k] = IF nodes[k].parent = 0 THEN {}
                         ELSE {nodes[k].parent} \cup Ancestors[nodes[k].parent]
      BY DEF InTextOrder, AroundIs
    <2> QED BY <2>2, <2>3, <2>4, <2>5
  <1> QED BY <1>1, <1>2

\* What is around what is around an element is around it.
LEMMA AroundAround ==
  ASSUME InTextOrder, NEW c \in DOMAIN nodes, NEW b \in Ancestors[c], NEW a \in Ancestors[b]
  PROVE  a \in Ancestors[c]
  <1> DEFINE S == {x \in 0..Len(nodes) :
                     x # 0 /\ b \in Ancestors[x] => a \in Ancestors[x]}
  <1>1. /\ Len(nodes) \in Nat /\ DOMAIN nodes = 1..Len(nodes)
        /\ \A k \in DOMAIN nodes :
              /\ nodes[k].parent \in 0..(k - 1)
              /\ nodes[k].parent # 0 => nodes[k].parent \in DOMAIN nodes
              /\ Ancestors[k] = IF nodes[k].parent = 0 THEN {}
                                ELSE {nodes[k].parent} \cup Ancestors[nodes[k].parent]
    BY OrderFacts
  <1>2. ASSUME NEW x \in 0..Len(nodes), \A y \in 0..(x - 1) : y \in S PROVE x \in S
    <2> SUFFICES ASSUME x # 0, b \in Ancestors[x] PROVE a \in Ancestors[x]
      OBVIOUS
    <2>1. x \in DOMAIN nodes
      BY <1>1
    <2> DEFINE q == nodes[x].parent
    <2>2. /\ q \in 0..(x - 1) /\ q # 0 /\ Ancestors[x] = {q} \cup Ancestors[q]
      BY <1>1, <2>1
    <2>3. CASE b = q
      BY <2>2, <2>3
    <2>4. CASE b \in Ancestors[q]
      <3>1. q \in S
        BY <1>2, <2>2
      <3> QED BY <2>2, <2>4, <3>1
    <2> QED BY <2>2, <2>3, <2>4
  <1> HIDE DEF S
  <1>3. 0..Len(nodes) \subseteq S
    BY <1>1, <1>2, StrongInduction
  <1>4. c \in S /\ c # 0
    BY <1>1, <1>3
  <1> QED BY <1>4 DEF S

\* What is under k follows it without a gap.
LEMMA UnderBefore ==
  ASSUME InTextOrder, NEW k \in 0..Len(nodes), NEW m \in DOMAIN nodes, Under(k, m), k # m
  PROVE  m - 1 \in 0..Len(nodes) /\ k < m /\ Under(k, m - 1)
  <1>1. /\ Len(nodes) \in Nat /\ DOMAIN nodes = 1..Len(nodes)
        /\ \A x \in DOMAIN nodes :
              /\ nodes[x].parent # 0 => nodes[x].parent \in DOMAIN nodes
              /\ Ancestors[x] = IF nodes[x].parent = 0 THEN {}
                                ELSE {nodes[x].parent} \cup Ancestors[nodes[x].parent]
              /\ \A a \in Ancestors[x] : a \in DOMAIN nodes /\ a < x
    BY OrderFacts
  <1>2. m - 1 \in 0..Len(nodes)
    BY <1>1
  <1>3. CASE k = 0
    BY <1>1, <1>2, <1>3 DEF Under
  <1>4. CASE k # 0
    <2> DEFINE q == nodes[m].parent
    <2>1. k \in Ancestors[m]
      BY <1>4 DEF Under
    <2>2. k < m /\ q # 0 /\ (k = q \/ k \in Ancestors[q])
      BY <1>1, <2>1
    <2>3. Under(q, m - 1) /\ q \in DOMAIN nodes
      BY <1>1, <2>2 DEF InTextOrder
    <2>4. m - 1 = q \/ (q \in Ancestors[m - 1])
      BY <2>2, <2>3 DEF Under
    <2>5. CASE m - 1 = q
      BY <1>2, <2>2, <2>5 DEF Under
    <2>6. CASE m - 1 # q
      <3>1. m - 1 \in DOMAIN nodes
        <4>1. m - 1 # 0
          BY <1>1, <1>4, <2>2
        <4> QED BY <1>1, <1>2, <4>1
      <3>2. k \in Ancestors[m - 1]
        BY <2>2, <2>4, <2>6, <3>1, AroundAround
      <3> QED BY <1>2, <2>2, <3>2 DEF Under
    <2> QED BY <2>5, <2>6
  <1> QED BY <1>3, <1>4

LEMMA UnderBetween ==
  ASSUME InTextOrder, NEW k \in 0..Len(nodes), NEW m \in 0..Len(nodes), Under(k, m),
         NEW x \in 0..Len(nodes), k <= x, x <= m
  PROVE  Under(k, x)
  <1> DEFINE S == {n \in 0..m : m - n >= k => Under(k, m - n)}
  <1>1. Len(nodes) \in Nat /\ DOMAIN nodes = 1..Len(nodes)
    BY OrderFacts
  <1>2. 0 \in S
    <2>1. m - 0 = m
      OBVIOUS
    <2> QED BY <2>1
  <1>3. ASSUME NEW n \in 1..m, n - 1 \in S PROVE n \in S
    <2> SUFFICES ASSUME m - n >= k PROVE Under(k, m - n)
      BY <1>1
    <2> DEFINE y == m - (n - 1)
    <2>1. y \in DOMAIN nodes /\ y >= k /\ k # y /\ y - 1 = m - n
      BY <1>1
    <2>2. Under(k, y)
      BY <1>3, <2>1
    <2> HIDE DEF y
    <2>3. Under(k, y - 1)
      BY <2>1, <2>2, UnderBefore
    <2> QED BY <2>1, <2>3
  <1> HIDE DEF S
  <1>4. 0..m \subseteq S
    <2>1. m \in Nat
      BY <1>1
    <2> QED BY <1>2, <1>3, <2>1, BoundedInduction
  <1> DEFINE n == m - x
  <1>5. n \in 0..m /\ m - n = x
    BY <1>1
  <1> HIDE DEF n
  <1>6. n \in S
    BY <1>4, <1>5
  <1> QED BY <1>5, <1>6 DEF S

\* What is under an element and is not that element is under one of its children.
LEMMA ChildOver ==
  ASSUME InTextOrder, NEW k \in 0..Len(nodes), NEW m \in DOMAIN nodes, Under(k, m), k # m
  PROVE  \E c \in Children(k) : c \in DOMAIN nodes /\ k < c /\ c <= m /\ Under(c, m)
  <1> DEFINE Has(x) == \E c \in Children(k) : c \in DOMAIN nodes /\ k < c /\ c <= x /\ Under(c, x)
             S == {x \in 0..Len(nodes) : x # 0 /\ Under(k, x) /\ k # x => Has(x)}
  <1>1. /\ Len(nodes) \in Nat /\ DOMAIN nodes = 1..Len(nodes)
        /\ \A x \in DOMAIN nodes :
              /\ nodes[x].parent \in 0..(x - 1)
              /\ nodes[x].parent # 0 => nodes[x].parent \in DOMAIN nodes
              /\ Ancestors[x] = IF nodes[x].parent = 0 THEN {}
                                ELSE {nodes[x].parent} \cup Ancestors[nodes[x].parent]
    BY OrderFacts
  <1>2. ASSUME NEW x \in 0..Len(nodes), \A y \in 0..(x - 1) : y \in S PROVE x \in S
    <2> SUFFICES ASSUME x # 0, Under(k, x), k # x PROVE Has(x)
      OBVIOUS
    <2> DEFINE q == nodes[x].parent
    <2>0. x \in DOMAIN nodes
      BY <1>1
    <2>1. x \in DOMAIN nodes /\ q \in 0..(x - 1) /\ (q # 0 => q \in DOMAIN nodes)
          /\ Ancestors[x] = IF q = 0 THEN {} ELSE {q} \cup Ancestors[q]
      BY <1>1, <2>0
    <2>2. CASE q = k
      <3>1. x \in Children(k) /\ k < x /\ x <= x
        BY <2>1, <2>2 DEF Children, ChildrenAmong
      <3>2. Under(x, x)
        BY DEF Under
      <3> QED BY <2>1, <3>1, <3>2
    <2>3. CASE q # k
      <3>1. q # 0 /\ Under(k, q)
        BY <2>1, <2>3 DEF Under
      <3>2. Has(q)
        <4>1. q \in S
          BY <1>2, <2>1
        <4> HIDE DEF Has, q
        <4> QED BY <2>3, <3>1, <4>1
      <3>3. PICK c \in Children(k) : c \in DOMAIN nodes /\ k < c /\ c <= q /\ Under(c, q)
        BY <3>2
      <3>4. c <= x /\ c # 0
        BY <1>1, <2>1, <3>3
      <3>5. c \in Ancestors[x]
        BY <2>1, <3>1, <3>3, <3>4 DEF Under
      <3> QED BY <3>3, <3>4, <3>5 DEF Under
    <2> QED BY <2>2, <2>3
  <1> HIDE DEF S, Has
  <1>3. 0..Len(nodes) \subseteq S
    BY <1>1, <1>2, StrongInduction
  <1>4. m \in S /\ m # 0
    BY <1>1, <1>3
  <1>5. Has(m)
    BY <1>4 DEF S
  <1> QED BY <1>5 DEF Has

\* No child of an element is under another.
LEMMA ChildrenApart ==
  ASSUME InTextOrder, NEW k \in 0..Len(nodes), NEW c \in Children(k), NEW d \in Children(k),
         Under(c, d)
  PROVE  c = d
  <1>1. /\ Len(nodes) \in Nat /\ DOMAIN nodes = 1..Len(nodes)
        /\ \A x \in DOMAIN nodes :
              /\ nodes[x].parent \in 0..(x - 1)
              /\ nodes[x].parent # 0 => nodes[x].parent \in DOMAIN nodes
              /\ Ancestors[x] = IF nodes[x].parent = 0 THEN {}
                                ELSE {nodes[x].parent} \cup Ancestors[nodes[x].parent]
              /\ \A a \in Ancestors[x] : a \in DOMAIN nodes /\ a < x
    BY OrderFacts
  <1>2. c \in DOMAIN nodes /\ nodes[c].parent = k /\ d \in DOMAIN nodes /\ nodes[d].parent = k
    BY DEF Children, ChildrenAmong
  <1>3. k \in 0..(c - 1) /\ c # 0
    <2>1. nodes[c].parent \in 0..(c - 1) /\ c \in 1..Len(nodes)
      BY <1>1, <1>2
    <2> QED BY <1>1, <1>2, <2>1
  <1> SUFFICES ASSUME c \in Ancestors[d] PROVE FALSE
    BY <1>3 DEF Under
  <1>4. k # 0 /\ k \in DOMAIN nodes /\ (c = k \/ c \in Ancestors[k])
    BY <1>1, <1>2
  <1>5. c = k \/ c < k
    BY <1>1, <1>4
  <1> QED BY <1>1, <1>2, <1>3, <1>5

\* e is the last under k.
LastUnder(k, e) ==
  /\ e \in 0..Len(nodes) /\ k <= e /\ Under(k, e)
  /\ \A m \in DOMAIN nodes : m > e => ~Under(k, m)

\* There is a last.
LEMMA SomeLast ==
  ASSUME InTextOrder, NEW k \in 0..Len(nodes)
  PROVE  \E e : LastUnder(k, e)
  <1> DEFINE S == {n \in 0..Len(nodes) : Under(k, Len(nodes) - n)}
  <1>1. Len(nodes) \in Nat /\ DOMAIN nodes = 1..Len(nodes)
        /\ \A x \in DOMAIN nodes : \A a \in Ancestors[x] : a < x
    BY OrderFacts
  <1>2. Len(nodes) - k \in S
    <2>1. Len(nodes) - (Len(nodes) - k) = k /\ Len(nodes) - k \in 0..Len(nodes)
      BY <1>1
    <2> QED BY <2>1 DEF Under
  <1>3. S \in SUBSET Nat
    BY <1>1
  <1> HIDE DEF S
  <1>3a. S # {}
    BY <1>2
  <1>4. PICK n \in S : \A i \in S : n <= i
    BY <1>3, <1>3a, LeastOf
  <1> DEFINE e == Len(nodes) - n
  <1>5. e \in 0..Len(nodes) /\ Under(k, e) /\ n \in Nat /\ k <= e
    <2>1. n <= Len(nodes) - k
      BY <1>2, <1>4
    <2> QED BY <1>1, <1>4, <2>1 DEF S
  <1>6. ASSUME NEW m \in DOMAIN nodes, m > e, Under(k, m) PROVE FALSE
    <2> DEFINE i == Len(nodes) - m
    <2>1. i \in 0..Len(nodes) /\ Len(nodes) - i = m /\ i < n
      BY <1>1, <1>5, <1>6
    <2> HIDE DEF i
    <2>2. i \in S
      BY <1>6, <2>1 DEF S
    <2> QED BY <1>4, <1>5, <2>1, <2>2
  <1> HIDE DEF e
  <1>7. LastUnder(k, e)
    BY <1>5, <1>6 DEF LastUnder
  <1> QED BY <1>7

-----------------------------------------------------------------------------
(* A text that was read to its end.                                        *)

\* The header of k and where it begins are those in the text; a leaf is retained unless
\* it is too large, and its parent is where the reading was.
AsRead(k) ==
  LET e == nodes[k]
      width == e.headerLen - IDWidth[e.id]
  IN /\ e.offset = NextStart(k - 1) /\ NextStart(k) <= Len(Text[doc])
     /\ e.id \notin IllFormedID
     /\ SaysItsSize([sizeLen |-> width, size |-> e.size])
     /\ Slice(Text[doc], e.offset, e.offset + e.headerLen) =
          HeaderBytes([id |-> e.id, sizeLen |-> width, size |-> e.size])
     /\ e.truncated <=> (~IsMaster(k) /\ TooLarge(e))
     /\ ~IsMaster(k) => e.size # UnknownSize
     /\ e.parent # 0 => Under(e.parent, k - 1)

\* Something under m reaches its declared end.
Passed(m) == \E x \in DOMAIN nodes : Under(m, x) /\ EndOf(m) <= NextStart(x)

\* The parser is behind the last element, and that is under what is open.
InTheLoop ==
  /\ p.pos = NextStart(Len(nodes)) /\ p.fed = Len(Text[doc]) /\ p.pos <= p.fed
  /\ \A i \in 1..Len(stack) : Under(stack[i], Len(nodes))
  /\ \A m \in DOMAIN nodes :
       Declared(m) /\ (\A i \in 1..Len(stack) : stack[i] # m) => Passed(m)

AtItsEnd ==
  /\ NextStart(Len(nodes)) = Len(Text[doc])
  /\ \A m \in DOMAIN nodes : Declared(m) => Passed(m)

ExactInv ==
  edits = 0 => /\ \A k \in DOMAIN nodes : AsRead(k)
               /\ phase = "parsing" => InTheLoop
               /\ phase = "ok" => AtItsEnd

\* Nothing is changed and nothing runs past.
WellRead ==
  /\ TreeStrong /\ edits = 0 /\ ~RunsPast /\ AtItsEnd
  /\ \A k \in DOMAIN nodes : AsRead(k)

LEMMA ReadInOrder ==
  ASSUME TreeStrong, edits = 0, \A k \in DOMAIN nodes : AsRead(k)
  PROVE  InTextOrder
  <1>1. Parented(nodes)
    BY NodesParented DEF TreeStrong
  <1>2. AroundIs(Ancestors, nodes)
    BY <1>1, AncestorsAre DEF Ancestors
  <1>3. \A k \in DOMAIN nodes : \A a \in Ancestors[k] : a \in 1..(k - 1)
    BY DEF TreeStrong, NestInv, NestedAt
  <1> QED BY <1>1, <1>2, <1>3 DEF InTextOrder, AsRead

\* The text is a sequence of bytes.
LEMMA TextIs ==
  ASSUME TreeStrong
  PROVE  IsSequence(Text[doc]) /\ Len(Text[doc]) \in Nat
  <1>1. doc \in DOMAIN Text
    BY TreeAssumption DEF TreeStrong, ParseTypes
  <1>2. IsSequence(Text[doc])
    BY <1>1, TreeAssumption DEF IsSequence
  <1> QED BY <1>2 DEF IsSequence

LEMMA StartsAre ==
  ASSUME TreeStrong, edits = 0, \A k \in DOMAIN nodes : AsRead(k)
  PROVE  /\ Len(nodes) \in Nat /\ DOMAIN nodes = 1..Len(nodes)
         /\ NextStart(0) = 0
         /\ \A k \in DOMAIN nodes :
              /\ nodes[k].offset \in Nat /\ nodes[k].headerLen \in Nat
              /\ nodes[k].offset = NextStart(k - 1)
              /\ nodes[k].offset < nodes[k].offset + nodes[k].headerLen
              /\ nodes[k].offset + nodes[k].headerLen <= NextStart(k)
              /\ IsMaster(k) => NextStart(k) = nodes[k].offset + nodes[k].headerLen
              /\ ~IsMaster(k) => nodes[k].size \in Nat /\ NextStart(k) = EndOf(k)
              /\ NextStart(k) \in Nat /\ NextStart(k) <= Len(Text[doc])
         /\ \A k \in 0..Len(nodes) : NextStart(k) \in 0..Len(Text[doc])
  <1>1. Len(nodes) \in Nat /\ DOMAIN nodes = 1..Len(nodes) /\ Len(Text[doc]) \in Nat
    BY TextIs DEF TreeStrong, ParseTypes, IsSequence
  <1>2. NextStart(0) = 0
    BY DEF NextStart
  <1>3. ASSUME NEW k \in DOMAIN nodes
        PROVE  /\ nodes[k].offset \in Nat /\ nodes[k].headerLen \in Nat
               /\ nodes[k].offset = NextStart(k - 1)
               /\ nodes[k].offset < nodes[k].offset + nodes[k].headerLen
               /\ nodes[k].offset + nodes[k].headerLen <= NextStart(k)
               /\ IsMaster(k) => NextStart(k) = nodes[k].offset + nodes[k].headerLen
               /\ ~IsMaster(k) => nodes[k].size \in Nat /\ NextStart(k) = EndOf(k)
               /\ NextStart(k) \in Nat /\ NextStart(k) <= Len(Text[doc])
    <2>1. /\ nodes[k].offset \in Nat /\ nodes[k].headerLen \in Nat /\ nodes[k].headerLen >= 1
          /\ nodes[k].size \in Nat \cup {UnknownSize}
      BY NodesTyped DEF TreeStrong, ReadInv
    <2>2. /\ nodes[k].offset = NextStart(k - 1) /\ NextStart(k) <= Len(Text[doc])
          /\ (~IsMaster(k) => nodes[k].size # UnknownSize)
      BY DEF AsRead
    <2>3. k # 0
      BY <1>1
    <2>4. /\ IsMaster(k) => NextStart(k) = nodes[k].offset + nodes[k].headerLen
          /\ ~IsMaster(k) => NextStart(k) = nodes[k].offset + nodes[k].headerLen + nodes[k].size
      BY <2>1, <2>3 DEF NextStart
    <2> QED BY <2>1, <2>2, <2>4 DEF EndOf
  <1>4. ASSUME NEW k \in 0..Len(nodes) PROVE NextStart(k) \in 0..Len(Text[doc])
    <2>1. CASE k = 0
      BY <1>1, <1>2, <2>1
    <2>2. CASE k # 0
      <3>1. k \in DOMAIN nodes
        BY <1>1, <2>2
      <3> QED BY <1>1, <1>3, <3>1
    <2> QED BY <2>1, <2>2
  <1> QED BY <1>1, <1>2, <1>3, <1>4

LEMMA StartsGrow ==
  ASSUME TreeStrong, edits = 0, \A k \in DOMAIN nodes : AsRead(k),
         NEW m \in 0..Len(nodes), NEW k \in 0..m
  PROVE  NextStart(k) <= NextStart(m)
  <1> DEFINE S == {x \in 0..m : k <= x => NextStart(k) <= NextStart(x)}
  <1>1. /\ Len(nodes) \in Nat /\ DOMAIN nodes = 1..Len(nodes)
        /\ \A x \in 0..Len(nodes) : NextStart(x) \in Nat
        /\ \A x \in DOMAIN nodes : NextStart(x - 1) <= NextStart(x)
    <2>1. Len(nodes) \in Nat /\ DOMAIN nodes = 1..Len(nodes) /\ Len(Text[doc]) \in Nat
      BY StartsAre, TextIs
    <2>2. \A x \in 0..Len(nodes) : NextStart(x) \in Nat
      BY <2>1, StartsAre
    <2>3. ASSUME NEW x \in DOMAIN nodes PROVE NextStart(x - 1) <= NextStart(x)
      <3>1. /\ nodes[x].offset \in Nat /\ nodes[x].headerLen \in Nat
            /\ nodes[x].offset = NextStart(x - 1) /\ NextStart(x) \in Nat
            /\ nodes[x].offset + nodes[x].headerLen <= NextStart(x)
        BY StartsAre
      <3> QED BY <3>1
    <2> QED BY <2>1, <2>2, <2>3
  <1>2. 0 \in S
    <2>1. k <= 0 => k = 0
      BY <1>1
    <2> QED BY <1>1, <2>1
  <1>3. ASSUME NEW x \in 1..m, x - 1 \in S PROVE x \in S
    <2> SUFFICES ASSUME k <= x PROVE NextStart(k) <= NextStart(x)
      BY <1>1
    <2>1. CASE k = x
      BY <1>1, <2>1
    <2>2. CASE k # x
      <3>1. k <= x - 1 /\ x \in DOMAIN nodes /\ x - 1 \in 0..Len(nodes) /\ k \in 0..Len(nodes)
            /\ x \in 0..Len(nodes)
        BY <1>1, <2>2
      <3>2. NextStart(k) <= NextStart(x - 1)
        BY <1>3, <3>1
      <3>3. NextStart(x - 1) <= NextStart(x)
        BY <1>1, <3>1
      <3>4. NextStart(k) \in Nat /\ NextStart(x - 1) \in Nat /\ NextStart(x) \in Nat
        BY <1>1, <3>1
      <3> DEFINE u == NextStart(k)
                 v == NextStart(x - 1)
                 w == NextStart(x)
      <3>5. u <= v /\ v <= w /\ u \in Nat /\ v \in Nat /\ w \in Nat
        BY <3>2, <3>3, <3>4
      <3> HIDE DEF u, v, w
      <3>6. u <= w
        BY <3>5
      <3> QED BY <3>6 DEF u, w
    <2> QED BY <2>1, <2>2
  <1> HIDE DEF S
  <1>4. 0..m \subseteq S
    <2>1. m \in Nat
      BY <1>1
    <2> QED BY <1>2, <1>3, <2>1, BoundedInduction
  <1>5. m \in S /\ k <= m
    BY <1>1, <1>4
  <1> QED BY <1>5 DEF S

\* Where what is under k stops.
Stop(k) == NextStart(CHOOSE e : LastUnder(k, e))

LEMMA StopIs ==
  ASSUME InTextOrder, NEW k \in 0..Len(nodes), NEW e, LastUnder(k, e)
  PROVE  Stop(k) = NextStart(e)
  <1> DEFINE l == CHOOSE x : LastUnder(k, x)
  <1>1. LastUnder(k, l)
    OBVIOUS
  <1>2. Stop(k) = NextStart(l)
    BY DEF Stop
  <1> HIDE DEF l
  <1>3. /\ Len(nodes) \in Nat /\ DOMAIN nodes = 1..Len(nodes)
        /\ l \in 0..Len(nodes) /\ e \in 0..Len(nodes) /\ Under(k, l) /\ Under(k, e)
        /\ \A m \in DOMAIN nodes : m > e => ~Under(k, m)
        /\ \A m \in DOMAIN nodes : m > l => ~Under(k, m)
    BY <1>1, OrderFacts DEF LastUnder
  <1>4. ~(l > e)
    <2>1. l > e => l \in DOMAIN nodes
      BY <1>3
    <2> QED BY <1>3, <2>1
  <1>5. ~(e > l)
    <2>1. e > l => e \in DOMAIN nodes
      BY <1>3
    <2> QED BY <1>3, <2>1
  <1>6. l = e
    BY <1>3, <1>4, <1>5
  <1> QED BY <1>2, <1>6

LEMMA StopFacts ==
  ASSUME TreeStrong, edits = 0, \A k \in DOMAIN nodes : AsRead(k), NEW k \in 0..Len(nodes)
  PROVE  /\ Stop(k) \in 0..Len(Text[doc]) /\ NextStart(k) <= Stop(k)
         /\ \A x \in DOMAIN nodes : Under(k, x) /\ k <= x => NextStart(x) <= Stop(k)
  <1>1. InTextOrder
    BY ReadInOrder
  <1>2. PICK e : LastUnder(k, e)
    BY <1>1, SomeLast
  <1>3. Stop(k) = NextStart(e) /\ e \in 0..Len(nodes) /\ k <= e
    BY <1>1, <1>2, StopIs DEF LastUnder
  <1>4. Len(nodes) \in Nat /\ DOMAIN nodes = 1..Len(nodes)
    BY StartsAre
  <1>5. Stop(k) \in 0..Len(Text[doc])
    BY <1>3, StartsAre
  <1>6. NextStart(k) <= Stop(k)
    <2>1. k \in 0..e
      BY <1>3, <1>4
    <2> QED BY <1>3, <2>1, StartsGrow
  <1>7. ASSUME NEW x \in DOMAIN nodes, Under(k, x), k <= x PROVE NextStart(x) <= Stop(k)
    <2>1. ~(x > e)
      BY <1>2, <1>7 DEF LastUnder
    <2>2. x \in 0..e
      BY <1>3, <1>4, <2>1
    <2> QED BY <1>3, <2>2, StartsGrow
  <1> QED BY <1>5, <1>6, <1>7

-----------------------------------------------------------------------------
(* What the children of an element come to.                                *)

\* No encoding fails but for what a cap elided.
Good(r) == r.result \in {"ok", "TruncatedPayload"} /\ (r.result = "TruncatedPayload" => cap >= 0)

\* g[x] is what was written of k when x of the text has been gone through, if it is the
\* children ks that are written, and as encs.
Grows(g, k, ks, encs) ==
  /\ g[NextStart(k)] = << >>
  /\ \A c \in Children(k) :
       IF c \in ks
       THEN /\ Good(encs[c])
            /\ encs[c].result = "ok" => g[Stop(c)] = g[nodes[c].offset] \o encs[c].bytes
       ELSE g[Stop(c)] = g[nodes[c].offset]

\* r is what was written up to and with m, which is under a child of k.
WrittenTo(r, g, k, m) ==
  /\ Good(r)
  /\ r.result = "ok" =>
       \E c \in Children(k) : k < c /\ c <= m /\ Under(c, m) /\ r.bytes = g[Stop(c)]

LEMMA ChildFacts ==
  ASSUME InTextOrder, NEW k \in 0..Len(nodes), NEW c \in Children(k)
  PROVE  /\ c \in DOMAIN nodes /\ c \in 1..Len(nodes) /\ k < c /\ Under(k, c) /\ Under(c, c)
         /\ \A m \in DOMAIN nodes : Under(c, m) => Under(k, m)
  <1>1. /\ Len(nodes) \in Nat /\ DOMAIN nodes = 1..Len(nodes)
        /\ \A x \in DOMAIN nodes :
              /\ nodes[x].parent \in 0..(x - 1)
              /\ Ancestors[x] = IF nodes[x].parent = 0 THEN {}
                                ELSE {nodes[x].parent} \cup Ancestors[nodes[x].parent]
    BY OrderFacts
  <1>2. c \in DOMAIN nodes /\ nodes[c].parent = k
    BY DEF Children, ChildrenAmong
  <1>3. nodes[c].parent \in 0..(c - 1) /\ c \in 1..Len(nodes)
    BY <1>1, <1>2
  <1>4. k < c
    BY <1>1, <1>2, <1>3
  <1>5. Under(k, c) /\ Under(c, c) /\ (k # 0 => k \in Ancestors[c])
    BY <1>1, <1>2 DEF Under
  <1>6. ASSUME NEW m \in DOMAIN nodes, Under(c, m) PROVE Under(k, m)
    <2>1. CASE k = 0
      BY <2>1 DEF Under
    <2>2. CASE m = c
      BY <1>5, <2>2
    <2>3. CASE k # 0 /\ m # c
      <3>1. c \in Ancestors[m]
        BY <1>3, <1>6, <2>3 DEF Under
      <3>2. k \in Ancestors[m]
        BY <1>5, <2>3, <3>1, AroundAround
      <3> QED BY <3>2 DEF Under
    <2> QED BY <2>1, <2>2, <2>3
  <1> QED BY <1>2, <1>3, <1>4, <1>5, <1>6

\* Two children over the same element are one.
LEMMA ChildrenOver ==
  ASSUME InTextOrder, NEW k \in 0..Len(nodes), NEW c \in Children(k), NEW d \in Children(k),
         NEW m \in 0..Len(nodes), c <= m, d <= m, Under(c, m), Under(d, m)
  PROVE  c = d
  <1>1. c \in 0..Len(nodes) /\ d \in 0..Len(nodes) /\ c \in Nat /\ d \in Nat
    <2>1. Len(nodes) \in Nat /\ c \in 1..Len(nodes) /\ d \in 1..Len(nodes)
      BY ChildFacts, OrderFacts
    <2> QED BY <2>1
  <1>2. CASE c <= d
    <2>1. Under(c, d)
      BY <1>1, <1>2, UnderBetween
    <2> QED BY <2>1, ChildrenApart
  <1>3. CASE d <= c
    <2>1. Under(d, c)
      BY <1>1, <1>3, UnderBetween
    <2> QED BY <2>1, ChildrenApart
  <1> QED BY <1>1, <1>2, <1>3

\* Between two children that follow each other nothing is written.
LEMMA ChildStep ==
  ASSUME InTextOrder, \A x \in DOMAIN nodes : nodes[x].offset = NextStart(x - 1),
         NEW k \in 0..Len(nodes), NEW ks, ks \subseteq Children(k), NEW encs, NEW g,
         Grows(g, k, ks, encs),
         NEW m \in DOMAIN nodes, k < m, Under(k, m), NEW before,
         m - 1 = k => before = Nothing,
         m - 1 # k => WrittenTo(before, g, k, m - 1)
  PROVE  WrittenTo(IF m \in ks THEN Then(before, encs[m]) ELSE before, g, k, m)
  <1>1. Len(nodes) \in Nat /\ DOMAIN nodes = 1..Len(nodes) /\ m \in 1..Len(nodes)
        /\ m - 1 \in 0..Len(nodes) /\ m \in 0..Len(nodes)
    <2>1. Len(nodes) \in Nat /\ DOMAIN nodes = 1..Len(nodes)
      BY OrderFacts
    <2> QED BY <2>1
  <1>2. CASE m \in Children(k)
    <2>1. Good(before) /\ (before.result = "ok" => before.bytes = g[nodes[m].offset])
      <3>1. nodes[m].offset = NextStart(m - 1)
        OBVIOUS
      <3>2. CASE m - 1 = k
        BY <3>1, <3>2 DEF Nothing, Good, Grows
      <3>3. CASE m - 1 # k
        <4> SUFFICES ASSUME before.result = "ok" PROVE before.bytes = g[nodes[m].offset]
          BY <3>3 DEF WrittenTo
        <4>1. PICK c \in Children(k) : c <= m - 1 /\ Under(c, m - 1) /\ before.bytes = g[Stop(c)]
          BY <3>3 DEF WrittenTo
        <4>2. c \in 1..Len(nodes) /\ c \in 0..Len(nodes)
          BY <1>1, ChildFacts
        <4>3. ASSUME NEW x \in DOMAIN nodes, x > m - 1, Under(c, x) PROVE FALSE
          <5>1. x \in 0..Len(nodes) /\ c <= m /\ m <= x /\ c # m
            BY <1>1, <4>1, <4>2, <4>3
          <5>2. Under(c, m)
            BY <1>1, <4>2, <4>3, <5>1, UnderBetween
          <5> QED BY <1>2, <5>1, <5>2, ChildrenApart
        <4>4. LastUnder(c, m - 1)
          BY <1>1, <4>1, <4>3 DEF LastUnder
        <4>5. Stop(c) = NextStart(m - 1)
          BY <4>2, <4>4, StopIs
        <4> QED BY <3>1, <4>1, <4>5
      <3> QED BY <3>2, <3>3
    <2>2. m <= m /\ Under(m, m)
      BY <1>1 DEF Under
    <2>3. CASE m \in ks
      <3> DEFINE r == Then(before, encs[m])
      <3>1. Good(encs[m]) /\ (encs[m].result = "ok" => g[Stop(m)] = g[nodes[m].offset] \o encs[m].bytes)
        BY <1>2, <2>3 DEF Grows
      <3>2. Good(r)
        BY <2>1, <3>1 DEF Good, Then
      <3>3. r.result = "ok" => r.bytes = g[Stop(m)]
        BY <2>1, <3>1 DEF Then
      <3> HIDE DEF r
      <3>4. WrittenTo(r, g, k, m)
        BY <1>2, <2>2, <3>2, <3>3 DEF WrittenTo
      <3> QED BY <2>3, <3>4 DEF r
    <2>4. CASE m \notin ks
      <3>1. g[Stop(m)] = g[nodes[m].offset]
        BY <1>2, <2>4 DEF Grows
      <3>2. WrittenTo(before, g, k, m)
        BY <1>2, <2>1, <2>2, <3>1 DEF WrittenTo
      <3> QED BY <2>4, <3>2
    <2> QED BY <2>3, <2>4
  <1>3. CASE m \notin Children(k)
    <2>1. m \notin ks
      BY <1>3
    <2>2. PICK c \in Children(k) : c \in DOMAIN nodes /\ k < c /\ c <= m /\ Under(c, m)
      <3>1. k # m
        BY <1>1
      <3> QED BY <3>1, ChildOver
    <2>3. c # m /\ c \in 0..Len(nodes)
      BY <1>1, <1>3, <2>2
    <2>4. Under(c, m - 1) /\ c < m
      BY <2>2, <2>3, UnderBefore
    <2>5. m - 1 # k /\ c <= m - 1
      BY <1>1, <2>2, <2>4
    <2>6. WrittenTo(before, g, k, m - 1)
      BY <2>5
    <2>7. ASSUME NEW d \in Children(k), d <= m - 1, Under(d, m - 1) PROVE d = c
      BY <1>1, <2>4, <2>5, <2>7, ChildrenOver
    <2>8. WrittenTo(before, g, k, m)
      <3>1. Good(before)
        BY <2>6 DEF WrittenTo
      <3>2. before.result = "ok" => before.bytes = g[Stop(c)]
        BY <2>6, <2>7 DEF WrittenTo
      <3> QED BY <2>2, <3>1, <3>2 DEF WrittenTo
    <2> QED BY <2>1, <2>8
  <1> QED BY <1>2, <1>3

LEMMA JoinedChildren ==
  ASSUME InTextOrder, \A x \in DOMAIN nodes : nodes[x].offset = NextStart(x - 1),
         NEW k \in 0..Len(nodes), NEW ks, ks \subseteq Children(k), NEW encs, NEW g,
         Grows(g, k, ks, encs)
  PROVE  /\ Good(Joined(encs, ks, Len(nodes)))
         /\ Joined(encs, ks, Len(nodes)).result = "ok" =>
              Joined(encs, ks, Len(nodes)).bytes = g[Stop(k)]
  <1> DEFINE n == Len(nodes)
  <1>1. n \in Nat /\ DOMAIN nodes = 1..n
    BY OrderFacts
  <1>2. PICK f : ComesTo(f, encs, ks, n) /\ Joined(encs, ks, n) = f[n]
    BY <1>1, JoinedIs
  <1>3. /\ f[0] = Nothing
        /\ \A m \in 1..n : f[m] = IF m \in ks THEN Then(f[m - 1], encs[m]) ELSE f[m - 1]
    BY <1>1, <1>2, ComesToBySteps
  <1>4. PICK e : LastUnder(k, e)
    BY SomeLast
  <1>5. e \in 0..n /\ k <= e /\ Under(k, e) /\ k \in 0..n /\ k \in Nat /\ e \in Nat
    BY <1>1, <1>4 DEF LastUnder
  <1>6. \A c \in ks : c \in 1..n /\ k < c /\ Under(k, c)
    BY ChildFacts
  <1>7. Stop(k) = NextStart(e)
    BY <1>4, StopIs
  <1> DEFINE Holds(m) == /\ m <= k => f[m] = Nothing
                         /\ ~(m <= k) /\ m <= e => WrittenTo(f[m], g, k, m)
                         /\ ~(m <= k) /\ ~(m <= e) => f[m] = f[e]
             S == {m \in 0..n : Holds(m)}
  <1>8. 0 \in S
    <2>1. 0 <= k /\ 0 \in 0..n
      BY <1>1, <1>5
    <2> QED BY <1>3, <2>1
  <1>9. ASSUME NEW m \in 1..n, m - 1 \in S PROVE m \in S
    <2>1. m \in DOMAIN nodes /\ m \in 0..n /\ m - 1 \in 0..n
          /\ f[m] = IF m \in ks THEN Then(f[m - 1], encs[m]) ELSE f[m - 1]
      BY <1>1, <1>3
    <2>2. Holds(m - 1)
      BY <1>9
    <2>3. CASE m <= k
      <3>1. m - 1 <= k /\ m \notin ks
        BY <1>1, <1>5, <1>6, <2>3
      <3>2. f[m] = f[m - 1] /\ f[m - 1] = Nothing
        BY <2>1, <2>2, <3>1
      <3> QED BY <2>1, <2>3, <3>2
    <2>4. CASE m > k /\ m <= e
      <3>1. Under(k, m)
        BY <1>5, <2>1, <2>4, UnderBetween
      <3>2. m - 1 = k => f[m - 1] = Nothing
        BY <1>5, <2>2
      <3>3. m - 1 # k => WrittenTo(f[m - 1], g, k, m - 1)
        <4>1. m - 1 # k => ~(m - 1 <= k) /\ m - 1 <= e
          BY <1>1, <1>5, <2>1, <2>4
        <4> QED BY <2>2, <4>1
      <3> DEFINE before == f[m - 1]
      <3> HIDE DEF before
      <3>4. WrittenTo(IF m \in ks THEN Then(before, encs[m]) ELSE before, g, k, m)
        <4>1. k < m /\ (m - 1 = k => before = Nothing)
              /\ (m - 1 # k => WrittenTo(before, g, k, m - 1))
          BY <2>4, <3>2, <3>3 DEF before
        <4> QED BY <2>1, <3>1, <4>1, ChildStep
      <3>5. WrittenTo(f[m], g, k, m)
        BY <2>1, <3>4 DEF before
      <3>6. ~(m <= k)
        BY <1>5, <2>1, <2>4
      <3> QED BY <2>1, <2>4, <3>5, <3>6
    <2>5. CASE m > e
      <3>1. m \notin ks
        BY <1>4, <1>6, <2>1, <2>5 DEF LastUnder
      <3>2. ~(m <= k) /\ ~(m <= e)
        BY <1>5, <2>1, <2>5
      <3>3. f[m - 1] = f[e]
        <4>1. CASE m - 1 = e
          BY <4>1
        <4>2. CASE m - 1 # e
          <5>1. ~(m - 1 <= k) /\ ~(m - 1 <= e)
            BY <1>5, <2>1, <2>5, <4>2
          <5> QED BY <2>2, <5>1
        <4> QED BY <4>1, <4>2
      <3> QED BY <2>1, <3>1, <3>2, <3>3
    <2> QED BY <1>5, <2>1, <2>3, <2>4, <2>5
  <1> HIDE DEF S
  <1>10. 0..n \subseteq S
    BY <1>1, <1>8, <1>9, BoundedInduction
  <1>11. Holds(e) /\ Holds(n)
    <2>1. e \in S /\ n \in S
      BY <1>1, <1>5, <1>10
    <2> QED BY <2>1 DEF S
  <1>12. f[n] = f[e]
    <2>1. CASE n = e
      BY <2>1
    <2>2. CASE n # e
      <3>1. e < n
        <4>1. n \in Nat /\ e \in Nat /\ e <= n
          BY <1>1, <1>5
        <4> HIDE DEF n
        <4> QED BY <2>2, <4>1
      <3>2. ~(n <= k) /\ ~(n <= e)
        BY <1>1, <1>5, <3>1
      <3> QED BY <1>11, <3>2
    <2> QED BY <2>1, <2>2
  <1>13. Good(f[e]) /\ (f[e].result = "ok" => f[e].bytes = g[Stop(k)])
    <2>1. CASE e = k
      <3>1. f[e] = Nothing
        BY <1>5, <1>11, <2>1
      <3> QED BY <1>7, <2>1, <3>1 DEF Nothing, Good, Grows
    <2>2. CASE e # k
      <3>1. WrittenTo(f[e], g, k, e)
        <4>1. ~(e <= k) /\ e <= e
          BY <1>5, <2>2
        <4> QED BY <1>11, <4>1
      <3> SUFFICES ASSUME f[e].result = "ok" PROVE f[e].bytes = g[Stop(k)]
        BY <3>1 DEF WrittenTo
      <3>2. PICK c \in Children(k) : c <= e /\ Under(c, e) /\ f[e].bytes = g[Stop(c)]
        BY <3>1 DEF WrittenTo
      <3>3. c \in 0..n
        <4>1. c \in 1..n
          BY ChildFacts
        <4> QED BY <1>1, <4>1
      <3>4. LastUnder(c, e)
        <4>1. ASSUME NEW m \in DOMAIN nodes, m > e, Under(c, m) PROVE FALSE
          <5>1. Under(k, m)
            BY <4>1, ChildFacts
          <5> QED BY <1>4, <4>1, <5>1 DEF LastUnder
        <4> QED BY <1>5, <3>2, <4>1 DEF LastUnder
      <3>5. Stop(c) = NextStart(e)
        BY <3>3, <3>4, StopIs
      <3> QED BY <1>7, <3>2, <3>5
    <2> QED BY <2>1, <2>2
  <1> QED BY <1>2, <1>12, <1>13

-----------------------------------------------------------------------------
(* A tree that was read to its end is encoded as it was read.              *)

\* The elements of a tree that was read are typed, its children's parents masters.
LEMMA WellReadFacts ==
  ASSUME WellRead
  PROVE  /\ TreeStrong /\ edits = 0 /\ ~RunsPast /\ AtItsEnd /\ InTextOrder
         /\ \A k \in DOMAIN nodes : AsRead(k)
         /\ \A k \in DOMAIN nodes : nodes[k].offset = NextStart(k - 1)
         /\ IsSequence(Text[doc]) /\ Len(Text[doc]) \in Nat
  BY ReadInOrder, TextIs, StartsAre DEF WellRead

\* Nothing is under an element without children.
LEMMA ChildlessStop ==
  ASSUME InTextOrder, NEW k \in 0..Len(nodes), Children(k) = {}
  PROVE  Stop(k) = NextStart(k)
  <1>1. Len(nodes) \in Nat /\ DOMAIN nodes = 1..Len(nodes)
    BY OrderFacts
  <1>2. ASSUME NEW m \in DOMAIN nodes, m > k, Under(k, m) PROVE FALSE
    <2>1. k # m
      BY <1>1, <1>2
    <2> QED BY <1>2, <2>1, ChildOver
  <1>3. k <= k /\ Under(k, k)
    BY <1>1 DEF Under
  <1>4. LastUnder(k, k)
    BY <1>2, <1>3 DEF LastUnder
  <1> QED BY <1>4, StopIs

\* A declared master stops at its declared end.
LEMMA DeclaredStop ==
  ASSUME WellRead, NEW k \in DOMAIN nodes, Declared(k)
  PROVE  Stop(k) = EndOf(k)
  <1>1. /\ TreeStrong /\ edits = 0 /\ ~RunsPast /\ AtItsEnd /\ InTextOrder
        /\ \A m \in DOMAIN nodes : AsRead(m)
    BY WellReadFacts
  <1>2. Len(nodes) \in Nat /\ DOMAIN nodes = 1..Len(nodes)
    BY OrderFacts, <1>1
  <1>3. k \in 0..Len(nodes) /\ k # 0
    BY <1>2
  <1>4. PICK e : LastUnder(k, e)
    BY <1>1, <1>3, SomeLast
  <1>5. Stop(k) = NextStart(e) /\ e \in 0..Len(nodes) /\ k <= e /\ Under(k, e)
    BY <1>1, <1>3, <1>4, StopIs DEF LastUnder
  <1>6. e \in DOMAIN nodes
    BY <1>2, <1>3, <1>5
  <1>7. EndOf(k) \in Nat /\ Stop(k) \in Nat
    <2>1. EndOf(k) \in Nat
      BY <1>1, NodesTyped DEF Declared, TreeStrong
    <2>2. NextStart(e) \in Nat
      BY <1>1, <1>6, StartsAre
    <2> QED BY <1>5, <2>1, <2>2
  <1>8. Stop(k) <= EndOf(k)
    <2>1. CASE e = k
      <3>1. NextStart(k) = nodes[k].offset + nodes[k].headerLen
            /\ nodes[k].offset \in Nat /\ nodes[k].headerLen \in Nat
        BY <1>1, StartsAre DEF Declared
      <3>2. nodes[k].size \in Nat
        BY <1>1, NodesTyped DEF Declared, TreeStrong
      <3> QED BY <1>5, <2>1, <3>1, <3>2 DEF EndOf
    <2>2. CASE e # k
      <3>1. k \in Ancestors[e]
        BY <1>3, <1>5, <2>2 DEF Under
      <3>2. /\ ~(nodes[e].offset + nodes[e].headerLen > EndOf(k))
            /\ nodes[e].size # UnknownSize => ~(EndOf(e) > EndOf(k))
        BY <1>1, <1>6, <3>1 DEF RunsPast, Declared
      <3>3. /\ IsMaster(e) => NextStart(e) = nodes[e].offset + nodes[e].headerLen
            /\ ~IsMaster(e) => nodes[e].size # UnknownSize /\ NextStart(e) = EndOf(e)
        BY <1>1, <1>6, StartsAre DEF AsRead
      <3> QED BY <1>5, <1>7, <3>2, <3>3
    <2> QED BY <2>1, <2>2
  <1>9. EndOf(k) <= Stop(k)
    <2>1. PICK x \in DOMAIN nodes : Under(k, x) /\ EndOf(k) <= NextStart(x)
      BY <1>1 DEF AtItsEnd, Passed
    <2>2. k <= x /\ NextStart(x) \in Nat
      <3>1. x = k \/ k < x
        BY <1>1, <1>3, <2>1, OrderFacts DEF Under
      <3> QED BY <1>1, <1>2, <3>1, StartsAre
    <2>3. NextStart(x) <= Stop(k)
      BY <1>1, <1>3, <2>1, <2>2, StopFacts
    <2> QED BY <1>7, <2>1, <2>2, <2>3
  <1> QED BY <1>7, <1>8, <1>9

\* The encoding of k is what the text has from where k begins to where it stops.
EncodedAsRead(k) ==
  /\ Good(Encodings[k])
  /\ Encodings[k].result = "ok" =>
       Encodings[k].bytes = Slice(Text[doc], nodes[k].offset, Stop(k))

\* Slices grow with the children that are encoded as they were read.
LEMMA SlicesGrow ==
  ASSUME WellRead, NEW k \in 0..Len(nodes), \A c \in Children(k) : EncodedAsRead(c),
         NEW g, g = [x \in 0..Len(Text[doc]) |-> Slice(Text[doc], NextStart(k), x)]
  PROVE  Grows(g, k, Children(k), Encodings)
  <1> DEFINE T == Text[doc]
  <1>1. /\ TreeStrong /\ edits = 0 /\ InTextOrder /\ \A m \in DOMAIN nodes : AsRead(m)
        /\ IsSequence(T) /\ Len(T) \in Nat
        /\ \A m \in DOMAIN nodes : nodes[m].offset = NextStart(m - 1)
    BY WellReadFacts
  <1>2. Len(nodes) \in Nat /\ DOMAIN nodes = 1..Len(nodes)
    BY OrderFacts, <1>1
  <1>3. NextStart(k) \in 0..Len(T)
    BY <1>1, StartsAre
  <1>4. g[NextStart(k)] = << >>
    <2> DEFINE a == NextStart(k)
    <2>1. a \in 0..Len(T) /\ a \in a..Len(T) /\ g[a] = Slice(T, a, a)
      BY <1>1, <1>3
    <2> HIDE DEF a, T
    <2>2. Slice(T, a, a) = << >>
      BY <1>1, <2>1, SliceIs
    <2> QED BY <2>1, <2>2 DEF a
  <1>5. ASSUME NEW c \in Children(k), Encodings[c].result = "ok"
        PROVE  g[Stop(c)] = g[nodes[c].offset] \o Encodings[c].bytes
    <2>1. c \in 1..Len(nodes) /\ k < c
      BY <1>1, ChildFacts
    <2>2. c \in DOMAIN nodes /\ c \in 0..Len(nodes) /\ c - 1 \in 0..Len(nodes) /\ k \in 0..(c - 1)
      BY <1>2, <2>1
    <2>3. nodes[c].offset = NextStart(c - 1) /\ NextStart(k) <= NextStart(c - 1)
      BY <1>1, <2>2, StartsGrow
    <2>4. nodes[c].offset \in 0..Len(T) /\ Stop(c) \in 0..Len(T)
      BY <1>1, <2>2, <2>3, StartsAre, StopFacts
    <2>5. nodes[c].offset <= Stop(c)
      <3>1. /\ nodes[c].offset \in Nat /\ nodes[c].headerLen \in Nat
            /\ nodes[c].offset + nodes[c].headerLen <= NextStart(c) /\ NextStart(c) \in Nat
        BY <1>1, <2>2, StartsAre
      <3>2. NextStart(c) <= Stop(c)
        BY <1>1, <2>2, StopFacts
      <3> QED BY <2>4, <3>1, <3>2
    <2> DEFINE a == NextStart(k)
               b == nodes[c].offset
               z == Stop(c)
    <2>6. a \in 0..Len(T) /\ b \in a..Len(T) /\ z \in b..Len(T)
          /\ b \in 0..Len(T) /\ z \in 0..Len(T)
      BY <1>1, <1>3, <2>3, <2>4, <2>5
    <2>7. g[b] = Slice(T, a, b) /\ g[z] = Slice(T, a, z)
      BY <2>4
    <2>8. Encodings[c].bytes = Slice(T, b, z)
      BY <1>5 DEF EncodedAsRead
    <2> HIDE DEF a, b, z, T
    <2>9. Slice(T, a, b) \o Slice(T, b, z) = Slice(T, a, z)
      BY <1>1, <2>6, SlicesJoin
    <2>10. g[z] = g[b] \o Encodings[c].bytes
      BY <2>7, <2>8, <2>9
    <2> QED BY <2>10 DEF b, z
  <1> QED BY <1>4, <1>5 DEF Grows, EncodedAsRead

\* What follows the header of k is its data as read.
LEMMA BodyAsRead ==
  ASSUME WellRead, NEW k \in DOMAIN nodes, \A c \in Children(k) : EncodedAsRead(c),
         NEW body, body = Body(nodes, Encodings, k)
  PROVE  /\ Good(body)
         /\ body.result = "ok" /\ ~nodes[k].truncated =>
              body.bytes = Slice(Text[doc], nodes[k].offset + nodes[k].headerLen, Stop(k))
  <1> DEFINE T == Text[doc]
             a == nodes[k].offset + nodes[k].headerLen
  <1>1. /\ TreeStrong /\ edits = 0 /\ InTextOrder /\ \A m \in DOMAIN nodes : AsRead(m)
        /\ IsSequence(T) /\ Len(T) \in Nat
        /\ \A m \in DOMAIN nodes : nodes[m].offset = NextStart(m - 1)
    BY WellReadFacts
  <1>2. Len(nodes) \in Nat /\ DOMAIN nodes = 1..Len(nodes) /\ k \in 0..Len(nodes) /\ k # 0
    <2>1. Len(nodes) \in Nat /\ DOMAIN nodes = 1..Len(nodes)
      BY OrderFacts, <1>1
    <2> QED BY <2>1
  <1>3. /\ nodes[k].offset \in Nat /\ nodes[k].headerLen \in Nat /\ a <= NextStart(k)
        /\ IsMaster(k) => NextStart(k) = a
        /\ ~IsMaster(k) => nodes[k].size \in Nat /\ NextStart(k) = EndOf(k)
        /\ NextStart(k) \in Nat /\ NextStart(k) <= Len(T)
    BY <1>1, StartsAre
  <1>4. a \in 0..Len(T)
    BY <1>1, <1>3
  <1>5. CASE Children(k) = {}
    <2>1. body = [result |-> "ok", bytes |-> nodes[k].payload]
      BY <1>5 DEF Body, Children
    <2>2. Good(body) /\ body.bytes = nodes[k].payload
      BY <2>1 DEF Good
    <2>3. Stop(k) = NextStart(k)
      BY <1>1, <1>2, <1>5, ChildlessStop
    <2>4. CASE IsMaster(k)
      <3>1. nodes[k].payload = << >>
        BY <1>1, <2>4 DEF TreeStrong, ParentsInv
      <3>2. Slice(T, a, a) = << >>
        <4> HIDE DEF a, T
        <4>1. a \in a..Len(T)
          BY <1>1, <1>4
        <4> QED BY <1>1, <1>4, <4>1, SliceIs
      <3> QED BY <1>3, <2>2, <2>3, <2>4, <3>1, <3>2
    <2>5. CASE ~IsMaster(k)
      <3> SUFFICES ASSUME ~nodes[k].truncated PROVE body.bytes = Slice(T, a, Stop(k))
        BY <2>2
      <3>1. ~TooLarge(nodes[k])
        BY <1>1, <2>5 DEF AsRead
      <3>2. PrefixIsKept
        BY <1>1 DEF TreeStrong, ReadInv
      <3>3. nodes[k].payload = SubSeq(T, EndOf(k) - nodes[k].size + 1, EndOf(k))
        BY <1>1, <2>5, <3>1, <3>2 DEF PrefixIsKept
      <3>4. EndOf(k) - nodes[k].size = a
        BY <1>3, <2>5 DEF EndOf
      <3> HIDE DEF a
      <3> QED BY <1>3, <2>2, <2>3, <2>5, <3>3, <3>4 DEF Slice
    <2> QED BY <2>4, <2>5
  <1>6. CASE Children(k) # {}
    <2>1. body = Joined(Encodings, Children(k), Len(nodes))
      BY <1>6 DEF Body, Children
    <2>2. IsMaster(k)
      <3>1. PICK c \in Children(k) : TRUE
        BY <1>6
      <3>2. c \in DOMAIN nodes /\ nodes[c].parent = k
        BY DEF Children, ChildrenAmong
      <3>3. nodes[c].parent # 0 => IsMaster(nodes[c].parent)
        BY <1>1, <3>2 DEF TreeStrong, ParentsInv
      <3> QED BY <1>2, <3>2, <3>3
    <2> DEFINE g == [x \in 0..Len(Text[doc]) |-> Slice(Text[doc], NextStart(k), x)]
    <2>3. g = [x \in 0..Len(Text[doc]) |-> Slice(Text[doc], NextStart(k), x)]
      OBVIOUS
    <2>4. g[Stop(k)] = Slice(Text[doc], NextStart(k), Stop(k))
      <3>1. Stop(k) \in 0..Len(Text[doc])
        BY <1>1, <1>2, StopFacts
      <3> QED BY <3>1
    <2> HIDE DEF g
    <2>5. Grows(g, k, Children(k), Encodings)
      BY <1>2, <2>3, SlicesGrow
    <2> DEFINE ks == Children(k)
               encs == Encodings
    <2>6. ks \subseteq Children(k) /\ Grows(g, k, ks, encs)
      BY <2>5
    <2> HIDE DEF ks, encs
    <2>7. /\ Good(Joined(encs, ks, Len(nodes)))
          /\ Joined(encs, ks, Len(nodes)).result = "ok" => Joined(encs, ks, Len(nodes)).bytes = g[Stop(k)]
      BY <1>1, <1>2, <2>6, JoinedChildren
    <2>8. body = Joined(encs, ks, Len(nodes))
      BY <2>1 DEF encs, ks
    <2> QED BY <1>3, <2>2, <2>4, <2>7, <2>8
  <1> QED BY <1>5, <1>6

\* It is encoded behind the header it was read with.
LEMMA EncodedBehindHeader ==
  ASSUME WellRead, NEW k \in DOMAIN nodes, \A c \in Children(k) : EncodedAsRead(c)
  PROVE  EncodedAsRead(k)
  <1> DEFINE T == Text[doc]
             e == nodes[k]
             a == e.offset + e.headerLen
             width == e.headerLen - IDWidth[e.id]
             body == Body(nodes, Encodings, k)
             n == Len(body.bytes)
  <1>1. /\ TreeStrong /\ edits = 0 /\ InTextOrder /\ \A m \in DOMAIN nodes : AsRead(m)
        /\ IsSequence(T) /\ Len(T) \in Nat
    BY WellReadFacts
  <1>2. Len(nodes) \in Nat /\ DOMAIN nodes = 1..Len(nodes) /\ k \in 0..Len(nodes) /\ k # 0
    <2>1. Len(nodes) \in Nat /\ DOMAIN nodes = 1..Len(nodes)
      BY OrderFacts, <1>1
    <2> QED BY <2>1
  <1>3. /\ e.offset \in Nat /\ e.headerLen \in Nat /\ a <= NextStart(k)
        /\ ~IsMaster(k) => e.size \in Nat /\ NextStart(k) = EndOf(k)
        /\ NextStart(k) \in Nat /\ NextStart(k) <= Len(T)
        /\ e.size \in Nat \cup {UnknownSize}
    BY <1>1, StartsAre, NodesTyped DEF TreeStrong
  <1>4. Stop(k) \in 0..Len(T) /\ NextStart(k) <= Stop(k)
    BY <1>1, <1>2, StopFacts
  <1>5. /\ e.id \notin IllFormedID
        /\ SaysItsSize([sizeLen |-> width, size |-> e.size])
        /\ Slice(T, e.offset, a) = HeaderBytes([id |-> e.id, sizeLen |-> width, size |-> e.size])
        /\ (e.truncated <=> (~IsMaster(k) /\ TooLarge(e)))
    BY <1>1 DEF AsRead
  <1>6. /\ Good(body)
        /\ body.result = "ok" /\ ~e.truncated => body.bytes = Slice(T, a, Stop(k))
    <2> DEFINE b == Body(nodes, Encodings, k)
    <2>1. b = Body(nodes, Encodings, k)
      OBVIOUS
    <2> HIDE DEF b
    <2>2. /\ Good(b)
          /\ b.result = "ok" /\ ~nodes[k].truncated =>
               b.bytes = Slice(Text[doc], nodes[k].offset + nodes[k].headerLen, Stop(k))
      BY <2>1, BodyAsRead
    <2> QED BY <2>1, <2>2
  <1>7. Encodings[k] = Encoding(e, body)
    <2>1. Parented(nodes)
      BY <1>1 DEF InTextOrder
    <2> QED BY <2>1, EncodingsAre DEF Encodings
  <1>8. e.truncated => cap >= 0
    BY <1>5 DEF TooLarge
  <1> HIDE DEF body
  <1>9. CASE e.truncated
    <2>1. Encodings[k].result = "TruncatedPayload"
      BY <1>7, <1>9 DEF Encoding
    <2> QED BY <1>8, <1>9, <2>1 DEF EncodedAsRead, Good
  <1>10. CASE ~e.truncated /\ body.result # "ok"
    <2>1. Encodings[k].result = body.result
      BY <1>7, <1>10 DEF Encoding
    <2> QED BY <1>6, <1>10, <2>1 DEF EncodedAsRead, Good
  <1>11. CASE ~e.truncated /\ body.result = "ok"
    <2>1. body.bytes = Slice(T, a, Stop(k))
      BY <1>6, <1>11
    <2>2. e.offset \in 0..Len(T) /\ a \in 0..Len(T) /\ a \in e.offset..Len(T)
          /\ Stop(k) \in a..Len(T) /\ Stop(k) \in e.offset..Len(T)
      BY <1>1, <1>3, <1>4
    <2>3. n = Stop(k) - a
      <3> DEFINE z == Stop(k)
      <3> HIDE DEF a, z, T
      <3>1. Len(Slice(T, a, z)) = z - a
        BY <1>1, <2>2, SliceIs DEF z
      <3> QED BY <2>1, <3>1 DEF z
    <2>4. e.size # UnknownSize => n = e.size
      <3> SUFFICES ASSUME e.size # UnknownSize PROVE n = e.size
        OBVIOUS
      <3>1. Stop(k) = EndOf(k)
        <4>1. CASE IsMaster(k)
          BY <4>1, DeclaredStop DEF Declared
        <4>2. CASE ~IsMaster(k)
          <5>1. Children(k) = {}
            <6> SUFFICES ASSUME NEW c \in Children(k) PROVE FALSE
              OBVIOUS
            <6>1. c \in DOMAIN nodes /\ nodes[c].parent = k
              BY DEF Children, ChildrenAmong
            <6>2. nodes[c].parent # 0 => IsMaster(nodes[c].parent)
              BY <1>1, <6>1 DEF TreeStrong, ParentsInv
            <6> QED BY <1>2, <4>2, <6>1, <6>2
          <5> QED BY <1>1, <1>2, <1>3, <4>2, <5>1, ChildlessStop
        <4> QED BY <4>1, <4>2
      <3>2. e.size \in Nat
        BY <1>3
      <3> HIDE DEF n
      <3> QED BY <1>3, <2>3, <3>1, <3>2 DEF EndOf
    <2>5. /\ width \in 1..MaxSizeWidth
          /\ e.size # UnknownSize => SizeWidthResult(e.size, width) = "ok" /\ ~(e.size > MaxKnownSize)
      BY <1>5 DEF SaysItsSize
    <2>6. HeaderError(e, n) = "ok"
      <3>1. e.size # UnknownSize => ~(n > MaxKnownSize)
        <4> HIDE DEF n
        <4> QED BY <2>4, <2>5
      <3> QED BY <1>5, <3>1 DEF HeaderError
    <2>7. SizeField(e, n) = IF e.size = UnknownSize THEN UnknownSizeVINTWidth(width)
                            ELSE SizeBytes(e.size, width)
      BY <2>4, <2>5 DEF SizeField
    <2>8. EncodeID(e.id) \o SizeField(e, n) = Slice(T, e.offset, a)
      BY <1>5, <2>7 DEF HeaderBytes
    <2>9. Encodings[k] = [result |-> "ok", bytes |-> EncodeID(e.id) \o SizeField(e, n) \o body.bytes]
      BY <1>7, <1>11, <2>6 DEF Encoding
    <2>10. Encodings[k].result = "ok" /\ Encodings[k].bytes = Slice(T, e.offset, Stop(k))
      <3> DEFINE x == e.offset
                 z == Stop(k)
      <3>1. x \in 0..Len(T) /\ a \in x..Len(T) /\ z \in a..Len(T)
        BY <2>2
      <3> HIDE DEF a, x, z, T, n
      <3>2. Slice(T, x, a) \o Slice(T, a, z) = Slice(T, x, z)
        BY <1>1, <3>1, SlicesJoin
      <3> QED BY <2>1, <2>8, <2>9, <3>2 DEF x, z
    <2> QED BY <2>10 DEF EncodedAsRead, Good
  <1> QED BY <1>9, <1>10, <1>11

LEMMA AllEncodedAsRead == WellRead => \A k \in DOMAIN nodes : EncodedAsRead(k)
  <1> SUFFICES ASSUME WellRead PROVE \A k \in DOMAIN nodes : EncodedAsRead(k)
    OBVIOUS
  <1> DEFINE n == Len(nodes)
             S == {m \in 0..n : \A k \in DOMAIN nodes : k > m => EncodedAsRead(k)}
  <1>1. InTextOrder
    BY WellReadFacts
  <1>2. n \in Nat /\ DOMAIN nodes = 1..n
    BY <1>1, OrderFacts
  <1>3. n \in S
    BY <1>2
  <1>4. ASSUME NEW m \in 0..(n - 1), m + 1 \in S PROVE m \in S
    <2>1. ASSUME NEW k \in DOMAIN nodes, k > m PROVE EncodedAsRead(k)
      <3>1. CASE k > m + 1
        BY <1>4, <3>1
      <3>2. CASE ~(k > m + 1)
        <4>1. k = m + 1 /\ k \in 0..Len(nodes)
          BY <1>2, <2>1, <3>2
        <4>2. ASSUME NEW c \in Children(k) PROVE EncodedAsRead(c)
          <5>1. c \in DOMAIN nodes /\ k < c
            BY <1>1, <4>1, ChildFacts
          <5> QED BY <1>2, <1>4, <4>1, <5>1
        <4> QED BY <4>2, EncodedBehindHeader
      <3> QED BY <3>1, <3>2
    <2> QED BY <1>2, <2>1
  <1> HIDE DEF S
  <1>5. 0..n \subseteq S
    BY <1>2, <1>3, <1>4, DownwardInduction
  <1>6. 0 \in S
    BY <1>2, <1>5
  <1> QED BY <1>2, <1>6 DEF S

\* What Marshal writes of such a tree is its text, if there is nothing that a cap elided.
LEMMA WrittenAsRead ==
  ASSUME WellRead
  PROVE  /\ Good(WriteOf(nodes))
         /\ WriteOf(nodes).result = "ok" => WriteOf(nodes).bytes = Text[doc]
  <1> DEFINE g == [x \in 0..Len(Text[doc]) |-> Slice(Text[doc], NextStart(0), x)]
             ks == Children(0)
             encs == Encodings
             zero == 0
  <1>1. /\ TreeStrong /\ edits = 0 /\ InTextOrder /\ AtItsEnd /\ \A m \in DOMAIN nodes : AsRead(m)
        /\ IsSequence(Text[doc]) /\ Len(Text[doc]) \in Nat
        /\ \A m \in DOMAIN nodes : nodes[m].offset = NextStart(m - 1)
    BY WellReadFacts
  <1>2. Len(nodes) \in Nat /\ DOMAIN nodes = 1..Len(nodes) /\ zero \in 0..Len(nodes)
        /\ Len(nodes) \in 0..Len(nodes) /\ zero <= Len(nodes)
    <2>1. Len(nodes) \in Nat /\ DOMAIN nodes = 1..Len(nodes)
      BY OrderFacts, <1>1
    <2> QED BY <2>1
  <1>3. LastUnder(zero, Len(nodes))
    <2>1. Under(zero, Len(nodes))
      BY DEF Under
    <2>2. \A m \in DOMAIN nodes : ~(m > Len(nodes))
      BY <1>2
    <2> HIDE DEF zero
    <2> QED BY <1>2, <2>1, <2>2 DEF LastUnder
  <1>4. NextStart(0) = 0
    BY DEF NextStart
  <1>5. Stop(zero) = Len(Text[doc])
    <2> HIDE DEF zero
    <2>1. Stop(zero) = NextStart(Len(nodes))
      BY <1>1, <1>2, <1>3, StopIs
    <2> QED BY <1>1, <2>1 DEF AtItsEnd
  <1>6. g[Stop(zero)] = Text[doc]
    <2>1. g[Len(Text[doc])] = Slice(Text[doc], NextStart(0), Len(Text[doc]))
      BY <1>1
    <2>2. Slice(Text[doc], 0, Len(Text[doc])) = Text[doc]
      BY <1>1, SliceOfAll
    <2> HIDE DEF g, zero
    <2> QED BY <1>4, <1>5, <2>1, <2>2
  <1>7. g = [x \in 0..Len(Text[doc]) |-> Slice(Text[doc], NextStart(zero), x)] /\ ks = Children(zero)
    OBVIOUS
  <1> HIDE DEF g, zero
  <1>8. Grows(g, zero, Children(zero), Encodings)
    <2>1. \A c \in Children(zero) : EncodedAsRead(c)
      BY AllEncodedAsRead DEF Children, ChildrenAmong
    <2> QED BY <1>2, <1>7, <2>1, SlicesGrow
  <1>9. ks \subseteq Children(zero) /\ Grows(g, zero, ks, encs)
    BY <1>7, <1>8
  <1>10. WriteOf(nodes) = Joined(encs, ks, Len(nodes))
    BY DEF WriteOf, Encodings, Children
  <1> HIDE DEF ks, encs
  <1>11. /\ Good(Joined(encs, ks, Len(nodes)))
         /\ Joined(encs, ks, Len(nodes)).result = "ok" =>
              Joined(encs, ks, Len(nodes)).bytes = g[Stop(zero)]
    BY <1>1, <1>2, <1>9, JoinedChildren
  <1> QED BY <1>6, <1>10, <1>11

-----------------------------------------------------------------------------
(* The checksum of a tree that was read to its end.                        *)

\* Nothing fails in a row of encodings of which none fails.
LEMMA JoinedGood ==
  ASSUME NEW n \in Nat, NEW encs, NEW ks, \A k \in ks : Good(encs[k])
  PROVE  Good(Joined(encs, ks, n))
  <1>1. PICK f : ComesTo(f, encs, ks, n) /\ Joined(encs, ks, n) = f[n]
    BY JoinedIs
  <1>2. /\ f[0] = Nothing
        /\ \A m \in 1..n : f[m] = IF m \in ks THEN Then(f[m - 1], encs[m]) ELSE f[m - 1]
    BY <1>1, ComesToBySteps
  <1> DEFINE S == {m \in 0..n : Good(f[m])}
  <1>3. 0 \in S
    <2>1. Good(f[0])
      BY <1>2 DEF Good, Nothing
    <2>2. 0 \in 0..n
      OBVIOUS
    <2> QED BY <2>1, <2>2
  <1>4. ASSUME NEW m \in 1..n, m - 1 \in S PROVE m \in S
    <2>1. Good(f[m - 1]) /\ m \in 0..n
      BY <1>4
    <2>2. CASE m \in ks
      <3>1. f[m] = Then(f[m - 1], encs[m]) /\ Good(encs[m])
        BY <1>2, <2>2
      <3>2. Good(f[m])
        BY <2>1, <3>1 DEF Good, Then
      <3> QED BY <2>1, <3>2
    <2>3. CASE m \notin ks
      <3>1. f[m] = f[m - 1]
        BY <1>2, <2>3
      <3> QED BY <2>1, <3>1
    <2> QED BY <2>2, <2>3
  <1> HIDE DEF S
  <1>5. 0..n \subseteq S
    BY <1>3, <1>4, BoundedInduction
  <1>6. n \in S
    BY <1>5
  <1> QED BY <1>1, <1>6 DEF S

\* A checksum is a leaf of its bytes, unless a cap elided them.
LEMMA StoredIs ==
  ASSUME WellRead, NEW k \in DOMAIN nodes, NEW j \in Children(k), nodes[j].id = CRC
  PROVE  /\ j \in DOMAIN nodes /\ IsMaster(k) /\ ~IsMaster(j)
         /\ EndOf(j) = NextStart(j) /\ EndOf(j) \in 0..Len(Text[doc])
         /\ nodes[j].offset \in 0..Len(Text[doc]) /\ nodes[j].offset < EndOf(j)
         /\ nodes[j].truncated => cap >= 0
         /\ nodes[j].size = 4 /\ ~nodes[j].truncated =>
              /\ nodes[j].payload = SubSeq(Text[doc], EndOf(j) - 3, EndOf(j))
              /\ Len(nodes[j].payload) = 4
  <1>1. /\ TreeStrong /\ edits = 0 /\ InTextOrder /\ \A m \in DOMAIN nodes : AsRead(m)
        /\ IsSequence(Text[doc]) /\ Len(Text[doc]) \in Nat
    BY WellReadFacts
  <1>2. j \in DOMAIN nodes /\ nodes[j].parent = k /\ k # 0
    <2>1. Len(nodes) \in Nat /\ DOMAIN nodes = 1..Len(nodes)
      BY <1>1, OrderFacts
    <2> QED BY <2>1 DEF Children, ChildrenAmong
  <1>3. IsMaster(k)
    BY <1>1, <1>2 DEF TreeStrong, ParentsInv
  <1>4. ~IsMaster(j)
    <2>1. nodes[j].id \in ElementID
      BY <1>1, <1>2 DEF TreeStrong, ParseTypes, IsNode
    <2> QED BY <2>1, TreeAssumption DEF IsMaster
  <1>5. /\ nodes[j].offset \in Nat /\ nodes[j].headerLen \in Nat /\ nodes[j].size \in Nat
        /\ nodes[j].offset < nodes[j].offset + nodes[j].headerLen
        /\ NextStart(j) = EndOf(j) /\ NextStart(j) \in Nat /\ NextStart(j) <= Len(Text[doc])
    BY <1>1, <1>2, <1>4, StartsAre
  <1>6. EndOf(j) \in 0..Len(Text[doc]) /\ nodes[j].offset \in 0..Len(Text[doc])
        /\ nodes[j].offset < EndOf(j)
    BY <1>1, <1>5 DEF EndOf
  <1>7. nodes[j].truncated <=> TooLarge(nodes[j])
    BY <1>1, <1>2, <1>4 DEF AsRead
  <1>8. ASSUME nodes[j].size = 4, ~nodes[j].truncated
        PROVE  /\ nodes[j].payload = SubSeq(Text[doc], EndOf(j) - 3, EndOf(j))
               /\ Len(nodes[j].payload) = 4
    <2> DEFINE a == EndOf(j) - 4
               b == EndOf(j)
    <2>1. a \in 0..Len(Text[doc]) /\ b \in a..Len(Text[doc]) /\ a + 1 = b - 3 /\ b - a = 4
      <3> DEFINE x == nodes[j].offset + nodes[j].headerLen
      <3>1. x \in Nat /\ b = x + 4
        BY <1>5, <1>8 DEF EndOf
      <3>2. b <= Len(Text[doc]) /\ Len(Text[doc]) \in Nat
        BY <1>1, <1>6
      <3> HIDE DEF x, b
      <3>3. a = b - 4
        BY DEF b
      <3> HIDE DEF a
      <3> QED BY <3>1, <3>2, <3>3
    <2>2. nodes[j].payload = SubSeq(Text[doc], b - 4 + 1, b)
      <3>1. PrefixIsKept
        BY <1>1 DEF TreeStrong, ReadInv
      <3>2. nodes[j].payload = SubSeq(Text[doc], EndOf(j) - nodes[j].size + 1, EndOf(j))
        BY <1>1, <1>2, <1>4, <1>7, <1>8, <3>1 DEF PrefixIsKept
      <3> QED BY <1>8, <3>2
    <2>3. b - 4 + 1 = b - 3
      BY <1>6
    <2> HIDE DEF a, b
    <2>4. Len(Slice(Text[doc], a, b)) = b - a
      BY <1>1, <2>1, SliceIs
    <2>5. Slice(Text[doc], a, b) = SubSeq(Text[doc], b - 3, b)
      BY <2>1 DEF Slice
    <2>6. nodes[j].payload = SubSeq(Text[doc], b - 3, b) /\ Len(nodes[j].payload) = 4
      BY <2>1, <2>2, <2>3, <2>4, <2>5
    <2> QED BY <2>6 DEF b
  <1> QED BY <1>2, <1>3, <1>4, <1>5, <1>6, <1>7, <1>8 DEF TooLarge

\* Slices of a data with the bytes of j left out.
AroundSlice(k, j, x) ==
  IF x <= nodes[j].offset THEN Slice(Text[doc], NextStart(k), x)
  ELSE Slice(Text[doc], NextStart(k), nodes[j].offset) \o Slice(Text[doc], EndOf(j), x)

\* They grow with the children that are not j.
LEMMA AroundGrows ==
  ASSUME WellRead, NEW k \in DOMAIN nodes, NEW j \in Children(k), nodes[j].id = CRC,
         NEW g, g = [x \in 0..Len(Text[doc]) |-> AroundSlice(k, j, x)]
  PROVE  Grows(g, k, Children(k) \ {j}, Encodings)
  <1> DEFINE T == Text[doc]
             a == NextStart(k)
             oj == nodes[j].offset
             ej == EndOf(j)
  <1>1. /\ TreeStrong /\ edits = 0 /\ InTextOrder /\ \A m \in DOMAIN nodes : AsRead(m)
        /\ IsSequence(T) /\ Len(T) \in Nat
        /\ \A m \in DOMAIN nodes : nodes[m].offset = NextStart(m - 1)
    BY WellReadFacts
  <1>2. Len(nodes) \in Nat /\ DOMAIN nodes = 1..Len(nodes) /\ k \in 0..Len(nodes)
    <2>1. Len(nodes) \in Nat /\ DOMAIN nodes = 1..Len(nodes)
      BY <1>1, OrderFacts
    <2> QED BY <2>1
  <1>3. /\ j \in DOMAIN nodes /\ ~IsMaster(j) /\ ej = NextStart(j)
        /\ ej \in 0..Len(T) /\ oj \in 0..Len(T) /\ oj < ej
    BY StoredIs
  <1>4. j \in 1..Len(nodes) /\ k < j /\ j - 1 \in 0..Len(nodes) /\ k \in 0..(j - 1)
        /\ j \in 0..Len(nodes)
    <2>1. k < j
      BY <1>1, <1>2, ChildFacts
    <2> QED BY <1>2, <1>3, <2>1
  <1>5. a \in 0..Len(T) /\ a <= oj
    <2>1. oj = NextStart(j - 1)
      BY <1>1, <1>3
    <2>2. NextStart(k) <= NextStart(j - 1)
      BY <1>1, <1>4, StartsGrow
    <2> QED BY <1>1, <1>2, <2>1, <2>2, StartsAre
  <1>6. \A x \in 0..Len(T) : g[x] = IF x <= oj THEN Slice(T, a, x) ELSE Slice(T, a, oj) \o Slice(T, ej, x)
    BY DEF AroundSlice
  <1>7. g[a] = << >>
    <2> HIDE DEF a, oj, ej, T
    <2>1. a \in a..Len(T)
      BY <1>1, <1>5
    <2>2. Slice(T, a, a) = << >>
      BY <1>1, <1>5, <2>1, SliceIs
    <2> QED BY <1>5, <1>6, <2>2
  <1>8. g[Stop(j)] = g[oj]
    <2>1. Children(j) = {}
      <3> SUFFICES ASSUME NEW c \in Children(j) PROVE FALSE
        OBVIOUS
      <3>1. c \in DOMAIN nodes /\ nodes[c].parent = j
        BY DEF Children, ChildrenAmong
      <3>2. nodes[c].parent # 0 => IsMaster(nodes[c].parent)
        BY <1>1, <3>1 DEF TreeStrong, ParentsInv
      <3>3. j # 0
        BY <1>4
      <3> QED BY <1>3, <3>1, <3>2, <3>3
    <2>2. Stop(j) = ej
      BY <1>1, <1>3, <1>4, <2>1, ChildlessStop
    <2> HIDE DEF a, oj, ej, T
    <2>3. oj \in a..Len(T) /\ ej \in ej..Len(T) /\ ~(ej <= oj)
      BY <1>1, <1>3, <1>5
    <2>4. Slice(T, ej, ej) = << >> /\ Slice(T, a, oj) \in Seq(Range(T))
      BY <1>1, <1>3, <1>5, <2>3, SliceIs
    <2>5. Slice(T, a, oj) \o << >> = Slice(T, a, oj)
      BY <2>4, ConcatEmptySeq
    <2>6. oj <= oj
      BY <1>3
    <2>7. g[oj] = Slice(T, a, oj)
      BY <1>3, <1>6, <2>6
    <2>8. g[ej] = Slice(T, a, oj) \o << >>
      BY <1>3, <1>6, <2>3, <2>4
    <2> QED BY <2>2, <2>5, <2>7, <2>8
  <1>9. ASSUME NEW c \in Children(k) \ {j}, Encodings[c].result = "ok"
        PROVE  g[Stop(c)] = g[nodes[c].offset] \o Encodings[c].bytes
    <2> DEFINE b == nodes[c].offset
               z == Stop(c)
    <2>1. c \in 1..Len(nodes) /\ k < c /\ c \in Children(k) /\ c # j
      BY <1>1, <1>2, ChildFacts
    <2>2. c \in DOMAIN nodes /\ c \in 0..Len(nodes) /\ c - 1 \in 0..Len(nodes) /\ k \in 0..(c - 1)
          /\ c - 1 \in Nat
      BY <1>2, <2>1
    <2>3. b = NextStart(c - 1) /\ a <= NextStart(c - 1)
      BY <1>1, <2>2, StartsGrow
    <2>4. b \in 0..Len(T) /\ z \in 0..Len(T)
      BY <1>1, <2>2, <2>3, StartsAre, StopFacts
    <2>5. b <= z
      <3>1. /\ nodes[c].offset \in Nat /\ nodes[c].headerLen \in Nat
            /\ nodes[c].offset + nodes[c].headerLen <= NextStart(c) /\ NextStart(c) \in Nat
        BY <1>1, <2>2, StartsAre
      <3>2. NextStart(c) <= Stop(c)
        BY <1>1, <2>2, StopFacts
      <3> QED BY <2>4, <3>1, <3>2
    <2>6. Encodings[c].bytes = Slice(T, b, z)
      <3>1. EncodedAsRead(c)
        BY <2>2, AllEncodedAsRead
      <3> QED BY <1>9, <3>1 DEF EncodedAsRead
    <2>7. CASE c < j
      <3>1. z <= oj
        <4>1. PICK e : LastUnder(c, e)
          BY <1>1, <2>2, SomeLast
        <4>2. z = NextStart(e) /\ e \in 0..Len(nodes) /\ c <= e /\ Under(c, e)
          BY <1>1, <2>2, <4>1, StopIs DEF LastUnder
        <4>3. ~(e >= j)
          <5> SUFFICES ASSUME e >= j PROVE FALSE
            OBVIOUS
          <5>1. c <= j /\ j <= e
            BY <1>2, <1>4, <2>1, <2>7, <4>2
          <5>2. Under(c, j)
            BY <1>1, <1>4, <2>2, <4>2, <5>1, UnderBetween
          <5> QED BY <1>1, <1>2, <2>1, <5>2, ChildrenApart
        <4>4. e \in 0..(j - 1)
          BY <1>2, <1>4, <4>2, <4>3
        <4>5. NextStart(e) <= NextStart(j - 1)
          BY <1>1, <1>4, <4>4, StartsGrow
        <4> QED BY <1>1, <1>3, <4>2, <4>5
      <3> HIDE DEF a, b, z, oj, ej, T
      <3>2. b \in a..Len(T) /\ z \in b..Len(T) /\ b <= oj
        BY <1>1, <1>3, <1>5, <2>3, <2>4, <2>5, <3>1
      <3>3. Slice(T, a, b) \o Slice(T, b, z) = Slice(T, a, z)
        BY <1>1, <1>5, <3>2, SlicesJoin
      <3>4. g[b] = Slice(T, a, b) /\ g[z] = Slice(T, a, z)
        BY <1>6, <2>4, <3>1, <3>2
      <3>5. g[z] = g[b] \o Encodings[c].bytes
        BY <2>6, <3>3, <3>4
      <3> QED BY <3>5 DEF b, z
    <2>8. CASE ~(c < j)
      <3>1. j \in 0..(c - 1)
        BY <1>2, <1>4, <2>1, <2>2, <2>8
      <3>2. NextStart(j) <= NextStart(c - 1)
        BY <1>1, <2>2, <3>1, StartsGrow
      <3>3. ej <= b
        BY <1>3, <2>3, <3>2
      <3> HIDE DEF a, b, z, oj, ej, T
      <3>4. b \in ej..Len(T) /\ z \in b..Len(T) /\ z \in ej..Len(T) /\ oj \in a..Len(T)
            /\ ~(b <= oj) /\ ~(z <= oj)
        BY <1>1, <1>3, <1>5, <2>4, <2>5, <3>3
      <3> DEFINE A == Slice(T, a, oj)
                 B == Slice(T, ej, b)
                 C == Slice(T, b, z)
      <3>5. A \in Seq(Range(T)) /\ B \in Seq(Range(T)) /\ C \in Seq(Range(T))
        BY <1>1, <1>3, <1>5, <2>4, <3>4, SliceIs
      <3>6. B \o C = Slice(T, ej, z)
        BY <1>1, <1>3, <3>4, SlicesJoin
      <3>7. g[b] = A \o B /\ g[z] = A \o Slice(T, ej, z)
        BY <1>6, <2>4, <3>4
      <3>8. Encodings[c].bytes = C
        BY <2>6
      <3> HIDE DEF A, B, C
      <3>9. (A \o B) \o C = A \o (B \o C)
        <4> DEFINE R == Range(T)
        <4>1. A \in Seq(R) /\ B \in Seq(R) /\ C \in Seq(R)
          BY <3>5
        <4> HIDE DEF R
        <4> QED BY <4>1, ConcatAssociative, SMTT(30)
      <3>10. g[z] = g[b] \o Encodings[c].bytes
        BY <3>6, <3>7, <3>8, <3>9
      <3> QED BY <3>10 DEF b, z
    <2> QED BY <2>7, <2>8
  <1>10. \A c \in Children(k) : Good(Encodings[c])
    BY AllEncodedAsRead DEF EncodedAsRead, Children, ChildrenAmong
  <1> QED BY <1>7, <1>8, <1>9, <1>10 DEF Grows

\* What a declared master's other children are encoded as is its data around the checksum.
LEMMA CoveredIs ==
  ASSUME WellRead, NEW k \in DOMAIN nodes, NEW j \in Children(k), nodes[j].id = CRC,
         nodes[k].size # UnknownSize,
         NEW covered, covered = Joined(Encodings, Children(k) \ {j}, Len(nodes)),
         covered.result = "ok"
  PROVE  covered.bytes = StoredAround(k, j)
  <1> DEFINE g == [x \in 0..Len(Text[doc]) |-> AroundSlice(k, j, x)]
             ks == Children(k) \ {j}
             encs == Encodings
  <1>1. /\ TreeStrong /\ edits = 0 /\ InTextOrder /\ \A m \in DOMAIN nodes : AsRead(m)
        /\ \A m \in DOMAIN nodes : nodes[m].offset = NextStart(m - 1)
    BY WellReadFacts
  <1>2. k \in 0..Len(nodes) /\ j \in DOMAIN nodes /\ IsMaster(k)
    <2>1. Len(nodes) \in Nat /\ DOMAIN nodes = 1..Len(nodes)
      BY <1>1, OrderFacts
    <2> QED BY <2>1, StoredIs
  <1>3. Stop(k) = EndOf(k)
    BY <1>2, DeclaredStop DEF Declared
  <1>4. Stop(k) \in 0..Len(Text[doc]) /\ ~(Stop(k) <= nodes[j].offset)
    <2>1. EndOf(j) = NextStart(j) /\ nodes[j].offset < EndOf(j)
          /\ EndOf(j) \in 0..Len(Text[doc]) /\ nodes[j].offset \in 0..Len(Text[doc])
      BY StoredIs
    <2>2. Under(k, j) /\ k <= j
      <3>1. Under(k, j) /\ k < j /\ j \in 1..Len(nodes)
        BY <1>1, <1>2, ChildFacts
      <3> QED BY <1>2, <3>1
    <2>3. NextStart(j) <= Stop(k) /\ Stop(k) \in 0..Len(Text[doc])
      BY <1>1, <1>2, <2>2, StopFacts
    <2> QED BY <2>1, <2>3
  <1>5. g[Stop(k)] = StoredAround(k, j)
    <2>1. g[Stop(k)] = AroundSlice(k, j, Stop(k))
      BY <1>4
    <2>2. NextStart(k) = nodes[k].offset + nodes[k].headerLen
      BY <1>1, <1>2, StartsAre
    <2> HIDE DEF g
    <2> QED BY <1>3, <1>4, <2>1, <2>2 DEF AroundSlice, Slice, StoredAround
  <1>6. g = [x \in 0..Len(Text[doc]) |-> AroundSlice(k, j, x)]
    OBVIOUS
  <1> HIDE DEF g
  <1>7. Grows(g, k, Children(k) \ {j}, Encodings)
    BY <1>6, AroundGrows
  <1>8. ks \subseteq Children(k) /\ Grows(g, k, ks, encs) /\ covered = Joined(encs, ks, Len(nodes))
    BY <1>7
  <1> HIDE DEF ks, encs
  <1>9. Joined(encs, ks, Len(nodes)).result = "ok" => Joined(encs, ks, Len(nodes)).bytes = g[Stop(k)]
    BY <1>1, <1>2, <1>8, JoinedChildren
  <1> QED BY <1>5, <1>8, <1>9

\* What VerifyChecksum says of k is about the text.
SaysRight(k) ==
  LET sums == {j \in Children(k) : nodes[j].id = CRC}
      j == CHOOSE i \in sums : TRUE
      verdict == VerifyChecksum(k, Encodings)
      rightSum == SubSeq(Text[doc], EndOf(j) - 3, EndOf(j)) = Checksum(StoredAround(k, j))
  IN /\ sums = {} => verdict = "ok"
     /\ Cardinality(sums) > 1 => verdict = "Multiple"
     /\ Cardinality(sums) = 1 /\ nodes[k].size # UnknownSize /\ nodes[j].size = 4 =>
          IF rightSum THEN verdict \in {"ok", "Unavailable", "Position"}
          ELSE verdict \in {"Mismatch", "Unavailable"}
     /\ verdict = "Unavailable" => cap >= 0

LEMMA VerdictIsRight ==
  ASSUME WellRead, NEW k \in DOMAIN nodes
  PROVE  SaysRight(k)
  <1> DEFINE sums == {j \in Children(k) : nodes[j].id = CRC}
             j == CHOOSE i \in sums : TRUE
             verdict == VerifyChecksum(k, Encodings)
             covered == Joined(Encodings, Children(k) \ sums, Len(nodes))
             rightSum == SubSeq(Text[doc], EndOf(j) - 3, EndOf(j)) = Checksum(StoredAround(k, j))
  <1>1. Len(nodes) \in Nat /\ DOMAIN nodes = 1..Len(nodes)
    BY WellReadFacts, OrderFacts
  <1>2. IsFiniteSet(sums) /\ (Cardinality(sums) = 1 => \E x : sums = {x})
    <2>1. sums \in SUBSET (1..Len(nodes))
      BY <1>1 DEF Children, ChildrenAmong
    <2>2. IsFiniteSet(1..Len(nodes))
      BY <1>1, FS_Interval
    <2> HIDE DEF sums
    <2>3. IsFiniteSet(sums)
      BY <2>1, <2>2, FS_Subset
    <2> QED BY <2>3, FS_Singleton
  <1>3. verdict = IF sums = {} THEN "ok"
                  ELSE IF Cardinality(sums) > 1 THEN "Multiple"
                  ELSE ChecksumVerdict(j, Children(k), covered)
    BY DEF VerifyChecksum
  <1>4. sums # {} => j \in Children(k) /\ nodes[j].id = CRC
    OBVIOUS
  <1>5. sums = {} => Cardinality(sums) = 0
    BY FS_EmptySet
  <1>6. Good(covered)
    <2>1. \A c \in Children(k) \ sums : Good(Encodings[c])
      BY AllEncodedAsRead DEF EncodedAsRead, Children, ChildrenAmong
    <2> DEFINE ks == Children(k) \ sums
               encs == Encodings
    <2>2. \A c \in ks : Good(encs[c])
      BY <2>1
    <2> HIDE DEF ks, encs
    <2>3. Good(Joined(encs, ks, Len(nodes)))
      BY <1>1, <2>2, JoinedGood
    <2> QED BY <2>3 DEF ks, encs
  <1>7. Cardinality(sums) = 1 => sums = {j}
    BY <1>2
  <1>8. Cardinality(sums) = 1 /\ nodes[k].size # UnknownSize /\ covered.result = "ok" =>
          covered.bytes = StoredAround(k, j)
    <2> SUFFICES ASSUME Cardinality(sums) = 1, nodes[k].size # UnknownSize, covered.result = "ok"
                 PROVE  covered.bytes = StoredAround(k, j)
      OBVIOUS
    <2>1. sums = {j}
      BY <1>7
    <2>2. j \in Children(k) /\ nodes[j].id = CRC
      BY <1>4, <2>1
    <2> DEFINE i == j
               cov == covered
    <2>3. i \in Children(k) /\ nodes[i].id = CRC /\ cov = Joined(Encodings, Children(k) \ {i}, Len(nodes))
          /\ cov.result = "ok"
      BY <2>1, <2>2
    <2> HIDE DEF i, cov
    <2>4. cov.bytes = StoredAround(k, i)
      BY <2>3, CoveredIs
    <2> QED BY <2>4 DEF i, cov
  <1>9. sums # {} =>
          /\ nodes[j].truncated => cap >= 0
          /\ nodes[j].size = 4 /\ ~nodes[j].truncated =>
               /\ nodes[j].payload = SubSeq(Text[doc], EndOf(j) - 3, EndOf(j))
               /\ Len(nodes[j].payload) = 4
    <2> DEFINE i == j
    <2>1. sums # {} => i \in Children(k) /\ nodes[i].id = CRC
      BY <1>4
    <2> HIDE DEF i
    <2>2. sums # {} =>
            /\ nodes[i].truncated => cap >= 0
            /\ nodes[i].size = 4 /\ ~nodes[i].truncated =>
                 /\ nodes[i].payload = SubSeq(Text[doc], EndOf(i) - 3, EndOf(i))
                 /\ Len(nodes[i].payload) = 4
      BY <2>1, StoredIs
    <2> QED BY <2>2 DEF i
  <1> HIDE DEF sums, j, covered, verdict
  <1>10. sums = {} => verdict = "ok"
    BY <1>3
  <1>11. Cardinality(sums) > 1 => verdict = "Multiple"
    <2>1. Cardinality(sums) > 1 => sums # {}
      <3>1. sums = {} => ~(Cardinality(sums) > 1)
        BY <1>5
      <3> QED BY <3>1
    <2> QED BY <1>3, <2>1
  <1>12. verdict = "Unavailable" => cap >= 0
    <2> SUFFICES ASSUME verdict = "Unavailable" PROVE cap >= 0
      OBVIOUS
    <2>1. sums # {} /\ ChecksumVerdict(j, Children(k), covered) = "Unavailable"
      BY <1>3
    <2>2. nodes[j].truncated \/ covered.result \notin {"ok"}
      BY <2>1 DEF ChecksumVerdict
    <2> QED BY <1>6, <1>9, <2>1, <2>2 DEF Good
  <1>13. ASSUME Cardinality(sums) = 1, nodes[k].size # UnknownSize, nodes[j].size = 4
         PROVE  IF rightSum THEN verdict \in {"ok", "Unavailable", "Position"}
                ELSE verdict \in {"Mismatch", "Unavailable"}
    <2>1. sums # {} /\ ~(Cardinality(sums) > 1)
      BY <1>5, <1>13
    <2>2. verdict = ChecksumVerdict(j, Children(k), covered)
      BY <1>3, <2>1
    <2>3. CASE nodes[j].truncated \/ covered.result # "ok"
      <3>1. covered.result # "ok" => covered.result = "TruncatedPayload"
        BY <1>6 DEF Good
      <3>2. ~nodes[j].truncated => Len(nodes[j].payload) = 4
        BY <1>9, <1>13, <2>1
      <3>3. verdict = "Unavailable"
        BY <2>2, <2>3, <3>1, <3>2 DEF ChecksumVerdict
      <3> QED BY <3>3
    <2>4. CASE ~nodes[j].truncated /\ covered.result = "ok"
      <3>1. covered.bytes = StoredAround(k, j)
        BY <1>8, <1>13, <2>4
      <3>2. nodes[j].payload = SubSeq(Text[doc], EndOf(j) - 3, EndOf(j)) /\ Len(nodes[j].payload) = 4
        BY <1>9, <1>13, <2>1, <2>4
      <3>3. rightSum <=> nodes[j].payload = Checksum(covered.bytes)
        BY <3>1, <3>2
      <3> HIDE DEF rightSum
      <3>4. verdict = IF nodes[j].payload # Checksum(covered.bytes) THEN "Mismatch"
                      ELSE IF \E c \in Children(k) : c < j THEN "Position"
                      ELSE "ok"
        <4>1. covered.result # "TruncatedPayload"
          BY <2>4
        <4> QED BY <2>2, <2>4, <3>2, <4>1 DEF ChecksumVerdict
      <3> QED BY <3>3, <3>4
    <2> QED BY <2>3, <2>4
  <1> QED BY <1>10, <1>11, <1>12, <1>13 DEF SaysRight, sums, j, verdict

-----------------------------------------------------------------------------
(* Parse reads the tree so.                                                *)

\* What is said of the elements does not change while they do not.
LEMMA ReadStays ==
  ASSUME UNCHANGED <<doc, cap, nodes>>
  PROVE  /\ \A k : (AsRead(k)' <=> AsRead(k)) /\ NextStart(k)' = NextStart(k)
         /\ \A k, m : Under(k, m)' <=> Under(k, m)
         /\ \A m : (Passed(m)' <=> Passed(m)) /\ (Declared(m)' <=> Declared(m))
  <1>1. \A k : (IsMaster(k)' <=> IsMaster(k)) /\ EndOf(k)' = EndOf(k)
    BY DEF IsMaster, EndOf
  <1>2. \A k : NextStart(k)' = NextStart(k)
    BY <1>1 DEF NextStart
  <1>3. \A k, m : Under(k, m)' <=> Under(k, m)
    BY DEF Under, Ancestors
  <1>4. \A m : (Passed(m)' <=> Passed(m)) /\ (Declared(m)' <=> Declared(m))
    BY <1>1, <1>2, <1>3 DEF Passed, Declared
  <1>5. \A k : AsRead(k)' <=> AsRead(k)
    BY <1>1, <1>2, <1>3 DEF AsRead, TooLarge
  <1> QED BY <1>2, <1>3, <1>4, <1>5

\* What Parse reads at its position is a header of the text, and its bytes.
LEMMA HeaderIsRead ==
  ASSUME ParseTypes, Peeked = "ok", p.pos \in Nat, p.fed = Len(Text[doc])
  PROVE  /\ h0.idLen = IDWidth[h0.id] /\ h0.sizeLen \in Nat /\ h0.id \notin IllFormedID
         /\ HeaderLen(h0) = IDWidth[h0.id] + h0.sizeLen /\ IDWidth[h0.id] \in Nat
         /\ SaysItsSize(h0) /\ p.pos + HeaderLen(h0) <= Len(Text[doc])
         /\ Slice(Text[doc], p.pos, p.pos + HeaderLen(h0)) = HeaderBytes(h0)
  <1> DEFINE o == p.pos
             at == Documents[doc].at
  <1>1. doc \in DOMAIN Documents /\ HeaderResult(doc, p) = "ok"
    BY PeekedIsHeader DEF ParseTypes
  <1>2. /\ o \in DOMAIN at /\ h0 = at[o] /\ h0.id \in ElementID
        /\ h0.idLen \in 1..4 /\ h0.sizeLen \in 0..8 /\ HeaderLen(h0) \in Nat
    BY <1>1, ElementIsThere
  <1>3. VINTResult(h0, Available(p)) = "ok"
    BY <1>1 DEF HeaderResult, HeaderOutcome, h0
  <1>4. h0.sizeLen # 0 /\ ~(Available(p) < HeaderLen(h0))
    BY <1>3 DEF VINTResult
  <1>5. Len(Text[doc]) \in Nat
    <2>1. Text[doc] \in Seq(Range(Text[doc]))
      BY <1>1, TreeAssumption
    <2> QED BY <2>1
  <1>6. o + HeaderLen(h0) <= Len(Text[doc])
    BY <1>2, <1>4, <1>5 DEF Available
  <1>7. /\ h0.id \notin IllFormedID /\ SaysItsSize(h0)
        /\ SubSeq(Text[doc], o + 1, o + HeaderLen(h0)) = HeaderBytes(h0)
    BY <1>1, <1>2, <1>4, <1>6, TreeAssumption
  <1>8. h0.idLen = IDWidth[h0.id]
    <2>1. at = Decoded(Text[doc]).at
      BY <1>1, TreeAssumption
    <2>2. o \in DOMAIN Decoded(Text[doc]).at
      BY <1>2, <2>1
    <2>3. \A x \in DOMAIN Decoded(Text[doc]).at :
            Decoded(Text[doc]).at[x].idLen = IDWidth[Decoded(Text[doc]).at[x].id]
      BY DEF Decoded
    <2> QED BY <1>2, <2>1, <2>2, <2>3
  <1>9. IDWidth[h0.id] \in Nat /\ h0.sizeLen \in Nat /\ HeaderLen(h0) = IDWidth[h0.id] + h0.sizeLen
    BY <1>2, <1>8, SMTT(30) DEF HeaderLen
  <1> QED BY <1>6, <1>7, <1>8, <1>9 DEF Slice

\* An element that is attached is as read, and so are those before.
LEMMA AttachedAsRead ==
  ASSUME NEW N, N = Len(nodes) + 1, TreeStrong, ExactInv, phase = "parsing", Peeked = "ok", ~AtEnd, ~EndsUnknown,
         NEW payload, NEW cut, KindOf[h0.id] = "master" => payload = << >>,
         KindOf[h0.id] # "master" =>
           h0.size # UnknownSize /\ payload = IF TooLarge(h0) THEN << >> ELSE PayloadAt(h0),
         cut <=> (KindOf[h0.id] # "master" /\ TooLarge(h0)),
         nodes' = Append(nodes, Node(h0, payload, cut)), UNCHANGED <<doc, cap, edits>>,
         p'.pos = ReachOf(h0, p.pos), p'.current = NoElement,
         ReachOf(h0, p.pos) <= Len(Text[doc])
  PROVE  /\ \A k \in DOMAIN nodes' : AsRead(k)'
         /\ NextStart(N)' = p'.pos
         /\ \A m \in {stack[i] : i \in 1..Len(stack)} : Under(m, N)'
         /\ \A m \in DOMAIN nodes : Passed(m) => Passed(m)'
         /\ \A m \in DOMAIN nodes : Declared(m)' <=> Declared(m)
         /\ DOMAIN nodes' = 1..N /\ Len(nodes') = N
         /\ Len(nodes) \in Nat /\ DOMAIN nodes = 1..Len(nodes)
         /\ nodes'[N].id = h0.id
  <1> DEFINE n == Len(nodes)
             par == IF stack = << >> THEN 0 ELSE Last(stack)
  <1>1. /\ edits = 0 /\ ParseTypes /\ ParentsInv /\ StacksInv /\ IsBetween(p) /\ InTheLoop
        /\ \A k \in DOMAIN nodes : AsRead(k)
    BY DEF TreeStrong, StacksInv, ExactInv
  <1>2. /\ ParentsInv' /\ n \in Nat /\ DOMAIN nodes = 1..n
        /\ DOMAIN nodes' = 1..N /\ Len(nodes') = N
        /\ \A k \in DOMAIN nodes : nodes'[k] = nodes[k]
        /\ nodes'[N].id = h0.id /\ nodes'[N].offset = p.pos
        /\ nodes'[N].headerLen = HeaderLen(h0) /\ nodes'[N].size = h0.size
        /\ nodes'[N].truncated = cut /\ nodes'[N].parent = par
    BY <1>1, Attached
  <1>3. /\ \A k \in DOMAIN nodes : Ancestors'[k] = Ancestors[k]
        /\ Ancestors'[N] = {stack[j] : j \in 1..Len(stack)}
    BY AttachedNests
  <1>4. p.pos \in Nat /\ p.pos = NextStart(n) /\ p.fed = Len(Text[doc])
    BY <1>1 DEF IsBetween, InTheLoop
  <1>5. /\ h0.sizeLen \in Nat /\ h0.id \notin IllFormedID
        /\ HeaderLen(h0) = IDWidth[h0.id] + h0.sizeLen /\ IDWidth[h0.id] \in Nat
        /\ SaysItsSize(h0)
        /\ Slice(Text[doc], p.pos, p.pos + HeaderLen(h0)) = HeaderBytes(h0)
    BY <1>1, <1>4, HeaderIsRead
  <1>6. /\ h0.size \in Nat \cup {UnknownSize} /\ HeaderLen(h0) \in Nat
    BY <1>1, PeekedIsHeader, ElementIsThere DEF ParseTypes
  <1>7. \A k \in DOMAIN nodes : (IsMaster(k)' <=> IsMaster(k)) /\ EndOf(k)' = EndOf(k)
                                /\ (Declared(k)' <=> Declared(k))
    BY <1>2 DEF IsMaster, EndOf, Declared
  <1>8. ASSUME NEW k \in 0..n PROVE NextStart(k)' = NextStart(k)
    <2>1. k = 0 \/ k \in DOMAIN nodes
      BY <1>2
    <2> QED BY <1>2, <1>7, <2>1 DEF NextStart
  <1>9. IsMaster(N)' <=> KindOf[h0.id] = "master"
    BY <1>2 DEF IsMaster
  <1>10. NextStart(N)' = p'.pos
    <2>1. N # 0
      BY <1>2
    <2>2. NextStart(N)' = nodes'[N].offset + nodes'[N].headerLen + IF IsMaster(N)' THEN 0 ELSE nodes'[N].size
      BY <2>1 DEF NextStart
    <2> QED BY <1>2, <1>4, <1>6, <1>9, <2>2 DEF ReachOf
  <1>11. \A m : \A x \in DOMAIN nodes : Under(m, x)' <=> Under(m, x)
    BY <1>3 DEF Under
  <1>12. \A m \in {stack[i] : i \in 1..Len(stack)} : Under(m, N)'
    BY <1>3 DEF Under
  <1>13. \A m \in DOMAIN nodes : Passed(m) => Passed(m)'
    <2> SUFFICES ASSUME NEW m \in DOMAIN nodes, Passed(m) PROVE Passed(m)'
      OBVIOUS
    <2>1. PICK x \in DOMAIN nodes : Under(m, x) /\ EndOf(m) <= NextStart(x)
      BY DEF Passed
    <2>2. x \in DOMAIN nodes' /\ x \in 0..n
      BY <1>2
    <2>3. Under(m, x)' /\ EndOf(m)' <= NextStart(x)'
      BY <1>7, <1>8, <1>11, <2>1, <2>2
    <2> QED BY <2>2, <2>3 DEF Passed
  <1>14. ASSUME NEW k \in DOMAIN nodes PROVE AsRead(k)'
    <2>1. AsRead(k) /\ nodes'[k] = nodes[k] /\ (IsMaster(k)' <=> IsMaster(k))
      BY <1>1, <1>2, <1>7
    <2>2. k \in 0..n /\ k - 1 \in 0..n
      BY <1>2
    <2>3. NextStart(k)' = NextStart(k) /\ NextStart(k - 1)' = NextStart(k - 1)
      BY <1>8, <2>2
    <2>4. nodes[k].parent # 0 => Under(nodes[k].parent, k - 1)'
      <3> SUFFICES ASSUME nodes[k].parent # 0 PROVE Under(nodes[k].parent, k - 1)'
        OBVIOUS
      <3>1. nodes[k].parent \in 0..(k - 1)
        BY <1>1 DEF ParentsInv
      <3>2. k - 1 \in DOMAIN nodes
        BY <1>2, <2>2, <3>1
      <3>3. Under(nodes[k].parent, k - 1)
        BY <2>1 DEF AsRead
      <3> QED BY <1>2, <1>11, <3>2, <3>3
    <2> QED BY <2>1, <2>3, <2>4 DEF AsRead, TooLarge
  <1>15. AsRead(N)'
    <2>1. N - 1 = n /\ n \in 0..n
      BY <1>2
    <2>2. nodes'[N].offset = NextStart(N - 1)' /\ NextStart(N)' <= Len(Text[doc])
      BY <1>2, <1>4, <1>8, <1>10, <2>1
    <2> DEFINE width == nodes'[N].headerLen - IDWidth[nodes'[N].id]
               h == [id |-> nodes'[N].id, sizeLen |-> width, size |-> nodes'[N].size]
               s == [sizeLen |-> width, size |-> nodes'[N].size]
    <2>3. width = h0.sizeLen
      <3> QED BY <1>2, <1>5
    <2>4. h.id = h0.id /\ h.sizeLen = h0.sizeLen /\ h.size = h0.size
          /\ s.sizeLen = h0.sizeLen /\ s.size = h0.size
      BY <1>2, <2>3
    <2>5. SaysItsSize(s) /\ HeaderBytes(h) = HeaderBytes(h0)
      <3> HIDE DEF h, s
      <3> QED BY <1>5, <2>4 DEF SaysItsSize, HeaderBytes
    <2>6. Slice(Text[doc], nodes'[N].offset, nodes'[N].offset + nodes'[N].headerLen) = HeaderBytes(h)
      <3> HIDE DEF h
      <3> QED BY <1>2, <1>5, <2>5
    <2>7. nodes'[N].truncated <=> (~IsMaster(N)' /\ TooLarge(nodes[N])')
      BY <1>2, <1>9 DEF TooLarge
    <2>8. ~IsMaster(N)' => nodes'[N].size # UnknownSize
      BY <1>2, <1>9
    <2>9. nodes'[N].parent # 0 => Under(nodes[N].parent, N - 1)'
      <3> SUFFICES ASSUME par # 0 PROVE Under(nodes[N].parent, N - 1)'
        BY <1>2
      <3>1. stack # << >> /\ par = stack[Len(stack)] /\ Len(stack) \in 1..Len(stack)
            /\ par \in DOMAIN nodes
        BY <1>1, TopOfStack
      <3>2. Under(par, n)
        BY <1>1, <3>1 DEF InTheLoop
      <3>3. n \in DOMAIN nodes
        BY <1>2, <3>1
      <3>4. PICK q : q = par
        OBVIOUS
      <3>5. Under(q, N - 1) /\ N - 1 \in DOMAIN nodes
        BY <2>1, <3>2, <3>3, <3>4
      <3>6. Under(q, N - 1)'
        BY <1>11, <3>5
      <3> HIDE DEF par
      <3> QED BY <1>2, <3>4, <3>6 DEF Under
    <2>10. nodes'[N].id \notin IllFormedID
      BY <1>2, <1>5
    <2> QED BY <2>2, <2>5, <2>6, <2>7, <2>8, <2>9, <2>10 DEF AsRead
  <1>16. \A k \in DOMAIN nodes' : k \in DOMAIN nodes \/ k = N
    BY <1>2
  <1> QED BY <1>2, <1>7, <1>10, <1>12, <1>13, <1>14, <1>15, <1>16

LEMMA EnterReads == ASSUME TreeStrong, ExactInv, Enter PROVE ExactInv'
  <1>1. /\ phase = "parsing" /\ phase' = phase /\ UNCHANGED <<doc, cap, edits>>
        /\ Peeked = "ok" /\ ~AtEnd /\ ~EndsUnknown /\ KindOf[h0.id] = "master"
        /\ p' = EnterMaster(ConsumeHeader(doc, p))
        /\ nodes' = Append(nodes, Node(h0, << >>, FALSE))
        /\ stack' = Append(stack, Len(nodes) + 1)
    BY DEF Enter, Parsing, AtElement
  <1>2. /\ edits = 0 /\ IsBetween(p) /\ ParseTypes /\ StacksInv /\ IsSequence(stack) /\ InTheLoop
    BY <1>1 DEF TreeStrong, StacksInv, ExactInv
  <1>3. p'.fed = p.fed /\ p'.pos = p.pos + HeaderLen(h0) /\ p'.current = NoElement
    BY <1>1 DEF EnterMaster, ConsumeHeader, At, h0
  <1>4. p.pos \in Nat /\ p.fed = Len(Text[doc]) /\ HeaderLen(h0) \in Nat
    BY <1>1, <1>2, PeekedIsHeader, ElementIsThere DEF ParseTypes, IsBetween, InTheLoop
  <1>5. p'.pos = ReachOf(h0, p.pos)
    BY <1>1, <1>3, <1>4 DEF ReachOf
  <1>6. p'.pos <= Len(Text[doc])
    BY <1>1, <1>2, <1>3, <1>4, HeaderIsRead
  <1>7. PICK N : N = Len(nodes) + 1
    OBVIOUS
  <1> DEFINE payload == << >>
             cut == FALSE
  <1>8. /\ \A k \in DOMAIN nodes' : AsRead(k)'
        /\ NextStart(N)' = p'.pos
        /\ \A m \in {stack[i] : i \in 1..Len(stack)} : Under(m, N)'
        /\ \A m \in DOMAIN nodes : Passed(m) => Passed(m)'
        /\ \A m \in DOMAIN nodes : Declared(m)' <=> Declared(m)
        /\ DOMAIN nodes' = 1..N /\ Len(nodes') = N
        /\ Len(nodes) \in Nat /\ DOMAIN nodes = 1..Len(nodes)
    <2>1. /\ KindOf[h0.id] = "master" => payload = << >>
          /\ cut <=> (KindOf[h0.id] # "master" /\ TooLarge(h0))
          /\ nodes' = Append(nodes, Node(h0, payload, cut))
      BY <1>1
    <2> HIDE DEF payload, cut
    <2> QED BY <1>1, <1>3, <1>5, <1>6, <1>7, <2>1, AttachedAsRead
  <1>9. /\ Len(stack) \in Nat /\ IsSequence(stack') /\ Len(stack') = Len(stack) + 1
        /\ \A i \in 1..Len(stack) : stack'[i] = stack[i]
        /\ stack'[Len(stack) + 1] = N
    BY <1>1, <1>2, <1>7, AppendToSequence
  <1>10. ASSUME NEW i \in 1..Len(stack') PROVE Under(stack[i], Len(nodes))'
    <2>1. PICK m : m = stack'[i]
      OBVIOUS
    <2>2. Under(m, N)'
      <3>1. CASE i \in 1..Len(stack)
        BY <1>8, <1>9, <2>1, <3>1
      <3>2. CASE i \notin 1..Len(stack)
        <4>1. i = Len(stack) + 1
          BY <1>9, <3>2
        <4>2. m = N
          BY <1>9, <2>1, <4>1
        <4> QED BY <4>2 DEF Under
      <3> QED BY <3>1, <3>2
    <2> QED BY <1>8, <2>1, <2>2 DEF Under
  <1>11. ASSUME NEW m \in DOMAIN nodes', Declared(m)', \A i \in 1..Len(stack') : stack'[i] # m
         PROVE  Passed(m)'
    <2>1. m # N
      <3>1. Len(stack) + 1 \in 1..Len(stack')
        BY <1>9
      <3> QED BY <1>9, <1>11, <3>1
    <2>2. m \in DOMAIN nodes
      BY <1>7, <1>8, <2>1
    <2>3. \A i \in 1..Len(stack) : i \in 1..Len(stack') /\ stack[i] # m
      BY <1>9, <1>11
    <2> QED BY <1>2, <1>8, <1>11, <2>2, <2>3 DEF InTheLoop
  <1>12. InTheLoop'
    <2>1. p'.pos = NextStart(Len(nodes))'
      BY <1>8
    <2> QED BY <1>1, <1>3, <1>4, <1>6, <1>10, <1>11, <2>1 DEF InTheLoop
  <1> QED BY <1>1, <1>8, <1>12 DEF ExactInv

LEMMA LeafReads == ASSUME TreeStrong, ExactInv, Leaf PROVE ExactInv'
  <1> DEFINE c == ConsumeHeader(doc, p)
             payload == IF TooLarge(h0) THEN << >> ELSE PayloadAt(h0)
             cut == TooLarge(h0)
  <1>1. /\ phase = "parsing" /\ phase' = phase /\ UNCHANGED <<doc, cap, edits, stack>>
        /\ Peeked = "ok" /\ ~AtEnd /\ ~EndsUnknown /\ KindOf[h0.id] = "leaf"
        /\ PayloadResult(c) = "ok" /\ p' = StepOver(c)
        /\ nodes' = Append(nodes, Node(h0, payload, cut))
    BY DEF Leaf, Parsing, AtElement
  <1>2. /\ edits = 0 /\ IsBetween(p) /\ ParseTypes /\ StacksInv /\ InTheLoop
    BY <1>1 DEF TreeStrong, StacksInv, ExactInv
  <1>3. p.pos \in Nat /\ p.fed = Len(Text[doc]) /\ HeaderLen(h0) \in Nat /\ h0.size \in Nat
    <2>1. h0.size # UnknownSize
      BY <1>1, PeekedIsHeader, ElementIsThere, <1>2 DEF ParseTypes
    <2> QED BY <1>1, <1>2, <2>1, PeekedIsHeader, ElementIsThere DEF ParseTypes, IsBetween, InTheLoop
  <1>4. /\ c.fed = p.fed /\ c.pos = p.pos + HeaderLen(h0) /\ c.current.size = h0.size
        /\ p'.fed = p.fed /\ p'.pos = p.pos + HeaderLen(h0) + h0.size /\ p'.current = NoElement
    BY <1>1 DEF StepOver, ConsumeHeader, At, h0
  <1>5. p'.pos = ReachOf(h0, p.pos)
    BY <1>1, <1>3, <1>4 DEF ReachOf, UnknownSize
  <1>6. p'.pos <= Len(Text[doc])
    <2>1. ~(Available(c) < c.current.size)
      BY <1>1 DEF PayloadResult
    <2> HIDE DEF c
    <2>2. p.fed \in Nat
      BY <1>2 DEF IsBetween
    <2> QED BY <1>3, <1>4, <2>1, <2>2 DEF Available
  <1>7. PICK N : N = Len(nodes) + 1
    OBVIOUS
  <1>8. h0.size # UnknownSize
    BY <1>3 DEF UnknownSize
  <1>9. /\ \A k \in DOMAIN nodes' : AsRead(k)'
        /\ NextStart(N)' = p'.pos
        /\ \A m \in {stack[i] : i \in 1..Len(stack)} : Under(m, N)'
        /\ \A m \in DOMAIN nodes : Passed(m) => Passed(m)'
        /\ \A m \in DOMAIN nodes : Declared(m)' <=> Declared(m)
        /\ DOMAIN nodes' = 1..N /\ Len(nodes') = N
        /\ Len(nodes) \in Nat /\ DOMAIN nodes = 1..Len(nodes)
        /\ nodes'[N].id = h0.id
    <2>1. /\ KindOf[h0.id] = "master" => payload = << >>
          /\ KindOf[h0.id] # "master" =>
               h0.size # UnknownSize /\ payload = IF TooLarge(h0) THEN << >> ELSE PayloadAt(h0)
          /\ cut <=> (KindOf[h0.id] # "master" /\ TooLarge(h0))
          /\ nodes' = Append(nodes, Node(h0, payload, cut))
      BY <1>1, <1>8
    <2> HIDE DEF payload, cut
    <2> QED BY <1>1, <1>4, <1>5, <1>6, <1>7, <2>1, AttachedAsRead
  <1>10. ASSUME NEW i \in 1..Len(stack') PROVE Under(stack[i], Len(nodes))'
    <2>1. PICK m : m = stack'[i]
      OBVIOUS
    <2>2. Under(m, N)'
      BY <1>1, <1>9, <2>1
    <2> QED BY <1>9, <2>1, <2>2 DEF Under
  <1>11. ASSUME NEW m \in DOMAIN nodes', Declared(m)', \A i \in 1..Len(stack') : stack'[i] # m
         PROVE  Passed(m)'
    <2>1. m # N
      BY <1>1, <1>9, <1>11 DEF Declared, IsMaster
    <2>2. m \in DOMAIN nodes
      BY <1>7, <1>9, <2>1
    <2> QED BY <1>1, <1>2, <1>9, <1>11, <2>2 DEF InTheLoop
  <1>12. InTheLoop'
    <2>1. p'.pos = NextStart(Len(nodes))'
      BY <1>9
    <2> QED BY <1>1, <1>3, <1>4, <1>6, <1>10, <1>11, <2>1 DEF InTheLoop
  <1> QED BY <1>1, <1>9, <1>12 DEF ExactInv

LEMMA PopsRead == ASSUME TreeStrong, ExactInv, MasterEnds \/ UnknownEnds PROVE ExactInv'
  <1>1. /\ phase = "parsing" /\ phase' = phase /\ stack # << >>
        /\ p' = PopMaster(p) /\ stack' = Front(stack)
        /\ UNCHANGED <<doc, cap, nodes, edits>>
    BY DEF MasterEnds, UnknownEnds, Parsing, EndsUnknown
  <1>2. /\ edits = 0 /\ IsBetween(p) /\ ParseTypes /\ StacksInv /\ IsSequence(stack) /\ InTheLoop
        /\ Len(stack) = Len(p.stack) /\ \A k \in DOMAIN nodes : AsRead(k)
    BY <1>1 DEF TreeStrong, StacksInv, ExactInv
  <1>3. p'.pos = p.pos /\ p'.fed = p.fed
    BY <1>1 DEF PopMaster, At
  <1>4. /\ Len(stack) \in Nat \ {0} /\ Len(stack') = Len(stack) - 1
        /\ \A i \in 1..(Len(stack) - 1) : stack'[i] = stack[i]
    BY <1>1, <1>2, FrontOfSequence DEF Front
  <1>5. /\ \A k : (AsRead(k)' <=> AsRead(k)) /\ NextStart(k)' = NextStart(k)
        /\ \A k, m : Under(k, m)' <=> Under(k, m)
        /\ \A m : (Passed(m)' <=> Passed(m)) /\ (Declared(m)' <=> Declared(m))
    BY <1>1, ReadStays
  <1>6. Declared(Last(stack)) => Passed(Last(stack))
    <2> SUFFICES ASSUME Declared(Last(stack)) PROVE Passed(Last(stack))
      OBVIOUS
    <2>1. LeaveMasterResult(p) = "ok"
      BY DEF MasterEnds, UnknownEnds, EndsUnknown, Declared
    <2>2. ~(p.pos < Top(p.stack).end)
      BY <2>1 DEF LeaveMasterResult
    <2>3. /\ Len(stack) \in 1..Len(stack) /\ Last(stack) = stack[Len(stack)]
          /\ Last(stack) \in DOMAIN nodes /\ DOMAIN nodes = 1..Len(nodes) /\ Len(nodes) \in Nat
      BY <1>1, <1>2, TopOfStack
    <2>4. Top(p.stack).end = EndOf(Last(stack))
      BY <1>1, <1>2, <2>3 DEF StacksInv, FrameOf, Top, Declared
    <2>5. EndOf(Last(stack)) \in Nat /\ p.pos \in Nat
      BY <1>2, <2>3, NodesTyped DEF Declared, IsBetween
    <2>6. EndOf(Last(stack)) <= NextStart(Len(nodes))
      BY <1>2, <2>2, <2>4, <2>5 DEF InTheLoop
    <2>7. Under(Last(stack), Len(nodes)) /\ Len(nodes) \in DOMAIN nodes
      BY <1>2, <2>3 DEF InTheLoop
    <2> QED BY <2>6, <2>7 DEF Passed
  <1>7. ASSUME NEW i \in 1..Len(stack') PROVE Under(stack[i], Len(nodes))'
    <2>1. i \in 1..Len(stack) /\ i \in 1..(Len(stack) - 1)
      BY <1>4
    <2>2. Under(stack[i], Len(nodes)) /\ stack'[i] = stack[i]
      BY <1>2, <1>4, <2>1 DEF InTheLoop
    <2> QED BY <1>1, <1>5, <2>2
  <1>8. ASSUME NEW m \in DOMAIN nodes', Declared(m)', \A i \in 1..Len(stack') : stack'[i] # m
        PROVE  Passed(m)'
    <2>1. m \in DOMAIN nodes /\ Declared(m)
      BY <1>1, <1>5, <1>8
    <2>2. CASE m = Last(stack)
      BY <1>5, <1>6, <2>1, <2>2
    <2>3. CASE m # Last(stack)
      <3>1. ASSUME NEW i \in 1..Len(stack) PROVE stack[i] # m
        <4>1. CASE i = Len(stack)
          BY <2>3, <4>1 DEF Last
        <4>2. CASE i # Len(stack)
          <5>1. i \in 1..(Len(stack) - 1) /\ i \in 1..Len(stack')
            BY <1>4, <4>2
          <5> QED BY <1>4, <1>8, <5>1
        <4> QED BY <4>1, <4>2
      <3> QED BY <1>2, <1>5, <2>1, <3>1 DEF InTheLoop
    <2> QED BY <2>2, <2>3
  <1>9. InTheLoop'
    <2>1. p'.pos = NextStart(Len(nodes))' /\ p'.fed = Len(Text[doc])' /\ p'.pos <= p'.fed
      BY <1>1, <1>2, <1>3, <1>5 DEF InTheLoop
    <2> QED BY <1>7, <1>8, <2>1 DEF InTheLoop
  <1>10. \A k \in DOMAIN nodes' : AsRead(k)'
    BY <1>1, <1>2, <1>5
  <1> QED BY <1>1, <1>9, <1>10 DEF ExactInv

\* A parser that is not at a declared end has no master to leave.
LEMMA NoneReached ==
  ASSUME NEW q, IsBetween(q), ~AtMasterEnd(q), NEW d, NEW r, r = AfterReachedEnds(q)
  PROVE  PeekResult(d, r) = PeekResult(d, q)
  <1> DEFINE n == Len(q.stack)
             Kept(k) == /\ \A i \in (k + 1)..n : EndReached(q, q.stack[i])
                        /\ k = 0 \/ ~EndReached(q, q.stack[k])
             keep == CHOOSE k \in 0..n : Kept(k)
  <1>1. n \in Nat /\ q.stack \in Seq(Range(q.stack)) /\ (q.stack # << >> <=> n # 0)
    BY DEF IsBetween, IsSequence
  <1>2. n # 0 => ~EndReached(q, q.stack[n])
    BY <1>1 DEF AtMasterEnd, EndReached, Top
  <1>3. Kept(n) /\ n \in 0..n
    <2>1. \A i \in (n + 1)..n : FALSE
      BY <1>1
    <2> QED BY <1>1, <1>2, <2>1
  <1>4. ASSUME NEW k \in 0..n, Kept(k) PROVE k = n
    <2>1. k # n => n \in (k + 1)..n /\ n # 0
      BY <1>1
    <2> QED BY <1>2, <1>4, <2>1
  <1>5. keep = n
    <2> HIDE DEF Kept
    <2> QED BY <1>3, <1>4
  <1>6. AfterReachedEnds(q) = At(q, q.pos, SubSeq(q.stack, 1, keep), q.current)
    BY DEF AfterReachedEnds
  <1> HIDE DEF keep
  <1>7. SubSeq(q.stack, 1, n) = q.stack
    BY <1>1, SubSeqFull
  <1>8. r.pos = q.pos /\ r.fed = q.fed /\ r.stack = q.stack /\ r.current = q.current
    BY <1>5, <1>6, <1>7 DEF At
  <1>9. \A h : HeaderOutcome(h, r) = HeaderOutcome(h, q)
    BY <1>8 DEF HeaderOutcome, VINTResult, Available, ChildOverflows, Top
  <1> QED BY <1>8, <1>9 DEF PeekResult, AtMasterEnd, HasCurrent, HeaderResult, Top

\* A Parse that ends without an error has read its text to the end, and every declared
\* master to its.
LEMMA BufferEndReads == ASSUME TreeStrong, ExactInv, BufferEnds PROVE ExactInv'
  <1>1. /\ phase = "parsing" /\ UNCHANGED <<doc, cap, nodes, edits, stack>>
        /\ Peeked = "NeedMoreData" \/ (AtElement /\ KindOf[h0.id] = "leaf")
        /\ HasCurrent(Starved) => PayloadResult(Starved) = "NeedMoreData"
        /\ phase' = FinalizeEOFResult(doc, Starved)
    BY DEF BufferEnds, Parsing
  <1>2. /\ edits = 0 /\ IsBetween(p) /\ ParseTypes /\ StacksInv /\ InTheLoop
        /\ Len(stack) = Len(p.stack) /\ \A k \in DOMAIN nodes : AsRead(k)
    BY <1>1 DEF TreeStrong, StacksInv, ExactInv
  <1>3. phase' # "parsing"
    BY <1>1, ResultsAreVerdicts
  <1>4. /\ \A k : (AsRead(k)' <=> AsRead(k)) /\ NextStart(k)' = NextStart(k)
        /\ \A m : (Passed(m)' <=> Passed(m)) /\ (Declared(m)' <=> Declared(m))
    BY <1>1, ReadStays
  <1>5. ASSUME phase' = "ok" PROVE AtItsEnd
    <2>1. FinalizeEOFResult(doc, Starved) = "ok"
      BY <1>1, <1>5
    <2>2. ~ShortPayload(Starved)
      BY <2>1 DEF FinalizeEOFResult
    <2>3. ~HasCurrent(Starved)
      <3> SUFFICES ASSUME HasCurrent(Starved) PROVE FALSE
        OBVIOUS
      <3>1. PayloadResult(Starved) = "NeedMoreData"
        BY <1>1
      <3>2. Starved.current.size # UnknownSize /\ Available(Starved) < Starved.current.size
        BY <3>1 DEF PayloadResult
      <3>3. Starved.current.size \in Nat /\ Available(Starved) \in Int
        <4>1. CASE Peeked = "ok"
          <5>1. h0.size \in Nat \cup {UnknownSize} /\ HeaderLen(h0) \in Nat
            BY <1>2, <4>1, PeekedIsHeader, ElementIsThere DEF ParseTypes
          <5>2. Starved.current.size = h0.size /\ Starved.fed = p.fed
                /\ Starved.pos = p.pos + HeaderLen(h0)
            BY <4>1 DEF Starved, ConsumeHeader, At, h0
          <5>3. p.fed \in Nat /\ p.pos \in Nat
            BY <1>2 DEF IsBetween
          <5> QED BY <3>2, <5>1, <5>2, <5>3 DEF Available
        <4>2. CASE Peeked # "ok"
          <5>1. ~HasCurrent(Starved)
            BY <1>2, <4>2 DEF Starved, HasCurrent, IsBetween, NoElement
          <5> QED BY <5>1
        <4> QED BY <4>1, <4>2
      <3>4. ShortPayload(Starved)
        BY <3>2, <3>3 DEF ShortPayload
      <3> QED BY <2>2, <3>4
    <2>4. Peeked = "NeedMoreData" /\ Starved = p
      <3>1. CASE Peeked = "ok"
        <4>1. Starved.current.kind = KindOf[h0.id]
          BY <3>1 DEF Starved, ConsumeHeader, At, h0
        <4>2. KindOf[h0.id] # "none"
          BY <1>2, <3>1, PeekedIsHeader, ElementIsThere DEF ParseTypes, Kind
        <4> QED BY <2>3, <4>1, <4>2 DEF HasCurrent
      <3>2. CASE Peeked # "ok"
        BY <1>1, <3>2 DEF Starved, AtElement
      <3> QED BY <3>1, <3>2
    <2>5. ~AtMasterEnd(p) /\ ~HasCurrent(p)
      BY <2>3, <2>4 DEF Peeked, PeekResult
    <2>6. ~(Available(p) > 0)
      <3> SUFFICES ASSUME Available(p) > 0 PROVE FALSE
        OBVIOUS
      <3>1. PeekResult(doc, AfterReachedEnds(p)) = "NeedMoreData"
        BY <1>2, <2>4, <2>5, NoneReached DEF Peeked
      <3>2. LeftoverResult(doc, p) = "TruncatedHeader"
        BY <2>5, <3>1 DEF LeftoverResult
      <3> QED BY <2>1, <2>4, <3>2 DEF FinalizeEOFResult
    <2>7. p.pos = Len(Text[doc]) /\ p.pos = NextStart(Len(nodes)) /\ p.pos \in Nat
      <3>1. p.fed \in Nat /\ p.pos \in Nat /\ p.pos <= p.fed /\ p.fed = Len(Text[doc])
            /\ p.pos = NextStart(Len(nodes))
        BY <1>2 DEF IsBetween, InTheLoop
      <3> QED BY <2>6, <3>1 DEF Available
    <2>8. \A i \in 1..Len(p.stack) : p.stack[i].end # UnknownSize => ~(p.pos < p.stack[i].end)
      BY <2>1, <2>4 DEF FinalizeEOFResult
    <2>9. ASSUME NEW m \in DOMAIN nodes, Declared(m) PROVE Passed(m)
      <3>1. CASE \A i \in 1..Len(stack) : stack[i] # m
        BY <1>2, <2>9, <3>1 DEF InTheLoop
      <3>2. CASE \E i \in 1..Len(stack) : stack[i] = m
        <4>1. PICK i \in 1..Len(stack) : stack[i] = m
          BY <3>2
        <4>2. FrameOf(p.stack[i], m) /\ Under(m, Len(nodes))
          BY <1>1, <1>2, <4>1 DEF StacksInv, InTheLoop
        <4>3. EndOf(m) \in Nat
          BY <1>2, <2>9, NodesTyped DEF Declared
        <4>4. p.stack[i].end = EndOf(m) /\ p.stack[i].end # UnknownSize
          BY <2>9, <4>2, <4>3 DEF FrameOf, Declared, UnknownSize
        <4>5. EndOf(m) <= NextStart(Len(nodes))
          BY <1>2, <2>7, <2>8, <4>1, <4>3, <4>4
        <4>6. Len(nodes) \in DOMAIN nodes
          <5>1. DOMAIN nodes = 1..Len(nodes) /\ Len(nodes) \in Nat
            BY <1>2 DEF ParseTypes, IsSequence
          <5> QED BY <5>1
        <4> QED BY <4>2, <4>5, <4>6 DEF Passed
      <3> QED BY <3>1, <3>2
    <2> QED BY <2>7, <2>9 DEF AtItsEnd
  <1>6. phase' = "ok" => AtItsEnd'
    <2>1. AtItsEnd' <=> AtItsEnd
      BY <1>1, <1>4 DEF AtItsEnd
    <2> QED BY <1>5, <2>1
  <1>7. \A k \in DOMAIN nodes' : AsRead(k)'
    BY <1>1, <1>2, <1>4
  <1> QED BY <1>3, <1>6, <1>7 DEF ExactInv

LEMMA FailuresRead == ASSUME ExactInv, PeekFails \/ EndIsNone PROVE ExactInv'
  <1>1. /\ UNCHANGED <<doc, cap, nodes, edits>> /\ phase' \notin {"parsing", "ok"}
    BY ResultsAreVerdicts DEF PeekFails, EndIsNone, Parsing, Fails, Peeked
  <1>2. \A k : AsRead(k)' <=> AsRead(k)
    BY <1>1, ReadStays
  <1> QED BY <1>1, <1>2 DEF ExactInv

LEMMA WritingReads ==
  ASSUME ExactInv, UNCHANGED <<doc, cap, p, nodes, stack, phase, edits>>
  PROVE  ExactInv'
  <1>1. /\ \A k : (AsRead(k)' <=> AsRead(k)) /\ NextStart(k)' = NextStart(k)
        /\ \A k, m : Under(k, m)' <=> Under(k, m)
        /\ \A m : (Passed(m)' <=> Passed(m)) /\ (Declared(m)' <=> Declared(m))
    BY ReadStays
  <1>2. InTheLoop' <=> InTheLoop
    BY <1>1 DEF InTheLoop
  <1>3. AtItsEnd' <=> AtItsEnd
    BY <1>1 DEF AtItsEnd
  <1> QED BY <1>1, <1>2, <1>3 DEF ExactInv

LEMMA ExactInit == Init => ExactInv
  <1> SUFFICES ASSUME Init PROVE ExactInv
    OBVIOUS
  <1>1. /\ doc \in DOMAIN Documents /\ nodes = << >> /\ stack = << >> /\ phase = "parsing"
        /\ p = Feed(New(doc), Documents[doc].len)
    BY DEF Init
  <1>2. Documents[doc].start = 0 /\ Documents[doc].len = Len(Text[doc]) /\ Len(Text[doc]) \in Nat
    <2>1. Documents[doc] = Decoded(Text[doc]) /\ Text[doc] \in Seq(Range(Text[doc]))
      BY <1>1, TreeAssumption
    <2>2. Decoded(Text[doc]).start = 0 /\ Decoded(Text[doc]).len = Len(Text[doc])
      BY DEF Decoded
    <2> QED BY <2>1, <2>2
  <1>3. p.pos = 0 /\ p.fed = Len(Text[doc])
    BY <1>1, <1>2 DEF Feed, New
  <1>4. Len(nodes) = 0 /\ DOMAIN nodes = {} /\ Len(stack) = 0 /\ NextStart(0) = 0
    BY <1>1 DEF NextStart
  <1>5. InTheLoop
    <2>1. p.pos = NextStart(Len(nodes)) /\ p.pos <= p.fed
      BY <1>2, <1>3, <1>4
    <2> QED BY <1>3, <1>4, <2>1 DEF InTheLoop
  <1> QED BY <1>1, <1>4, <1>5 DEF ExactInv

LEMMA ExactNext == TreeStrong /\ ExactInv /\ [Next]_vars => ExactInv'
  <1> SUFFICES ASSUME TreeStrong, ExactInv, [Next]_vars PROVE ExactInv'
    OBVIOUS
  <1>1. CASE PeekFails \/ EndIsNone
    BY <1>1, FailuresRead
  <1>2. CASE MasterEnds \/ UnknownEnds
    BY <1>2, PopsRead
  <1>3. CASE Enter
    BY <1>3, EnterReads
  <1>4. CASE Leaf
    BY <1>4, LeafReads
  <1>5. CASE BufferEnds
    BY <1>5, BufferEndReads
  <1>6. CASE Marshal \/ SinkFails \/ UNCHANGED vars
    <2>1. UNCHANGED <<doc, cap, p, nodes, stack, phase, edits>>
      BY <1>6 DEF Marshal, SinkFails, vars
    <2> QED BY <2>1, WritingReads
  <1>7. ASSUME edits' = edits + 1 PROVE ExactInv'
    <2>1. edits \in Nat
      BY DEF TreeStrong, ParseTypes
    <2>2. edits' # 0
      BY <1>7, <2>1
    <2> QED BY <2>2 DEF ExactInv
  <1>8. ASSUME NEW k \in DOMAIN nodes, NEW n \in NewSizes,
               \/ IsMaster(k) /\ \E id \in NewIDs : AppendChild(k, id, n)
               \/ ~IsMaster(k) /\ ReplacePayload(k, n)
        PROVE  ExactInv'
    BY <1>7, <1>8 DEF AppendChild, ReplacePayload
  <1> QED BY <1>1, <1>2, <1>3, <1>4, <1>5, <1>6, <1>8 DEF Next

-----------------------------------------------------------------------------
(* What Marshal and its sink leave is of the tree.                         *)

WriteInv ==
  /\ cap \in Caps
  /\ phase = "parsing" => written = "no"
  /\ written # "no" =>
       \/ written = WriteOf(nodes).result /\ out = WriteOf(nodes).bytes
       \/ /\ written = "SinkFailed"
          /\ \E n \in 0..Len(WriteOf(nodes).bytes) : out = SubSeq(WriteOf(nodes).bytes, 1, n)

LEMMA WriteInit == Init => WriteInv
  BY DEF Init, WriteInv

LEMMA WriteNext == WriteInv /\ [Next]_vars => WriteInv'
  <1> SUFFICES ASSUME WriteInv, [Next]_vars PROVE WriteInv'
    OBVIOUS
  <1>1. CASE Parsing
    BY <1>1 DEF Parsing, WriteInv
  <1>2. CASE UNCHANGED vars
    BY <1>2 DEF vars, WriteInv
  <1>3. CASE Marshal
    BY <1>3 DEF Marshal, Parsed, WriteInv
  <1>4. CASE SinkFails
    <2>1. /\ UNCHANGED <<cap, nodes, phase>> /\ phase # "parsing" /\ written' = "SinkFailed"
          /\ \E n \in 0..Len(WriteOf(nodes).bytes) : out' = SubSeq(WriteOf(nodes).bytes, 1, n)
      BY <1>4 DEF SinkFails, Parsed
    <2> QED BY <2>1 DEF WriteInv
  <1>5. ASSUME Parsed, UNCHANGED <<cap, phase, written>> PROVE WriteInv'
    BY <1>5 DEF Parsed, WriteInv
  <1>6. ASSUME NEW k \in DOMAIN nodes, NEW n \in NewSizes,
               \/ IsMaster(k) /\ \E id \in NewIDs : AppendChild(k, id, n)
               \/ ~IsMaster(k) /\ ReplacePayload(k, n)
        PROVE  WriteInv'
    BY <1>5, <1>6 DEF AppendChild, ReplacePayload
  <1>7. PeekFails \/ MasterEnds \/ EndIsNone \/ UnknownEnds \/ Enter \/ Leaf \/ BufferEnds => Parsing
    BY DEF PeekFails, MasterEnds, EndIsNone, UnknownEnds, Enter, Leaf, BufferEnds
  <1> QED BY <1>1, <1>2, <1>3, <1>4, <1>6, <1>7 DEF Next

LEMMA ReadAndWritten == Spec => [](TreeStrong /\ ExactInv /\ WriteInv)
  <1> QED BY TreeStrongInit, TreeStrongNext, ExactInit, ExactNext, WriteInit, WriteNext, PTL DEF Spec

\* A document that Parse read without an error and without a cap is written back byte for
\* byte, every header at the width it had, and a sink that fails has taken a prefix of it:
\* for every text, every classifier and every nesting, unless something runs past a
\* declared end.
THEOREM TreesAreWrittenBack == Spec => []ByteExact
  <1>1. ASSUME TreeStrong, ExactInv, WriteInv PROVE ByteExact
    <2> SUFFICES ASSUME phase = "ok", cap < 0, edits = 0, written # "no", ~RunsPast
                 PROVE  IF written = "SinkFailed" THEN IsPrefix(out, Text[doc])
                        ELSE written = "ok" /\ out = Text[doc]
      BY DEF ByteExact
    <2>1. WellRead
      BY <1>1 DEF ExactInv, WellRead
    <2>2. cap \in Int
      BY <1>1, TreeAssumption DEF WriteInv
    <2>3. WriteOf(nodes).result = "ok" /\ WriteOf(nodes).bytes = Text[doc]
      <3>1. ~(cap >= 0)
        BY <2>2
      <3> QED BY <2>1, <3>1, WrittenAsRead DEF Good
    <2>4. CASE written = WriteOf(nodes).result /\ out = WriteOf(nodes).bytes
      BY <2>3, <2>4
    <2>5. CASE /\ written = "SinkFailed"
               /\ \E n \in 0..Len(WriteOf(nodes).bytes) : out = SubSeq(WriteOf(nodes).bytes, 1, n)
      <3> DEFINE T == Text[doc]
      <3>1. IsSequence(T) /\ Len(T) \in Nat
        BY <1>1, TextIs
      <3>2. PICK n \in 0..Len(T) : out = SubSeq(T, 1, n)
        BY <2>3, <2>5
      <3>3. Len(out) = n
        <4> DEFINE zero == 0
        <4>1. zero \in 0..Len(T) /\ n \in zero..Len(T) /\ n - zero = n /\ zero + 1 = 1
          BY <3>1
        <4> HIDE DEF zero, T
        <4>2. Len(Slice(T, zero, n)) = n - zero
          BY <3>1, <4>1, SliceIs
        <4> QED BY <3>2, <4>1, <4>2 DEF Slice
      <3>4. SubSeq(out, 1, n) = out
        <4>1. out \in Seq(Range(T))
          <5> DEFINE zero == 0
          <5>1. zero \in 0..Len(T) /\ n \in zero..Len(T) /\ zero + 1 = 1
            BY <3>1
          <5> HIDE DEF zero, T
          <5>2. Slice(T, zero, n) \in Seq(Range(T))
            BY <3>1, <5>1, SliceIs
          <5> QED BY <3>2, <5>1, <5>2 DEF Slice
        <4> HIDE DEF T
        <4> QED BY <3>3, <4>1, SubSeqFull
      <3>5. Len(out) <= Len(T) /\ SubSeq(out, 1, Len(out)) = SubSeq(T, 1, Len(out))
        BY <3>1, <3>2, <3>3, <3>4
      <3>6. IsPrefix(out, T)
        BY <3>5 DEF IsPrefix
      <3> QED BY <2>5, <3>6
    <2> QED BY <1>1, <2>3, <2>4, <2>5 DEF WriteInv
  <1> QED BY <1>1, ReadAndWritten, PTL

\* The verdict on the checksum of a parsed element is about the bytes of its document,
\* whatever its tree: right if it is the sum of the data as stored, wrong bytes before a
\* wrong place, nothing blamed or passed that a cap elided.
THEOREM VerdictsAreTheDocuments == Spec => []VerdictIsTheDocuments
  <1>1. ASSUME TreeStrong, ExactInv PROVE VerdictIsTheDocuments
    <2> SUFFICES ASSUME phase = "ok", edits = 0, ~RunsPast, NEW k \in DOMAIN nodes
                 PROVE  SaysRight(k)
      BY Zenon DEF VerdictIsTheDocuments, SaysRight
    <2>1. WellRead
      BY <1>1 DEF ExactInv, WellRead
    <2> QED BY <2>1, VerdictIsRight
  <1> QED BY <1>1, ReadAndWritten, PTL

=============================================================================
