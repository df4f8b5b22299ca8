---------------------------- MODULE Apply_proofs ----------------------------
(***************************************************************************)
(* Proofs about Apply, for every set of fields, every manifest, every      *)
(* combination of options and every bound: types, that the diff says the   *)
(* truth about the object and the manifest, that an apply does what the    *)
(* diff predicted and leaves nothing behind, and that a protected object   *)
(* is only replaced as it was read.                                        *)
(***************************************************************************)
EXTENDS Apply, TLAPS

-----------------------------------------------------------------------------
(* Objects that requests make                                               *)

\* The API server has filled in the defaults; owners own fields that are there;
\* a field that was not filled in has an owner.
WellFormed(l) ==
    /\ l \in LiveObjects
    /\ Has(Defaults) \subseteq Has(l.fields)
    /\ \A m \in Managers : l.by[m] \subseteq Has(l.fields)
    /\ l.keeper # None => l.applied # None
    /\ \A f \in Fields : \/ l.fields[f] \in {Absent, Defaults[f]}
                         \/ \E m \in Managers : f \in l.by[m]

\* A field of content over content.
LEMMA OverType ==
    ASSUME NEW c \in Contents, NEW d \in Contents
    PROVE  /\ Over(c, d) \in Contents
           /\ \A f \in Fields : Over(c, d)[f] = IF c[f] # Absent THEN c[f] ELSE d[f]
BY DEF Over, Contents

\* And of content without some fields.
LEMMA WithoutType ==
    ASSUME NEW c \in Contents, NEW s
    PROVE  /\ Without(c, s) \in Contents
           /\ \A f \in Fields : Without(c, s)[f] = IF f \in s THEN Absent ELSE c[f]
BY DEF Without, Contents

\* What a request makes of the fields and their owners.
LEMMA WrittenShape ==
    ASSUME NEW l \in LiveObjects, NEW fields \in Contents, NEW m \in Managers,
           NEW declared \in SUBSET Fields
    PROVE  LET w == Written(l, fields, m, declared) IN
           /\ w \in LiveObjects
           /\ w.fields = fields /\ w.applied = l.applied /\ w.keeper = l.keeper
           /\ \A x \in Managers, f \in Fields :
                 f \in w.by[x] <=>
                   /\ fields[f] # Absent
                   /\ IF x = m THEN f \in l.by[x] \/ fields[f] # l.fields[f] \/ f \in declared
                      ELSE f \in l.by[x] /\ fields[f] = l.fields[f]
<1> DEFINE changed == Changed(fields, l.fields)
           by == [x \in Managers |-> (IF x = m THEN l.by[x] \cup changed \cup declared
                                      ELSE l.by[x] \ changed) \cap Has(fields)]
<1>1. l.by \in [Managers -> SUBSET Fields]
  BY DEF LiveObjects
<1>2. Written(l, fields, m, declared) = [l EXCEPT !.fields = fields, !.by = by]
  BY DEF Written
<1>3. by \in [Managers -> SUBSET Fields]
  BY <1>1 DEF Has
<1>4. \A x \in Managers, f \in Fields :
         f \in by[x] <=>
           /\ fields[f] # Absent
           /\ IF x = m THEN f \in l.by[x] \/ fields[f] # l.fields[f] \/ f \in declared
              ELSE f \in l.by[x] /\ fields[f] = l.fields[f]
  BY DEF Has, Changed
<1> HIDE DEF by
<1>5. LET w == [l EXCEPT !.fields = fields, !.by = by] IN
      /\ w \in LiveObjects
      /\ w.fields = fields /\ w.applied = l.applied /\ w.keeper = l.keeper /\ w.by = by
  BY <1>3 DEF LiveObjects
<1> QED
  BY <1>2, <1>4, <1>5

\* A request keeps objects well formed, if it fills in the defaults.
LEMMA WrittenWell ==
    ASSUME NEW l, WellFormed(l), NEW fields \in Contents, NEW m \in Managers,
           NEW declared \in SUBSET Fields, Has(Defaults) \subseteq Has(fields)
    PROVE  WellFormed(Written(l, fields, m, declared))
<1> DEFINE w == Written(l, fields, m, declared)
<1>1. /\ w \in LiveObjects
      /\ w.fields = fields /\ w.applied = l.applied /\ w.keeper = l.keeper
      /\ \A x \in Managers, f \in Fields :
            f \in w.by[x] <=>
              /\ fields[f] # Absent
              /\ IF x = m THEN f \in l.by[x] \/ fields[f] # l.fields[f] \/ f \in declared
                 ELSE f \in l.by[x] /\ fields[f] = l.fields[f]
  BY WrittenShape DEF WellFormed
<1>2. w.by \in [Managers -> SUBSET Fields]
  BY <1>1 DEF LiveObjects
<1> HIDE DEF w
<1>3. \A x \in Managers : w.by[x] \subseteq Has(fields)
  BY <1>1, <1>2 DEF Has
<1>4. \A f \in Fields : \/ fields[f] \in {Absent, Defaults[f]}
                        \/ \E x \in Managers : f \in w.by[x]
  BY <1>1 DEF WellFormed
<1>5. WellFormed(w)
  BY <1>1, <1>3, <1>4 DEF WellFormed
<1> QED
  BY <1>5 DEF w

\* A new object.
LEMMA FreshShape ==
    ASSUME NEW c \in Contents, NEW m \in Managers
    PROVE  /\ WellFormed(Fresh(c, m))
           /\ Fresh(c, m).fields = Over(c, Defaults)
           /\ Fresh(c, m).applied = None /\ Fresh(c, m).keeper = None
           /\ Fresh(c, m).by = [NoOwners EXCEPT ![m] = Has(c)]
<1> DEFINE by == [NoOwners EXCEPT ![m] = Has(c)]
           r == Fresh(c, m)
<1>1. Defaults \in Contents
  BY ApplyAssumption
<1>2. by \in [Managers -> SUBSET Fields] /\ by[m] = Has(c)
  BY DEF NoOwners, Has
<1>3. r = [fields |-> Over(c, Defaults), applied |-> None, keeper |-> None, by |-> by]
  BY DEF Fresh
<1>4. \A x \in Managers : by[x] \subseteq Has(Over(c, Defaults))
  BY <1>1, OverType DEF NoOwners, Has
<1>5. /\ r \in LiveObjects
      /\ r.fields = Over(c, Defaults) /\ r.applied = None /\ r.keeper = None /\ r.by = by
  BY <1>1, <1>2, <1>3, OverType DEF LiveObjects
<1>6. WellFormed(r)
  BY <1>1, <1>2, <1>4, <1>5, OverType DEF WellFormed, Has
<1> QED
  BY <1>5, <1>6

-----------------------------------------------------------------------------
(* What kubectl and the API server make of an object                        *)

\* Client-side apply: the manifest, over what is there and the last one had not.
LEMMA ClientShape ==
    ASSUME NEW l, l = None \/ WellFormed(l), NEW c \in Contents, NEW m \in Managers
    PROVE  LET r == ClientApply(l, c, m) IN
           /\ WellFormed(r) /\ r.applied = c /\ r.keeper = m
           /\ \A f \in Fields :
                 r.fields[f] = IF c[f] # Absent THEN c[f]
                               ELSE IF \/ l = None \/ l.fields[f] = Absent
                                       \/ l.applied # None /\ l.applied[f] # Absent
                                    THEN Defaults[f] ELSE l.fields[f]
           /\ l = None => \A x \in Managers \ {m} : r.by[x] = {}
           /\ l # None => \A x \in Managers \ {m}, f \in Fields :
                             f \in r.by[x] <=> f \in l.by[x] /\ r.fields[f] = l.fields[f]
                                               /\ r.fields[f] # Absent
<1> DEFINE r == ClientApply(l, c, m)
<1>1. Defaults \in Contents /\ None \notin Contents /\ None \notin Managers
  BY ApplyAssumption
<1>2. CASE l = None
  <2>1. r = [Fresh(c, m) EXCEPT !.applied = c, !.keeper = m]
    BY <1>2 DEF ClientApply
  <2>2. /\ WellFormed(Fresh(c, m)) /\ Fresh(c, m) \in LiveObjects
        /\ Fresh(c, m).fields = Over(c, Defaults)
        /\ Fresh(c, m).by = [NoOwners EXCEPT ![m] = Has(c)]
    BY FreshShape DEF WellFormed
  <2>3. /\ r \in LiveObjects /\ r.fields = Over(c, Defaults)
        /\ r.applied = c /\ r.keeper = m
        /\ r.by = [NoOwners EXCEPT ![m] = Has(c)]
    BY <2>1, <2>2 DEF LiveObjects
  <2> HIDE DEF r
  <2>4. WellFormed(r)
    BY <1>1, <2>2, <2>3 DEF WellFormed
  <2> QED
    BY <1>1, <1>2, <2>3, <2>4, OverType DEF r, NoOwners
<1>3. CASE l # None
  <2> DEFINE gone == IF l.applied = None THEN {} ELSE Has(l.applied) \ Has(c)
             fields == Over(Over(c, Without(l.fields, gone)), Defaults)
             w == Written(l, fields, m, {})
  <2>1. r = [w EXCEPT !.applied = c, !.keeper = m]
    BY <1>3 DEF ClientApply
  <2>2. WellFormed(l) /\ l \in LiveObjects /\ l.fields \in Contents
    BY <1>3 DEF WellFormed, LiveObjects
  <2>3. /\ fields \in Contents
        /\ \A f \in Fields :
              fields[f] = IF c[f] # Absent THEN c[f]
                          ELSE IF f \notin gone /\ l.fields[f] # Absent THEN l.fields[f]
                          ELSE Defaults[f]
    BY <1>1, <2>2, OverType, WithoutType
  <2>4. \A f \in Fields : c[f] = Absent =>
           (f \in gone <=> l.applied # None /\ l.applied[f] # Absent)
    BY DEF Has
  <2> HIDE DEF gone, fields
  <2>5. Has(Defaults) \subseteq Has(fields)
    BY <2>3 DEF Has
  <2>6. /\ WellFormed(w) /\ w \in LiveObjects /\ w.fields = fields
        /\ \A x \in Managers, f \in Fields :
              f \in w.by[x] <=>
                /\ fields[f] # Absent
                /\ IF x = m THEN f \in l.by[x] \/ fields[f] # l.fields[f]
                   ELSE f \in l.by[x] /\ fields[f] = l.fields[f]
    BY <2>2, <2>3, <2>5, WrittenShape, WrittenWell
  <2> HIDE DEF w
  <2>7. /\ r \in LiveObjects /\ r.fields = fields /\ r.by = w.by
        /\ r.applied = c /\ r.keeper = m
    BY <2>1, <2>6 DEF LiveObjects
  <2> HIDE DEF r
  <2>8. WellFormed(r)
    BY <1>1, <2>6, <2>7 DEF WellFormed
  <2> QED
    BY <1>1, <1>3, <2>3, <2>4, <2>6, <2>7, <2>8 DEF r
<1> QED
  BY <1>2, <1>3

\* What server-side apply owns, with what it takes over from the keeper.
TakenOver(l) == l.by["server"] \cup (IF l.keeper = None THEN {} ELSE l.by[l.keeper])

\* And what others own besides.
HeldBack(l) == UNION {l.by[m] : m \in Managers \ {"server", l.keeper}}

\* Server-side apply: the manifest, over what is there and is not its own alone.
LEMMA ServerShape ==
    ASSUME NEW l, WellFormed(l), l # None, NEW c \in Contents
    PROVE  LET r == ServerApply(l, c) IN
           /\ WellFormed(r)
           /\ r.applied \in {None, c} /\ r.keeper = None /\ r.by["server"] = Has(c)
           /\ \A f \in Fields :
                 r.fields[f] = IF c[f] # Absent THEN c[f]
                               ELSE IF \/ l.fields[f] = Absent
                                       \/ f \in TakenOver(l) \ HeldBack(l)
                                    THEN Defaults[f] ELSE l.fields[f]
           /\ \A x \in Managers \ {"server", l.keeper}, f \in Fields :
                 f \in r.by[x] <=> /\ f \in l.by[x] /\ r.fields[f] = l.fields[f]
                                  /\ r.fields[f] # Absent
           /\ \A x \in Managers \ {"server"} :
                 \A f \in r.by[x] : f \in l.by[x] /\ x # l.keeper
<1> DEFINE taken == IF l.keeper = None THEN {} ELSE l.by[l.keeper]
           by == [m \in Managers |-> IF m = "server" THEN l.by[m] \cup taken
                                     ELSE IF m = l.keeper THEN {} ELSE l.by[m]]
           gone == {f \in by["server"] \ Has(c) :
                      \A m \in Managers \ {"server"} : f \notin by[m]}
           fields == Over(Over(c, Without(l.fields, gone)), Defaults)
           old == [l EXCEPT !.by = by]
           written == Written(old, fields, "server", Has(c))
           a == IF l.applied = None THEN None ELSE c
           r == ServerApply(l, c)
<1>1. Defaults \in Contents /\ None \notin Contents /\ None \notin Managers
  BY ApplyAssumption
<1>2. /\ l \in LiveObjects /\ l.fields \in Contents /\ l.by \in [Managers -> SUBSET Fields]
      /\ l.keeper \in Managers \cup {None}
      /\ \A m \in Managers : l.by[m] \subseteq Has(l.fields)
  BY DEF WellFormed, LiveObjects
<1>3. /\ taken \subseteq Has(l.fields) /\ taken \subseteq Fields
      /\ TakenOver(l) = l.by["server"] \cup taken
  BY <1>2 DEF TakenOver, Managers
<1> HIDE DEF taken
<1>4. /\ by \in [Managers -> SUBSET Fields]
      /\ \A m \in Managers : by[m] \subseteq Has(l.fields)
      /\ by["server"] = TakenOver(l)
      /\ \A m \in Managers \ {"server", l.keeper} : by[m] = l.by[m]
      /\ \A m \in Managers \ {"server"} : m = l.keeper => by[m] = {}
  BY <1>2, <1>3 DEF Managers
<1> HIDE DEF by
<1>5. \A f \in Fields : f \in gone <=> c[f] = Absent /\ f \in TakenOver(l) \ HeldBack(l)
  BY <1>2, <1>4 DEF Has, HeldBack
<1> HIDE DEF gone
<1>6. /\ fields \in Contents
      /\ \A f \in Fields :
            fields[f] = IF c[f] # Absent THEN c[f]
                        ELSE IF \/ l.fields[f] = Absent
                                \/ f \in TakenOver(l) \ HeldBack(l)
                             THEN Defaults[f] ELSE l.fields[f]
  BY <1>1, <1>2, <1>5, OverType, WithoutType
<1> HIDE DEF fields
<1>7. /\ old \in LiveObjects /\ old.by = by
      /\ old.fields = l.fields /\ old.applied = l.applied /\ old.keeper = l.keeper
  BY <1>2, <1>4 DEF LiveObjects
<1> HIDE DEF old
<1>8. Has(c) \in SUBSET Fields /\ "server" \in Managers
  BY DEF Has, Managers
<1>9. /\ written \in LiveObjects
      /\ written.fields = fields /\ written.applied = l.applied /\ written.keeper = l.keeper
      /\ \A x \in Managers, f \in Fields :
            f \in written.by[x] <=>
              /\ fields[f] # Absent
              /\ IF x = "server" THEN f \in by[x] \/ fields[f] # l.fields[f] \/ f \in Has(c)
                 ELSE f \in by[x] /\ fields[f] = l.fields[f]
  BY <1>6, <1>7, <1>8, WrittenShape
<1>10. r = [written EXCEPT !.applied = a, !.keeper = None, !.by["server"] = Has(c)]
  BY <1>7 DEF ServerApply, taken, by, gone, fields, old
<1>11. a \in Contents \cup {None} /\ a \in {None, c}
  OBVIOUS
<1> HIDE DEF written, a
<1>12. written.by \in [Managers -> SUBSET Fields]
  BY <1>9 DEF LiveObjects
<1> DEFINE owned == [written.by EXCEPT !["server"] = Has(c)]
<1>13. /\ owned \in [Managers -> SUBSET Fields] /\ owned["server"] = Has(c)
       /\ \A x \in Managers \ {"server"} : owned[x] = written.by[x]
  BY <1>8, <1>12
<1>14. r = [written EXCEPT !.applied = a, !.keeper = None, !.by = owned]
  BY <1>9, <1>10 DEF LiveObjects
<1> HIDE DEF owned
<1>15. /\ r \in LiveObjects /\ r.fields = fields /\ r.applied = a /\ r.keeper = None
       /\ r.by = owned
  BY <1>9, <1>11, <1>13, <1>14 DEF LiveObjects
<1> HIDE DEF r
<1>16. /\ r.by["server"] = Has(c)
       /\ \A x \in Managers \ {"server"}, f \in Fields :
             f \in r.by[x] <=> /\ f \in by[x] /\ fields[f] = l.fields[f]
                              /\ fields[f] # Absent
  BY <1>8, <1>9, <1>13, <1>15
<1>17. WellFormed(r)
  <2>1. Has(Defaults) \subseteq Has(fields)
    BY <1>6 DEF Has
  <2>2. \A m \in Managers : r.by[m] \subseteq Has(fields)
    BY <1>6, <1>15, <1>16 DEF Has, LiveObjects
  <2>3. ASSUME NEW f \in Fields
        PROVE  \/ fields[f] \in {Absent, Defaults[f]}
               \/ \E m \in Managers : f \in r.by[m]
    <3>1. CASE c[f] # Absent
      BY <1>8, <1>16, <3>1 DEF Has
    <3>2. CASE c[f] = Absent /\ fields[f] # l.fields[f]
      BY <1>6, <3>2
    <3>3. CASE c[f] = Absent /\ fields[f] = l.fields[f] /\ fields[f] \notin {Absent, Defaults[f]}
      <4>1. f \notin TakenOver(l) \ HeldBack(l)
        BY <1>6, <3>3
      <4>2. PICK m \in Managers : f \in l.by[m]
        BY <3>3 DEF WellFormed
      <4>3. f \in HeldBack(l)
        BY <1>1, <4>1, <4>2 DEF TakenOver, HeldBack
      <4>4. PICK x \in Managers \ {"server", l.keeper} : f \in l.by[x]
        BY <4>3 DEF HeldBack
      <4> QED
        BY <1>4, <1>16, <3>3, <4>4
    <3> QED
      BY <3>1, <3>2, <3>3
  <2> QED
    BY <1>15, <2>1, <2>2, <2>3 DEF WellFormed
<1>18. \A x \in Managers \ {"server"} : \A f \in r.by[x] : f \in l.by[x] /\ x # l.keeper
  <2> SUFFICES ASSUME NEW x \in Managers \ {"server"}, NEW f \in r.by[x]
               PROVE  f \in l.by[x] /\ x # l.keeper
    OBVIOUS
  <2>1. f \in Fields /\ f \in by[x]
    BY <1>15, <1>16 DEF LiveObjects
  <2> QED
    BY <1>4, <2>1
<1> QED
  BY <1>4, <1>6, <1>11, <1>15, <1>16, <1>17, <1>18 DEF r

\* kubectl replace, or an update: the manifest.
LEMMA ReplacedShape ==
    ASSUME NEW l, WellFormed(l), NEW c \in Contents
    PROVE  LET r == Replaced(l, c) IN
           /\ WellFormed(r) /\ r.applied = None /\ r.keeper = None
           /\ \A f \in Fields : r.fields[f] = IF c[f] # Absent THEN c[f] ELSE Defaults[f]
           /\ r.by["server"] \subseteq l.by["server"]
<1> DEFINE fields == Over(c, Defaults)
           w == Written(l, fields, "client", {})
           r == Replaced(l, c)
<1>1. Defaults \in Contents /\ "client" \in Managers /\ l \in LiveObjects
  BY ApplyAssumption DEF Managers, WellFormed
<1>2. /\ fields \in Contents /\ Has(Defaults) \subseteq Has(fields)
      /\ \A f \in Fields : fields[f] = IF c[f] # Absent THEN c[f] ELSE Defaults[f]
  BY <1>1, OverType DEF Has
<1> HIDE DEF fields
<1>3. /\ WellFormed(w) /\ w \in LiveObjects /\ w.fields = fields
      /\ \A f \in Fields : f \in w.by["server"] => f \in l.by["server"]
  BY <1>1, <1>2, WrittenShape, WrittenWell DEF Managers
<1>4. r = [w EXCEPT !.applied = None, !.keeper = None]
  BY DEF Replaced, fields
<1> HIDE DEF w
<1>5. /\ r \in LiveObjects /\ r.fields = fields /\ r.by = w.by
      /\ r.applied = None /\ r.keeper = None
  BY <1>3, <1>4 DEF LiveObjects
<1> HIDE DEF r
<1>6. WellFormed(r)
  BY <1>3, <1>5 DEF WellFormed
<1>7. r.by["server"] \subseteq l.by["server"]
  BY <1>3, <1>5 DEF LiveObjects, Managers
<1> QED
  BY <1>2, <1>5, <1>6, <1>7 DEF r

-----------------------------------------------------------------------------
(* What a diff predicts                                                     *)

\* The normalizer removes the ignored fields, and what the schema knows is filled in.
LEMMA NormalForms ==
    ASSUME NEW c \in Contents
    PROVE  /\ Normalize(c) \in Contents /\ WithDefaults(c) \in Contents
           /\ \A f \in Fields : Normalize(c)[f] = IF f \in setup.ignored THEN Absent ELSE c[f]
           /\ \A f \in Fields : WithDefaults(c)[f] = IF setup.known /\ c[f] = Absent
                                                     THEN Defaults[f] ELSE c[f]
<1>1. Defaults \in Contents
  BY ApplyAssumption
<1> QED
  BY <1>1, OverType, WithoutType DEF Normalize, WithDefaults

\* A verdict compares two contents.
LEMMA VerdictShape ==
    ASSUME NEW p \in Contents, NEW q \in Contents
    PROVE  /\ Verdict(p, q) \in [modified : BOOLEAN, predicted : Contents]
           /\ Verdict(p, q).predicted = p
           /\ Verdict(p, q).modified <=> \E f \in Fields : p[f] # q[f]
<1>1. (p # q) <=> \E f \in Fields : p[f] # q[f]
  BY DEF Contents
<1>2. (p # q) \in BOOLEAN
  OBVIOUS
<1> QED
  BY <1>1, <1>2 DEF Verdict

\* What a three-way patch of l makes of each field.
Patched(p, orig, c, l) ==
    \A f \in Fields :
       p[f] = IF c[f] # Absent THEN c[f]
              ELSE IF orig[f] = Absent /\ l[f] # Absent THEN l[f]
              ELSE IF setup.known THEN Defaults[f] ELSE Absent

\* The patch sets what the manifest has and drops what only the last one had.
LEMMA ThreeWayShape ==
    ASSUME NEW orig \in Contents, NEW c \in Contents, NEW l \in Contents
    PROVE  \E p \in Contents :
              /\ ThreeWayDiff(orig, c, l) = Verdict(p, WithDefaults(l))
              /\ Patched(p, orig, c, l)
<1> DEFINE current == IF setup.known THEN l ELSE Without(l, Fields \ Has(orig))
           gone == Has(orig) \ Has(c)
           set == [f \in Fields |-> IF c[f] # current[f] THEN c[f] ELSE Absent]
           raw == Over(set, Without(l, gone))
           p == WithDefaults(raw)
<1>1. \A f \in Fields : current[f] # Absent => current[f] = l[f]
  BY WithoutType
<1>2. ThreeWayDiff(orig, c, l) = Verdict(p, WithDefaults(l))
  BY DEF ThreeWayDiff
<1> HIDE DEF current
<1>3. set \in Contents
  BY DEF Contents
<1>4. \A f \in Fields : f \in gone <=> orig[f] # Absent /\ c[f] = Absent
  BY DEF Has
<1>5. \A f \in Fields : set[f] = IF c[f] # current[f] THEN c[f] ELSE Absent
  OBVIOUS
<1> HIDE DEF set, gone
<1>6. /\ raw \in Contents
      /\ \A f \in Fields : raw[f] = IF set[f] # Absent THEN set[f]
                                    ELSE IF f \in gone THEN Absent ELSE l[f]
  BY <1>3, OverType, WithoutType
<1> HIDE DEF raw
<1>7. \A f \in Fields : raw[f] = IF c[f] # Absent THEN c[f]
                                 ELSE IF orig[f] = Absent THEN l[f] ELSE Absent
  BY <1>1, <1>4, <1>5, <1>6
<1>8. /\ p \in Contents
      /\ \A f \in Fields : p[f] = IF setup.known /\ raw[f] = Absent THEN Defaults[f] ELSE raw[f]
  BY <1>6, NormalForms
<1> HIDE DEF p
<1>9. Patched(p, orig, c, l)
  BY <1>7, <1>8 DEF Patched
<1> QED
  BY <1>2, <1>8, <1>9

\* A webhook changes fields that are not in the manifest.
LEMMA MutationShape ==
    ASSUME NEW c \in Contents, NEW m \in Mutations(c)
    PROVE  m \in Contents /\ \A f \in Has(c) : m[f] = Absent
<1>1. Empty \in Contents
  BY DEF Empty, Contents
<1> QED
  BY <1>1 DEF Mutations, Empty, Contents, Has

\* What is gone when the manifest no longer has it, as each diff sees it.
Forgone(l) ==
    IF setup.diff = "serverSide" THEN TakenOver(l) \ HeldBack(l)
    ELSE IF setup.diff = "structured"
         THEN l.by["server"] \ UNION {l.by[m] : m \in Managers \ {"server"}}
    ELSE IF l.applied = None THEN {} ELSE Has(l.applied)

\* The prediction, by the diff that makes it, for each field that is not ignored.
Foreseen(p, c, l, m) ==
    \A f \in Counted :
       /\ c[f] # Absent => p[f] = c[f]
       /\ c[f] = Absent /\ f \notin Forgone(l) =>
             \/ p[f] = l.fields[f]
             \/ setup.diff = "serverSide" /\ m[f] # Absent /\ f \in Revealed(l)
       /\ c[f] = Absent /\ f \in Forgone(l) =>
             IF setup.diff = "serverSide" /\ ~setup.mutations
             THEN p[f] = IF Defaults[f] = Absent /\ m[f] = Absent THEN Absent
                         ELSE l.fields[f]
             ELSE m[f] = Absent \/ setup.diff # "serverSide" => p[f] \in {Absent, Defaults[f]}

\* The dry run on the object that was read.
LEMMA ServerSideShape ==
    ASSUME setup \in Setups, setup.diff = "serverSide", NEW c \in Contents,
           NEW l, WellFormed(l), l # None, NEW m \in Mutations(c)
    PROVE  \E p \in Contents :
              /\ ServerSideDiff(c, l, l, m) = Verdict(p, Normalize(l.fields))
              /\ \A f \in Fields \ Counted : p[f] = Absent
              /\ Foreseen(p, c, l, m)
<1> DEFINE r == ServerApply(l, c)
           shown == Over(m, r.fields)
           predicted == [r EXCEPT !.fields = Over(m, @)]
           removed == Has(l.fields) \ Has(predicted.fields)
           merged == [f \in Fields |->
                        IF f \in Owned(predicted) THEN predicted.fields[f]
                        ELSE IF f \in removed THEN Absent ELSE l.fields[f]]
           p == Normalize(merged)
<1>1. /\ r \in LiveObjects /\ r.by["server"] = Has(c)
      /\ \A f \in Fields :
            r.fields[f] = IF c[f] # Absent THEN c[f]
                          ELSE IF \/ l.fields[f] = Absent
                                  \/ f \in TakenOver(l) \ HeldBack(l)
                               THEN Defaults[f] ELSE l.fields[f]
  BY ServerShape DEF WellFormed
<1>15. \A f \in r.by["client"] : f \in l.by["client"] /\ f \in HeldBack(l)
  <2>1. "client" \in Managers \ {"server"}
    BY DEF Managers
  <2>2. \A f \in r.by["client"] : f \in l.by["client"] /\ "client" # l.keeper
    BY <2>1, ServerShape DEF WellFormed
  <2> QED
    BY <2>1, <2>2 DEF HeldBack
<1>2. ServerSideDiff(c, l, l, m) = Verdict(p, Normalize(l.fields))
  BY DEF ServerSideDiff
<1> HIDE DEF r
<1>3. m \in Contents /\ (\A f \in Has(c) : m[f] = Absent) /\ l.fields \in Contents
      /\ r.fields \in Contents
  BY <1>1, MutationShape DEF WellFormed, LiveObjects
<1>4. predicted = [r EXCEPT !.fields = shown]
  BY <1>1 DEF LiveObjects
<1>5. /\ shown \in Contents
      /\ \A f \in Fields : shown[f] = IF m[f] # Absent THEN m[f] ELSE r.fields[f]
  BY <1>3, OverType
<1> HIDE DEF shown, predicted
<1>6. /\ predicted.fields = shown /\ predicted.by["server"] = Has(c)
      /\ predicted.by["client"] = r.by["client"]
  BY <1>1, <1>4, <1>5 DEF LiveObjects
<1>7. \A f \in Fields : f \in removed <=> l.fields[f] # Absent /\ shown[f] = Absent
  BY <1>6 DEF Has
<1> HIDE DEF removed
<1>8. /\ merged \in Contents
      /\ \A f \in Fields :
            merged[f] = IF f \in Owned(predicted) THEN shown[f]
                        ELSE IF l.fields[f] # Absent /\ shown[f] = Absent THEN Absent
                        ELSE l.fields[f]
  BY <1>3, <1>5, <1>6, <1>7 DEF Has, Contents
<1>13. \A f \in Has(c) : f \in Owned(predicted)
  BY <1>6 DEF Owned, Has
<1>14. \A f \in Fields : f \in Owned(predicted) /\ c[f] = Absent =>
          f \in Revealed(l) /\ (f \in HeldBack(l) \/ setup.mutations)
  BY <1>4, <1>6, <1>15 DEF Owned, Revealed, Has
<1> HIDE DEF merged
<1>9. /\ p \in Contents
      /\ \A f \in Fields : p[f] = IF f \in setup.ignored THEN Absent ELSE merged[f]
  BY <1>8, NormalForms
<1> HIDE DEF p
<1>10. \A f \in Fields \ Counted : p[f] = Absent
  BY <1>9 DEF Counted
<1>11. ASSUME NEW f \in Counted
       PROVE  /\ c[f] # Absent => p[f] = c[f]
              /\ c[f] = Absent /\ f \notin Forgone(l) =>
                    p[f] = l.fields[f] \/ (m[f] # Absent /\ f \in Revealed(l))
              /\ c[f] = Absent /\ f \in Forgone(l) =>
                    IF ~setup.mutations
                    THEN p[f] = IF Defaults[f] = Absent /\ m[f] = Absent THEN Absent
                                ELSE l.fields[f]
                    ELSE m[f] = Absent => p[f] \in {Absent, Defaults[f]}
  <2>1. f \in Fields /\ p[f] = merged[f]
    BY <1>9 DEF Counted
  <2>2. f \in Forgone(l) <=> f \in TakenOver(l) \ HeldBack(l)
    BY DEF Forgone
  <2>3. Defaults[f] # Absent => l.fields[f] # Absent
    BY <2>1 DEF WellFormed, Has
  <2>4. setup.mutations => f \in Owned(predicted)
    BY <2>1 DEF Owned
  <2> QED
    BY <1>1, <1>3, <1>5, <1>8, <1>13, <1>14, <2>1, <2>2, <2>3, <2>4 DEF Has
<1>12. Foreseen(p, c, l, m)
  BY <1>11 DEF Foreseen
<1> QED
  BY <1>2, <1>9, <1>10, <1>12

\* Every diff of an object that is there, on what was read.
LEMMA DiffShape ==
    ASSUME setup \in Setups, NEW c \in Contents,
           NEW l, WellFormed(l), l # None, NEW m \in Mutations(c)
    PROVE  \E p \in Contents, q \in Contents :
              /\ Diff(c, l, l, m) = Verdict(p, q)
              /\ \A f \in Fields \ Counted : p[f] = q[f]
              /\ \A f \in Counted : q[f] = l.fields[f]
              /\ Foreseen(p, c, l, m)
<1>1. /\ l \in LiveObjects /\ l.fields \in Contents /\ l.by \in [Managers -> SUBSET Fields]
      /\ l.applied # None => l.applied \in Contents
      /\ \A f \in Fields : Defaults[f] # Absent => l.fields[f] # Absent
  BY DEF WellFormed, LiveObjects, Has
<1>2. setup.diff \in {"threeWay", "structured", "serverSide"}
  BY ApplyAssumption
<1> DEFINE nc == Normalize(c)
           nl == Normalize(l.fields)
           ql == WithDefaults(nl)
<1>3. /\ nc \in Contents /\ nl \in Contents /\ ql \in Contents
      /\ \A f \in Fields : nc[f] = IF f \in setup.ignored THEN Absent ELSE c[f]
      /\ \A f \in Fields : nl[f] = IF f \in setup.ignored THEN Absent ELSE l.fields[f]
      /\ \A f \in Fields : ql[f] = IF setup.known /\ nl[f] = Absent THEN Defaults[f] ELSE nl[f]
  BY <1>1, NormalForms
<1>4. CASE setup.diff = "serverSide"
  <2>1. Diff(c, l, l, m) = ServerSideDiff(c, l, l, m)
    BY <1>4 DEF Diff
  <2>2. PICK p \in Contents :
           /\ ServerSideDiff(c, l, l, m) = Verdict(p, nl)
           /\ \A f \in Fields \ Counted : p[f] = Absent
           /\ Foreseen(p, c, l, m)
    BY <1>4, ServerSideShape
  <2> QED
    BY <1>3, <2>1, <2>2 DEF Counted
<1>5. CASE setup.diff = "structured"
  <2> DEFINE gone == {f \in l.by["server"] \ Has(nc) :
                        \A x \in Managers \ {"server"} : f \notin l.by[x]}
             raw == Over(nc, Without(nl, gone))
             p == WithDefaults(raw)
  <2>1. Diff(c, l, l, m) = Verdict(p, ql)
    BY <1>5 DEF Diff, StructuredMergeDiff
  <2>2. \A f \in Fields : f \in gone <=> nc[f] = Absent /\ f \in Forgone(l)
    BY <1>5 DEF Forgone, Has
  <2> HIDE DEF gone, nc, nl, ql
  <2>3. /\ raw \in Contents
        /\ \A f \in Fields : raw[f] = IF nc[f] # Absent THEN nc[f]
                                      ELSE IF f \in gone THEN Absent ELSE nl[f]
    BY <1>3, OverType, WithoutType
  <2> HIDE DEF raw
  <2>4. /\ p \in Contents
        /\ \A f \in Fields : p[f] = IF setup.known /\ raw[f] = Absent THEN Defaults[f] ELSE raw[f]
    BY <2>3, NormalForms
  <2> HIDE DEF p
  <2>5. \A f \in Fields \ Counted : p[f] = ql[f]
    BY <1>3, <2>3, <2>4 DEF Counted
  <2>6. \A f \in Counted : ql[f] = l.fields[f]
    BY <1>1, <1>3 DEF Counted
  <2>7. Foreseen(p, c, l, m)
    BY <1>1, <1>3, <1>5, <2>2, <2>3, <2>4 DEF Counted, Foreseen
  <2> QED
    BY <1>3, <2>1, <2>4, <2>5, <2>6, <2>7
<1>6. CASE setup.diff = "threeWay"
  <2> DEFINE orig == IF l.applied # None THEN Normalize(l.applied) ELSE nc
  <2>1. Diff(c, l, l, m) = ThreeWayDiff(orig, nc, nl)
    BY <1>6 DEF Diff, TwoWayDiff
  <2>2. /\ orig \in Contents
        /\ \A f \in Counted : nc[f] = Absent => (orig[f] # Absent <=> f \in Forgone(l))
    BY <1>1, <1>3, <1>6, NormalForms DEF Forgone, Has, Counted
  <2>3. \A f \in Fields \ Counted : orig[f] = Absent
    BY <1>1, <1>3, NormalForms DEF Counted
  <2> HIDE DEF orig, nc, nl
  <2>4. PICK p \in Contents :
           ThreeWayDiff(orig, nc, nl) = Verdict(p, ql) /\ Patched(p, orig, nc, nl)
    <3>1. nc \in Contents /\ nl \in Contents /\ orig \in Contents
      BY <1>3, <2>2
    <3> QED
      BY ONLY <3>1, ThreeWayShape
  <2> HIDE DEF ql
  <2>5. \A f \in Fields \ Counted : p[f] = ql[f]
    BY <1>3, <2>3, <2>4 DEF Counted, Patched
  <2>6. \A f \in Counted : ql[f] = l.fields[f]
    BY <1>1, <1>3 DEF Counted
  <2>7. Foreseen(p, c, l, m)
    BY <1>1, <1>3, <1>6, <2>2, <2>4 DEF Counted, Foreseen, Patched
  <2> QED
    BY <1>3, <2>1, <2>4, <2>5, <2>6, <2>7
<1> QED
  BY <1>2, <1>4, <1>5, <1>6
\* A diff has a verdict and a prediction, whatever it was computed on.
LEMMA DiffType ==
    ASSUME setup \in Setups, NEW c \in Contents, NEW l, l = None \/ WellFormed(l),
           NEW now, now = None \/ WellFormed(now), NEW m \in Mutations(c)
    PROVE  Diff(c, l, now, m) \in [modified : BOOLEAN, predicted : Contents]
<1>1. CASE l = None
  BY <1>1 DEF Diff
<1>2. CASE l # None /\ setup.diff # "serverSide"
  <2>1. Diff(c, l, now, m) = Diff(c, l, l, m)
    BY <1>2 DEF Diff
  <2> QED
    BY <1>2, <2>1, DiffShape, VerdictShape
<1>3. CASE l # None /\ setup.diff = "serverSide"
  <2> DEFINE r == ServerApply(now, c)
             predicted == [r EXCEPT !.fields = Over(m, @)]
             removed == Has(l.fields) \ Has(predicted.fields)
             merged == [f \in Fields |->
                          IF f \in Owned(predicted) THEN predicted.fields[f]
                          ELSE IF f \in removed THEN Absent ELSE l.fields[f]]
  <2>1. Diff(c, l, now, m) = Verdict(Normalize(merged), Normalize(l.fields))
    BY <1>3 DEF Diff, ServerSideDiff
  <2>2. r \in LiveObjects
    <3>1. CASE now = None
      BY <3>1, FreshShape DEF ServerApply, WellFormed, Managers
    <3>2. CASE now # None
      BY <3>2, ServerShape DEF WellFormed
    <3> QED
      BY <3>1, <3>2
  <2> HIDE DEF r
  <2>3. Over(m, r.fields) \in Contents /\ l.fields \in Contents
    BY <1>3, <2>2, MutationShape, OverType DEF LiveObjects, WellFormed
  <2>4. predicted.fields \in Contents
    BY <2>2, <2>3 DEF LiveObjects
  <2> HIDE DEF predicted, removed
  <2>5. merged \in Contents
    BY <2>3, <2>4 DEF Contents
  <2> HIDE DEF merged
  <2> QED
    BY <2>1, <2>3, <2>5, NormalForms, VerdictShape
<1> QED
  BY <1>1, <1>2, <1>3

-----------------------------------------------------------------------------
(* The invariant                                                            *)

\* Types: an object is well formed, and fresh means what it says.
ObjectsInv ==
    /\ setup \in Setups /\ serverSide \in BOOLEAN
    /\ config \in Contents /\ target \in Contents
    /\ (live = None \/ WellFormed(live)) /\ (snap = None \/ WellFormed(snap))
    /\ pc \in {"idle", "read", "apply", "migrated"}
    /\ fresh \in BOOLEAN /\ clean \in BOOLEAN
    /\ diff \in [modified : BOOLEAN, predicted : Contents]
    /\ ours \subseteq Fields
    /\ fresh => live = snap

\* Only server-side apply gives fields to its manager.
NoServerOwner == live # None /\ (~serverSide \/ setup.replace) => live.by["server"] = {}

\* What the last apply has left, as long as nothing has changed.
Settled(c, l) ==
    /\ \A f \in Has(c) : l.fields[f] = c[f]
    /\ l.applied \in {None, c}
    /\ l.by["server"] \subseteq Has(c)
    /\ serverSide => l.keeper = None

CleanInv ==
    clean => /\ pc # "idle" => target = config
             /\ live # None => Settled(config, live)

\* Client-side apply drops what the annotation has; what we have set is there.
Annotated ==
    ~serverSide /\ ~setup.replace /\ live # None =>
        \A f \in ours : \/ live.applied # None /\ live.applied[f] # Absent
                        \/ live.fields[f] \in {Absent, Defaults[f]}

\* The diff foresees what becomes of the object that was read.
DiffInv ==
    pc \in {"apply", "migrated"} /\ fresh /\ snap # None =>
        \E m \in Mutations(target) : Foreseen(diff.predicted, target, snap, m)

IInv == ObjectsInv /\ NoServerOwner /\ CleanInv /\ Annotated /\ DroppedAreGone /\ DiffInv

\* A quiet diff hides nothing of the manifest and nothing that it has dropped.
LEMMA QuietTrue ==
    ASSUME setup \in Setups, NEW c \in Contents, NEW l, WellFormed(l), l # None,
           ~Diff(c, l, l, Empty).modified
    PROVE  Missing(c, l) = {} /\ Leftover(c, l) = {}
<1>1. Empty \in Mutations(c) /\ \A f \in Fields : Empty[f] = Absent
  BY DEF Mutations, Empty
<1>2. PICK p \in Contents, q \in Contents :
         /\ Diff(c, l, l, Empty) = Verdict(p, q)
         /\ \A f \in Counted : q[f] = l.fields[f]
         /\ Foreseen(p, c, l, Empty)
  BY <1>1, DiffShape
<1>3. \A f \in Counted : f \in Fields /\ p[f] = l.fields[f]
  BY <1>2, VerdictShape DEF Counted
<1>4. Missing(c, l) = {}
  BY <1>2, <1>3 DEF Missing, Foreseen, Has
<1>5. ASSUME NEW f \in Leftover(c, l)
      PROVE  FALSE
  <2>1. /\ f \in Counted /\ f \in Fields /\ c[f] = Absent /\ f \in Released(l)
        /\ l.fields[f] \notin {Absent, Defaults[f]}
        /\ setup.diff = "serverSide" /\ ~setup.mutations => Defaults[f] = Absent
    BY <1>5 DEF Leftover, Refilled, Counted, Has
  <2>2. setup.diff \in {"threeWay", "structured", "serverSide"}
    BY ApplyAssumption
  <2>3. f \in Forgone(l)
    BY <2>1, <2>2 DEF Released, Forgone, TakenOver, HeldBack
  <2> QED
    BY <1>1, <1>2, <1>3, <2>1, <2>3 DEF Foreseen
<1> QED
  BY <1>4, <1>5

\* Webhooks change nothing that the diff takes for a change of its own.
Unrevealed(m, l) == setup.diff = "serverSide" => Has(m) \cap Revealed(l) = {}

\* Nothing is foreseen to change of what an apply has left.
LEMMA SettledForeseen ==
    ASSUME setup \in Setups, NEW c \in Contents, NEW l, Settled(c, l), SameWay,
           NEW p, NEW m \in Contents, Foreseen(p, c, l, m), Unrevealed(m, l)
    PROVE  \A f \in Counted : p[f] = l.fields[f]
<1>1. setup.diff \in {"threeWay", "structured", "serverSide"}
  BY ApplyAssumption
<1>2. Forgone(l) \subseteq Has(c)
  BY <1>1 DEF Settled, SameWay, Forgone, TakenOver
<1> QED
  BY <1>2 DEF Foreseen, Settled, Has, Counted, Unrevealed

\* A diff of what an apply has left is quiet.
LEMMA SettledQuiet ==
    ASSUME setup \in Setups, NEW c \in Contents, NEW l, WellFormed(l), l # None,
           Settled(c, l), SameWay, NEW m \in Mutations(c), Unrevealed(m, l)
    PROVE  ~Diff(c, l, l, m).modified
<1>1. PICK p \in Contents, q \in Contents :
         /\ Diff(c, l, l, m) = Verdict(p, q)
         /\ \A f \in Fields \ Counted : p[f] = q[f]
         /\ \A f \in Counted : q[f] = l.fields[f]
         /\ Foreseen(p, c, l, m)
  BY DiffShape
<1>2. \A f \in Fields : p[f] = q[f]
  BY <1>1, SettledForeseen, MutationShape
<1> QED
  BY <1>1, <1>2, VerdictShape

\* Another controller writes one field.
LEMMA OtherShape ==
    ASSUME NEW l, WellFormed(l), NEW f \in Fields, NEW v \in Values \cup {Absent}
    PROVE  LET r == Written(l, Over([l.fields EXCEPT ![f] = v], Defaults), "other", {}) IN
           /\ WellFormed(r) /\ r.applied = l.applied /\ r.keeper = l.keeper
           /\ \A g \in Fields \ {f} : r.fields[g] = l.fields[g]
           /\ r.by["server"] \subseteq l.by["server"]
<1> DEFINE set == [l.fields EXCEPT ![f] = v]
           fields == Over(set, Defaults)
           r == Written(l, fields, "other", {})
<1>1. /\ Defaults \in Contents /\ "other" \in Managers /\ l \in LiveObjects
      /\ l.fields \in Contents /\ \A g \in Fields : Defaults[g] # Absent => l.fields[g] # Absent
  BY ApplyAssumption DEF Managers, WellFormed, LiveObjects, Has
<1>2. set \in Contents /\ \A g \in Fields \ {f} : set[g] = l.fields[g]
  BY <1>1 DEF Contents
<1> HIDE DEF set
<1>3. /\ fields \in Contents
      /\ \A g \in Fields : fields[g] = IF set[g] # Absent THEN set[g] ELSE Defaults[g]
  BY <1>1, <1>2, OverType
<1> HIDE DEF fields
<1>4. Has(Defaults) \subseteq Has(fields)
  BY <1>3 DEF Has
<1>5. WellFormed(r) /\ r \in LiveObjects
  BY <1>1, <1>3, <1>4, WrittenWell DEF WellFormed
<1>6. /\ r.fields = fields /\ r.applied = l.applied /\ r.keeper = l.keeper
      /\ \A g \in Fields : g \in r.by["server"] => g \in l.by["server"]
  BY <1>1, <1>3, WrittenShape DEF Managers
<1>7. r.by["server"] \subseteq l.by["server"]
  BY <1>5, <1>6 DEF LiveObjects, Managers
<1>8. \A g \in Fields \ {f} : r.fields[g] = l.fields[g]
  BY <1>1, <1>2, <1>3, <1>6
<1> QED
  BY <1>5, <1>6, <1>7, <1>8 DEF fields, set

\* The annotation is lost.
LEMMA LostShape ==
    ASSUME NEW l, WellFormed(l)
    PROVE  LET r == [l EXCEPT !.applied = None, !.keeper = None] IN
           /\ WellFormed(r) /\ r.fields = l.fields /\ r.by = l.by
<1> DEFINE r == [l EXCEPT !.applied = None, !.keeper = None]
<1>1. l \in LiveObjects
  BY DEF WellFormed
<1>2. /\ r \in LiveObjects /\ r.fields = l.fields /\ r.by = l.by
      /\ r.applied = None /\ r.keeper = None
  BY <1>1 DEF LiveObjects
<1> HIDE DEF r
<1>3. WellFormed(r)
  BY <1>2 DEF WellFormed
<1> QED
  BY <1>2, <1>3 DEF r

-----------------------------------------------------------------------------
(* The steps                                                                *)

WriteStep == ApplyResource \/ CreateResource \/ ReplaceResource \/ UpdateResource

\* Whatever the request was, the object has what the sync has read in git, and
\* nothing of ours that git has dropped.
LEMMA Outcome ==
    ASSUME IInv, WriteStep
    PROVE  \E l : /\ WellFormed(l) /\ Applied(l)
                  /\ Settled(target, l)
                  /\ ~serverSide \/ setup.replace => l.by["server"] = {}
                  /\ ~serverSide /\ ~setup.replace => l.applied = target
                  /\ \A f \in ours' \ Has(target) : l.fields[f] \in {Absent, Defaults[f]}
                  /\ ~setup.replace =>
                        \/ serverSide /\ l = ServerApply(live, target)
                        \/ ~serverSide /\ l = ClientApply(live, target, "client")
<1>1. /\ target \in Contents /\ (live = None \/ WellFormed(live)) /\ serverSide \in BOOLEAN
      /\ setup \in Setups /\ ours \subseteq Fields
      /\ None \notin Contents /\ None \notin Managers
      /\ {"client", "server", "other", "kubectl"} = Managers
  BY ApplyAssumption DEF IInv, ObjectsInv, Managers
<1>2. live # None /\ (~serverSide \/ setup.replace) => live.by["server"] = {}
  BY DEF IInv, NoServerOwner
<1> DEFINE Good(l) ==
             /\ WellFormed(l) /\ Applied(l)
             /\ Settled(target, l)
             /\ ~serverSide \/ setup.replace => l.by["server"] = {}
             /\ ~serverSide /\ ~setup.replace => l.applied = target
             /\ \A f \in ours' \ Has(target) : l.fields[f] \in {Absent, Defaults[f]}
             /\ ~setup.replace =>
                   \/ serverSide /\ l = ServerApply(live, target)
                   \/ ~serverSide /\ l = ClientApply(live, target, "client")
<1>3. CASE ApplyResource /\ serverSide
  <2> DEFINE l == ServerApply(live, target)
  <2>1. Applied(l) /\ ~setup.replace
    BY <1>3 DEF ApplyResource
  <2>2. ours' = ((IF live = None THEN {} ELSE ours) \cup Has(target)) \ Shared(l)
    BY <2>1 DEF Applied
  <2>3. CASE live = None
    <3>1. l = Fresh(target, "server")
      BY <2>3 DEF ServerApply
    <3>2. /\ WellFormed(l) /\ l.fields = Over(target, Defaults)
          /\ l.applied = None /\ l.keeper = None /\ l.by = [NoOwners EXCEPT !["server"] = Has(target)]
      BY <1>1, <3>1, FreshShape
    <3>3. l.by["server"] = Has(target)
      BY <1>1, <3>2 DEF NoOwners
    <3>4. \A f \in Fields : l.fields[f] = IF target[f] # Absent THEN target[f] ELSE Defaults[f]
      BY <1>1, <3>2, OverType, ApplyAssumption
    <3> HIDE DEF l
    <3>5. Settled(target, l)
      BY <3>2, <3>3, <3>4 DEF Settled, Has
    <3>6. ours' \subseteq Fields
      BY <2>2, <2>3 DEF Has
    <3>7. \A f \in ours' \ Has(target) : l.fields[f] \in {Absent, Defaults[f]}
      BY <3>4, <3>6 DEF Has
    <3> QED
      BY <1>1, <1>3, <2>1, <3>2, <3>5, <3>7 DEF l
  <2>4. CASE live # None
    <3>1. /\ WellFormed(l)
          /\ l.applied \in {None, target} /\ l.keeper = None /\ l.by["server"] = Has(target)
          /\ \A f \in Fields :
                l.fields[f] = IF target[f] # Absent THEN target[f]
                              ELSE IF \/ live.fields[f] = Absent
                                      \/ f \in TakenOver(live) \ HeldBack(live)
                                   THEN Defaults[f] ELSE live.fields[f]
          /\ \A x \in Managers \ {"server", live.keeper}, f \in Fields :
                f \in l.by[x] <=> /\ f \in live.by[x] /\ l.fields[f] = live.fields[f]
                                 /\ l.fields[f] # Absent
      BY <1>1, <2>4, ServerShape
    <3>2. WellFormed(live)
      BY <1>1, <2>4
    <3> HIDE DEF l
    <3>3. Settled(target, l)
      BY <3>1 DEF Settled, Has
    <3>4. ASSUME NEW f \in ours' \ Has(target), l.fields[f] \notin {Absent, Defaults[f]}
          PROVE  FALSE
      <4>1. /\ f \in Fields /\ target[f] = Absent /\ f \notin Shared(l)
        BY <1>1, <2>2, <2>4, <3>4 DEF Has
      <4>2. /\ l.fields[f] = live.fields[f]
            /\ f \notin TakenOver(live) \ HeldBack(live)
        BY <3>1, <3>4, <4>1
      <4>3. PICK m \in Managers : f \in live.by[m]
        BY <3>2, <3>4, <4>1, <4>2 DEF WellFormed
      <4>4. f \in HeldBack(live)
        BY <1>1, <4>2, <4>3 DEF TakenOver, HeldBack
      <4>5. PICK x \in Managers \ {"server", live.keeper} : f \in live.by[x]
        BY <4>4 DEF HeldBack
      <4>6. f \in l.by[x]
        BY <3>1, <3>4, <4>1, <4>2, <4>5
      <4>7. x \in {"other", "client", "kubectl"}
        BY <1>1, <4>5
      <4> QED
        BY <1>3, <3>4, <4>1, <4>6, <4>7 DEF Shared
    <3> QED
      BY <1>1, <1>3, <2>1, <3>1, <3>3, <3>4 DEF l
  <2> QED
    BY <2>3, <2>4
<1>4. CASE ApplyResource /\ ~serverSide
  <2> DEFINE l == ClientApply(live, target, "client")
  <2>1. Applied(l) /\ ~setup.replace
    BY <1>4 DEF ApplyResource
  <2>2. ours' = ((IF live = None THEN {} ELSE ours) \cup Has(target)) \ Shared(l)
    BY <2>1 DEF Applied
  <2>3. /\ WellFormed(l) /\ l.applied = target /\ l.keeper = "client"
        /\ \A f \in Fields :
              l.fields[f] = IF target[f] # Absent THEN target[f]
                            ELSE IF \/ live = None \/ live.fields[f] = Absent
                                    \/ live.applied # None /\ live.applied[f] # Absent
                                 THEN Defaults[f] ELSE live.fields[f]
        /\ live = None => \A x \in Managers \ {"client"} : l.by[x] = {}
        /\ live # None => \A x \in Managers \ {"client"}, f \in Fields :
                             f \in l.by[x] <=> f \in live.by[x] /\ l.fields[f] = live.fields[f]
                                               /\ l.fields[f] # Absent
    BY <1>1, ClientShape
  <2> HIDE DEF l
  <2>4. l.by["server"] = {}
    <3>1. l.by["server"] \subseteq Fields /\ "server" \in Managers \ {"client"}
      BY <1>1, <2>3 DEF WellFormed, LiveObjects
    <3> QED
      BY <1>2, <1>4, <2>3, <3>1
  <2>5. Settled(target, l)
    BY <1>4, <2>3, <2>4 DEF Settled, Has
  <2>6. ASSUME NEW f \in ours' \ Has(target), l.fields[f] \notin {Absent, Defaults[f]}
        PROVE  FALSE
    <3>1. f \in Fields /\ target[f] = Absent /\ (live # None => f \in ours)
      BY <1>1, <2>2, <2>6 DEF Has
    <3>2. /\ live # None /\ l.fields[f] = live.fields[f]
          /\ ~(live.applied # None /\ live.applied[f] # Absent)
      BY <2>3, <2>6, <3>1
    <3> QED
      BY <1>4, <2>1, <2>6, <3>1, <3>2 DEF IInv, Annotated
  <2> QED
    BY <1>4, <2>1, <2>3, <2>4, <2>5, <2>6 DEF l
<1>5. ASSUME setup.replace, NEW l, Applied(l), WellFormed(l), l.applied = None, l.keeper = None,
             \A f \in Fields : l.fields[f] = IF target[f] # Absent THEN target[f] ELSE Defaults[f],
             l.by["server"] = {}
      PROVE  Good(l)
  <2>1. Settled(target, l)
    BY <1>5 DEF Settled, Has
  <2>2. ours' \subseteq Has(target)
    BY <1>5 DEF Applied
  <2> QED
    BY <1>5, <2>1, <2>2
<1>6. CASE CreateResource
  <2> DEFINE l == Fresh(target, "client")
  <2>1. Applied(l) /\ setup.replace
    BY <1>6 DEF CreateResource
  <2>2. /\ WellFormed(l) /\ l.fields = Over(target, Defaults)
        /\ l.applied = None /\ l.keeper = None /\ l.by = [NoOwners EXCEPT !["client"] = Has(target)]
    BY <1>1, FreshShape
  <2>3. l.by["server"] = {}
    BY <1>1, <2>2 DEF NoOwners
  <2>4. \A f \in Fields : l.fields[f] = IF target[f] # Absent THEN target[f] ELSE Defaults[f]
    BY <1>1, <2>2, OverType, ApplyAssumption
  <2> HIDE DEF l
  <2> QED
    BY <1>5, <2>1, <2>2, <2>3, <2>4
<1>7. CASE ReplaceResource \/ UpdateResource
  <2> DEFINE l == Replaced(live, target)
  <2>1. Applied(l) /\ setup.replace /\ live # None
    BY <1>7 DEF ReplaceResource, UpdateResource
  <2>2. /\ WellFormed(l) /\ l.applied = None /\ l.keeper = None
        /\ \A f \in Fields : l.fields[f] = IF target[f] # Absent THEN target[f] ELSE Defaults[f]
        /\ l.by["server"] \subseteq live.by["server"]
    BY <1>1, <2>1, ReplacedShape
  <2> HIDE DEF l
  <2> QED
    BY <1>2, <1>5, <2>1, <2>2
<1> QED
  BY <1>3, <1>4, <1>6, <1>7 DEF WriteStep

LEMMA InitInv ==
    Init => IInv
<1> SUFFICES ASSUME Init PROVE IInv
  OBVIOUS
<1>1. /\ setup \in Setups /\ serverSide \in BOOLEAN /\ config \in Contents
      /\ live \in {None, ClientApply(None, config, "kubectl")}
      /\ ours = IF live = None THEN {} ELSE Has(live.applied)
      /\ pc = "idle" /\ target = Empty /\ snap = None /\ fresh = FALSE /\ diff = NoDiff
      /\ clean = FALSE
  BY ApplyAssumption DEF Init
<1>2. Empty \in Contents /\ NoDiff \in [modified : BOOLEAN, predicted : Contents]
  BY DEF Empty, NoDiff, Contents
<1>3. /\ live = None \/ WellFormed(live)
      /\ live # None => live.applied = config /\ live.by["server"] = {}
  <2> DEFINE l == ClientApply(None, config, "kubectl")
  <2>1. "kubectl" \in Managers /\ "server" \in Managers \ {"kubectl"}
    BY DEF Managers
  <2>2. WellFormed(l) /\ l.applied = config /\ l.by["server"] = {}
    BY <1>1, <2>1, ClientShape
  <2> HIDE DEF l
  <2> QED
    BY <1>1, <2>2 DEF l
<1>4. ours \subseteq Fields /\ (live # None => \A f \in ours : live.applied[f] # Absent)
  BY <1>1 DEF Has
<1>5. ObjectsInv
  BY <1>1, <1>2, <1>3, <1>4 DEF ObjectsInv
<1>6. Annotated
  BY <1>1, <1>3, <1>4, ApplyAssumption DEF Annotated
<1> QED
  BY <1>1, <1>3, <1>5, <1>6 DEF IInv, NoServerOwner, CleanInv, DroppedAreGone, DiffInv

\* A diff foresees what it has foreseen as long as the object has not changed.
LEMMA DiffStays ==
    ASSUME DiffInv, UNCHANGED <<setup, target, snap, diff>>,
           pc' \in {"apply", "migrated"} => pc \in {"apply", "migrated"}, fresh' => fresh
    PROVE  DiffInv'
<1>1. ASSUME NEW p, NEW c, NEW l, NEW m
      PROVE  Foreseen(p, c, l, m)' <=> Foreseen(p, c, l, m)
  <2>1. Counted' = Counted
    BY DEF Counted
  <2>2. Forgone(l)' = Forgone(l)
    BY DEF Forgone
  <2>3. Revealed(l)' = Revealed(l)
    BY DEF Revealed
  <2> QED
    BY <2>1, <2>2, <2>3 DEF Foreseen
<1> QED
  BY <1>1 DEF DiffInv

\* Git, the user and others.
LEMMA WorldInv ==
    ASSUME IInv, World
    PROVE  IInv'
<1>1. /\ ObjectsInv /\ NoServerOwner /\ CleanInv /\ Annotated /\ DroppedAreGone /\ DiffInv
  BY DEF IInv
<1>2. /\ clean' = FALSE
      /\ UNCHANGED <<setup, pc, target, snap, diff>>
      /\ fresh' = fresh \/ fresh' = FALSE
  BY DEF World, EditGit, TurnServerSideOn, OtherWrites, OtherDeletes, AnnotationLost,
         Foreign, unlessWorld
<1>3. CleanInv' /\ DroppedAreGone'
  BY <1>2 DEF CleanInv, DroppedAreGone
<1>4. DiffInv'
  BY <1>1, <1>2, DiffStays DEF ObjectsInv
<1>5. CASE EditGit
  <2>1. UNCHANGED <<serverSide, live, fresh, ours>> /\ config' \in Contents
    BY <1>5, ApplyAssumption DEF EditGit
  <2> QED
    BY <1>1, <1>2, <1>3, <1>4, <2>1 DEF IInv, ObjectsInv, NoServerOwner, Annotated
<1>6. CASE TurnServerSideOn
  <2>1. UNCHANGED <<config, live, fresh, ours>> /\ serverSide' = TRUE /\ ~serverSide
    BY <1>6 DEF TurnServerSideOn
  <2> QED
    BY <1>1, <1>2, <1>3, <1>4, <2>1 DEF IInv, ObjectsInv, NoServerOwner, Annotated
<1>7. ASSUME fresh' = FALSE, UNCHANGED <<serverSide, config>>, ours' \subseteq ours,
             live' = None \/ WellFormed(live'), NoServerOwner', Annotated'
      PROVE  IInv'
  BY <1>1, <1>2, <1>3, <1>4, <1>7 DEF IInv, ObjectsInv
<1>8. CASE OtherWrites
  <2>1. PICK f \in Fields, v \in Values \cup {Absent} :
           /\ live # None
           /\ Foreign(Written(live, Over([live.fields EXCEPT ![f] = v], Defaults), "other", {}))
           /\ ours' = ours \ {f}
    BY <1>8 DEF OtherWrites
  <2> DEFINE r == Written(live, Over([live.fields EXCEPT ![f] = v], Defaults), "other", {})
  <2>2. live' = r /\ fresh' = FALSE /\ UNCHANGED <<serverSide, config>>
    BY <2>1 DEF Foreign
  <2>3. /\ WellFormed(r) /\ r.applied = live.applied /\ r.keeper = live.keeper
        /\ \A g \in Fields \ {f} : r.fields[g] = live.fields[g]
        /\ r.by["server"] \subseteq live.by["server"]
    BY <1>1, <2>1, OtherShape DEF ObjectsInv
  <2> HIDE DEF r
  <2>4. NoServerOwner'
    BY <1>1, <1>2, <2>1, <2>2, <2>3 DEF NoServerOwner
  <2>5. Annotated'
    BY <1>1, <1>2, <2>1, <2>2, <2>3 DEF Annotated, ObjectsInv
  <2> QED
    BY <1>7, <2>1, <2>2, <2>3, <2>4, <2>5
<1>9. CASE OtherDeletes
  <2>1. live' = None /\ fresh' = FALSE /\ UNCHANGED <<serverSide, config>> /\ ours' = {}
    BY <1>9 DEF OtherDeletes, Foreign
  <2> QED
    BY <1>7, <2>1 DEF NoServerOwner, Annotated
<1>10. CASE AnnotationLost
  <2> DEFINE r == [live EXCEPT !.applied = None, !.keeper = None]
  <2>1. /\ live # None /\ live' = r /\ fresh' = FALSE /\ UNCHANGED <<serverSide, config>>
        /\ ours' = ours \cap live.by["server"]
    BY <1>10 DEF AnnotationLost, Foreign
  <2>2. WellFormed(r) /\ r.fields = live.fields /\ r.by = live.by
    BY <1>1, <2>1, LostShape DEF ObjectsInv
  <2> HIDE DEF r
  <2> QED
    BY <1>1, <1>2, <1>7, <2>1, <2>2 DEF NoServerOwner, Annotated
<1> QED
  BY <1>5, <1>6, <1>8, <1>9, <1>10 DEF World

\* The requests of a sync.
LEMMA WriteInv ==
    ASSUME IInv, WriteStep
    PROVE  IInv'
<1>1. PICK l : /\ WellFormed(l) /\ Applied(l) /\ Settled(target, l)
               /\ ~serverSide \/ setup.replace => l.by["server"] = {}
               /\ ~serverSide /\ ~setup.replace => l.applied = target
               /\ \A f \in ours' \ Has(target) : l.fields[f] \in {Absent, Defaults[f]}
  BY Outcome
<1>2. /\ pc' = "idle" /\ target' = Empty /\ snap' = None /\ fresh' = FALSE /\ diff' = NoDiff
      /\ live' = l /\ clean' = (config = target)
      /\ ours' \subseteq ours \cup Has(target)
      /\ UNCHANGED <<setup, serverSide, config>>
  BY <1>1 DEF Applied, Done, unlessSync
<1>3. ObjectsInv /\ Empty \in Contents /\ NoDiff \in [modified : BOOLEAN, predicted : Contents]
      /\ None \notin Contents
  BY ApplyAssumption DEF IInv, Empty, NoDiff, Contents
<1>4. ObjectsInv'
  BY <1>1, <1>2, <1>3 DEF ObjectsInv, Has
<1>5. NoServerOwner'
  BY <1>1, <1>2 DEF NoServerOwner
<1>6. CleanInv' /\ DroppedAreGone'
  BY <1>1, <1>2 DEF CleanInv, DroppedAreGone, Settled
<1>7. Annotated'
  <2> SUFFICES ASSUME ~serverSide, ~setup.replace, NEW f \in ours'
               PROVE  \/ l.applied # None /\ l.applied[f] # Absent
                      \/ l.fields[f] \in {Absent, Defaults[f]}
    BY <1>2 DEF Annotated
  <2> QED
    BY <1>1, <1>3 DEF ObjectsInv, Has
<1> QED
  BY <1>2, <1>4, <1>5, <1>6, <1>7 DEF IInv, DiffInv

\* The migration of client-side fields; what was settled had no keeper to migrate.
LEMMA MigrationInv ==
    ASSUME IInv, performClientSideApplyMigration
    PROVE  IInv'
<1> DEFINE r == ClientApply(live, target, "kubectl")
<1>1. /\ ObjectsInv /\ NoServerOwner /\ CleanInv /\ Annotated /\ DroppedAreGone /\ DiffInv
  BY DEF IInv
<1>2. /\ pc = "apply" /\ serverSide /\ pc' = "migrated" /\ live' = r
      /\ fresh' = (fresh /\ live' = live) /\ clean' = (clean /\ live' = live)
      /\ UNCHANGED <<setup, serverSide, config, target, snap, diff, ours>>
  BY DEF performClientSideApplyMigration, NeedsMigration, unlessSync
<1>3. /\ "kubectl" \in Managers /\ "server" \in Managers \ {"kubectl"}
  BY DEF Managers
<1>4. /\ WellFormed(r)
      /\ live = None => \A x \in Managers \ {"kubectl"} : r.by[x] = {}
      /\ live # None => \A x \in Managers \ {"kubectl"}, f \in Fields :
                           f \in r.by[x] <=> f \in live.by[x] /\ r.fields[f] = live.fields[f]
                                             /\ r.fields[f] # Absent
  <2>1. target \in Contents /\ (live = None \/ WellFormed(live)) /\ "kubectl" \in Managers
    BY <1>1, <1>3 DEF ObjectsInv
  <2> QED
    BY ONLY <2>1, ClientShape
<1> HIDE DEF r
<1>5. r.by["server"] \subseteq Fields
  BY <1>3, <1>4 DEF WellFormed, LiveObjects
<1>6. ObjectsInv'
  BY <1>1, <1>2, <1>4 DEF ObjectsInv
<1>7. NoServerOwner'
  BY <1>1, <1>2, <1>3, <1>4, <1>5 DEF NoServerOwner
<1>8. CleanInv' /\ DroppedAreGone'
  BY <1>1, <1>2 DEF CleanInv, DroppedAreGone, Settled
<1>9. Annotated'
  BY <1>2 DEF Annotated
<1>10. DiffInv'
  BY <1>1, <1>2, DiffStays DEF ObjectsInv
<1> QED
  BY <1>6, <1>7, <1>8, <1>9, <1>10 DEF IInv

\* The rest of a sync writes nothing.
LEMMA ReadingInv ==
    ASSUME IInv, ReadLive \/ ComputeDiff \/ Refused \/ ApiError
    PROVE  IInv'
<1>1. /\ ObjectsInv /\ NoServerOwner /\ CleanInv /\ Annotated /\ DroppedAreGone /\ DiffInv
  BY DEF IInv
<1>2. Empty \in Contents /\ NoDiff \in [modified : BOOLEAN, predicted : Contents]
  BY DEF Empty, NoDiff, Contents
<1>3. UNCHANGED <<setup, serverSide, config, live, clean, ours>>
  BY DEF ReadLive, ComputeDiff, Refused, ApiError, Gone, unlessSync
<1>4. NoServerOwner' /\ Annotated' /\ DroppedAreGone'
  BY <1>1, <1>3 DEF NoServerOwner, Annotated, DroppedAreGone
<1>5. (clean /\ live # None => Settled(config, live))'
  BY <1>1, <1>3 DEF CleanInv, Settled
<1>6. CASE ReadLive
  <2>1. pc' = "read" /\ target' = config /\ snap' = live /\ fresh' = TRUE /\ diff' = diff
    BY <1>6 DEF ReadLive
  <2> QED
    BY <1>1, <1>3, <1>4, <1>5, <2>1 DEF IInv, ObjectsInv, CleanInv, DiffInv
<1>7. CASE Done
  BY <1>1, <1>2, <1>3, <1>4, <1>5, <1>7 DEF IInv, Done, ObjectsInv, CleanInv, DiffInv
<1>8. CASE ComputeDiff /\ ~Done
  <2>1. PICK m \in Mutations(target) :
           /\ pc = "read" /\ pc' = "apply" /\ diff' = Diff(target, snap, live, m)
           /\ UNCHANGED <<target, snap, fresh>>
    BY <1>8 DEF ComputeDiff
  <2>2. diff' \in [modified : BOOLEAN, predicted : Contents]
    BY <1>1, <2>1, DiffType DEF ObjectsInv
  <2>3. ASSUME fresh, snap # None
        PROVE  Foreseen(diff'.predicted, target, snap, m)
    <3>1. PICK p \in Contents, q \in Contents :
             /\ Diff(target, snap, snap, m) = Verdict(p, q)
             /\ Foreseen(p, target, snap, m)
      BY <1>1, <2>3, DiffShape DEF ObjectsInv
    <3>2. diff' = Verdict(p, q)
      BY <1>1, <2>1, <2>3, <3>1 DEF ObjectsInv
    <3> QED
      BY <3>1, <3>2, VerdictShape
  <2>4. DiffInv'
    <3> SUFFICES ASSUME fresh, snap # None
                 PROVE  Foreseen(diff.predicted, target, snap, m)'
      BY <2>1 DEF DiffInv
    <3> QED
      BY <1>3, <2>1, <2>3 DEF Foreseen, Counted, Forgone, Revealed
  <2> QED
    BY <1>1, <1>3, <1>4, <1>5, <2>1, <2>2, <2>4 DEF IInv, ObjectsInv, CleanInv
<1> QED
  BY <1>6, <1>7, <1>8 DEF Refused, ApiError, Gone

-----------------------------------------------------------------------------
(* Theorems                                                                 *)

LEMMA StepInv ==
    IInv /\ [Next]_vars => IInv'
<1> SUFFICES ASSUME IInv, [Next]_vars PROVE IInv'
  OBVIOUS
<1>1. CASE World
  BY <1>1, WorldInv
<1>2. CASE WriteStep
  BY <1>2, WriteInv
<1>3. CASE performClientSideApplyMigration
  BY <1>3, MigrationInv
<1>4. CASE ReadLive \/ ComputeDiff \/ Refused \/ ApiError
  BY <1>4, ReadingInv
<1>5. CASE UNCHANGED vars
  <2>1. DiffInv'
    BY <1>5, DiffStays DEF IInv, vars
  <2> QED
    BY <1>5, <2>1
    DEF vars, IInv, ObjectsInv, NoServerOwner, CleanInv, Settled, Annotated, DroppedAreGone
<1> QED
  BY <1>1, <1>2, <1>3, <1>4, <1>5 DEF Next, Sync, WriteStep

LEMMA Invariance ==
    Spec => []IInv
<1> QED
  BY InitInv, StepInv, PTL DEF Spec

\* Owners own fields that are there, the annotation and its keeper come and go
\* together, and an object that is fresh is the one that was read.
THEOREM TypeCorrect ==
    Spec => []ApplyTypeOK
<1>1. IInv => ApplyTypeOK
  BY DEF IInv, ObjectsInv, ApplyTypeOK, WellFormed
<1> QED
  BY <1>1, Invariance, PTL

\* The diff is honest: a resource it calls synced has all of the manifest and
\* nothing of an earlier one, it is quiet once an apply has been done, whichever
\* diff and whichever apply, and what git has dropped is gone.
THEOREM DiffCorrect ==
    Spec => []DiffIsHonest
<1>1. IInv => QuietMeansSynced
  BY QuietTrue DEF IInv, ObjectsInv, QuietMeansSynced
<1>2. IInv => AppliedMeansQuiet
  BY SettledQuiet DEF IInv, ObjectsInv, CleanInv, AppliedMeansQuiet, Unrevealed
<1>3. IInv => DiffIsHonest
  BY <1>1, <1>2 DEF IInv, DiffIsHonest
<1> QED
  BY <1>3, Invariance, PTL

\* A CRD or a namespace that another client has written after it was read is not
\* overwritten.
THEOREM UpdateCorrect ==
    Spec => NoLostUpdate
<1>1. ASSUME IInv, Next, UpdateStep
      PROVE  live = snap
  <2>1. fresh => live = snap
    BY <1>1 DEF IInv, ObjectsInv
  <2>2. ~World
    BY <1>1 DEF UpdateStep, World, EditGit, TurnServerSideOn, OtherWrites, OtherDeletes,
               AnnotationLost, Foreign, unlessWorld, MayWrite
  <2> QED
    BY <1>1, <2>1, <2>2
    DEF UpdateStep, Next, Sync, MayWrite, ReadLive, ComputeDiff, ApplyResource, CreateResource,
        ReplaceResource, UpdateResource, performClientSideApplyMigration, Refused, Gone, ApiError
<1>2. IInv /\ [Next]_vars => [UpdateStep => live = snap]_vars
  BY <1>1
<1> QED
  BY <1>2, Invariance, PTL DEF Spec, NoLostUpdate

\* An object that nobody has changed since it was read becomes what the diff has
\* predicted: of a client-side apply by the three-way diff, of a server-side one
\* by the structured diff and, for the fields of the manifest, by the dry run.
THEOREM PredictionCorrect ==
    Spec => PredictionHolds
<1> DEFINE Before == MayWrite /\ pc' = "idle" /\ clean' /\ fresh /\ snap # None /\ Foretells
<1>1. ASSUME IInv, Next, Before
      PROVE  Predicts
  <2>1. /\ setup \in Setups /\ serverSide \in BOOLEAN /\ target \in Contents
        /\ live = snap /\ live # None /\ WellFormed(live) /\ ~setup.replace
    BY <1>1 DEF IInv, ObjectsInv, Foretells
  <2>2. /\ setup.diff \in {"threeWay", "structured", "serverSide"}
        /\ Defaults \in Contents /\ None \notin Managers
        /\ diff.predicted \in Contents
        /\ Counted \subseteq Fields
        /\ \A f \in Fields : Defaults[f] # Absent => live.fields[f] # Absent
    BY <1>1, <2>1, ApplyAssumption DEF IInv, ObjectsInv, WellFormed, Has, Counted
  <2>3. \A f \in Fields : Over(diff.predicted, Defaults)[f] =
           IF diff.predicted[f] # Absent THEN diff.predicted[f] ELSE Defaults[f]
    BY <2>2, OverType
  <2>4. PICK m \in Mutations(target) : Foreseen(diff.predicted, target, live, m)
    BY <1>1, <2>1 DEF IInv, DiffInv, MayWrite
  <2>5. ~World
    BY <1>1 DEF World, EditGit, TurnServerSideOn, OtherWrites, OtherDeletes,
               AnnotationLost, Foreign, unlessWorld, MayWrite
  <2>6. CASE ApiError
    <3>1. live' = live /\ clean
      BY <1>1, <2>6 DEF ApiError, Gone
    <3>2. Settled(target, live)
      BY <1>1, <2>1, <3>1 DEF IInv, CleanInv, MayWrite
    <3>3. SameWay
      BY <1>1 DEF Foretells, SameWay
    <3>4. CASE setup.diff = "serverSide"
      <4>1. \A f \in Counted \cap Has(target) : diff.predicted[f] = live.fields[f]
        BY <2>1, <2>4, <3>2 DEF Foreseen, Settled, Has, Counted
      <4> QED
        BY <2>2, <2>3, <3>1, <3>4, <4>1 DEF Predicts
    <3>5. CASE setup.diff # "serverSide"
      <4>1. \A f \in Counted : diff.predicted[f] = live.fields[f]
        BY <2>1, <2>4, <3>2, <3>3, <3>5, SettledForeseen, MutationShape DEF Unrevealed
      <4> QED
        BY <2>2, <2>3, <3>1, <4>1 DEF Predicts
    <3> QED
      BY <3>4, <3>5
  <2>7. CASE ApplyResource /\ serverSide
    <3> DEFINE r == ServerApply(live, target)
    <3>1. live' = r
      BY <2>7 DEF ApplyResource, Applied
    <3>2. \A f \in Fields :
             r.fields[f] = IF target[f] # Absent THEN target[f]
                           ELSE IF live.fields[f] = Absent \/ f \in TakenOver(live) \ HeldBack(live)
                                THEN Defaults[f] ELSE live.fields[f]
      BY <2>1, ServerShape
    <3> HIDE DEF r
    <3>3. setup.diff \in {"structured", "serverSide"} /\ live.keeper = None
      BY <1>1, <2>1, <2>2, <2>7 DEF Foretells
    <3>4. setup.diff = "structured" => Forgone(live) = TakenOver(live) \ HeldBack(live)
      BY <2>2, <3>3 DEF Forgone, TakenOver, HeldBack
    <3> QED
      BY <2>2, <2>3, <2>4, <3>1, <3>2, <3>3, <3>4 DEF Predicts, Foreseen, Has
  <2>8. CASE ApplyResource /\ ~serverSide
    <3> DEFINE r == ClientApply(live, target, "client")
    <3>1. live' = r
      BY <2>8 DEF ApplyResource, Applied
    <3>2. "client" \in Managers
      BY DEF Managers
    <3>3. \A f \in Fields :
             r.fields[f] = IF target[f] # Absent THEN target[f]
                           ELSE IF \/ live = None \/ live.fields[f] = Absent
                                   \/ live.applied # None /\ live.applied[f] # Absent
                                THEN Defaults[f] ELSE live.fields[f]
      BY <2>1, <3>2, ClientShape
    <3> HIDE DEF r
    <3>4. setup.diff = "threeWay"
      BY <1>1, <2>8 DEF Foretells
    <3>5. \A f \in Fields : f \in Forgone(live) <=> live.applied # None /\ live.applied[f] # Absent
      BY <3>4 DEF Forgone, Has
    <3> QED
      BY <2>1, <2>2, <2>3, <2>4, <3>1, <3>3, <3>4, <3>5 DEF Predicts, Foreseen
  <2> QED
    BY <1>1, <2>1, <2>5, <2>6, <2>7, <2>8
    DEF Next, Sync, MayWrite, ReadLive, ComputeDiff, CreateResource, ReplaceResource,
        UpdateResource, performClientSideApplyMigration, Refused, Gone
<1>2. IInv /\ [Next]_vars => [Before => Predicts]_vars
  BY <1>1
<1> QED
  BY <1>2, Invariance, PTL DEF Spec, PredictionHolds
=============================================================================
