------------------------ MODULE AnchorWorkspaceProofs ------------------------
(***************************************************************************)
(* Proofs about the workspace of plan anchoring, for any processes,        *)
(* commands, texts and items, any number of commands and any interleaving  *)
(* of their steps with each other and with crashes.                        *)
(*                                                                         *)
(* What may overlap needs little: a record on disk or about to be saved    *)
(* has the anchors of some record a command made (Types, Just), and a run  *)
(* knows what it was judged on. While one command saves at a time it has   *)
(* the temporary name to itself (Alone, InPlace, InHand), its record is    *)
(* grown from the one on disk (Derived), and so the one on disk is grown   *)
(* from whatever was acknowledged or judged (Kept, Seen).                  *)
(***************************************************************************)
EXTENDS AnchorWorkspace, FiniteSetTheorems, WellFoundedInduction, TLAPS

-----------------------------------------------------------------------------
(* Records                                                                 *)

Unique(rec) == \A i, j \in DOMAIN rec : rec[i].id = rec[j].id => i = j

Record == {rec \in Seq(Anchor) : Unique(rec)}

\* What validate_record asks of one anchor.
Fit(a) == /\ a.status = "promoted" => a.adr
          /\ a.id[1] = "ANC" => a.statement \notin Verbatim

Justified(rec) == \A i \in DOMAIN rec : Fit(rec[i])

\* What a save may do to an anchor, and to a record: versions grow, and one
\* version has one text and one status.
Later(a, b) ==
  /\ b.id = a.id /\ b.version >= a.version
  /\ b.version = a.version => b.statement = a.statement /\ b.status = a.status

Grown(old, new) ==
  /\ DOMAIN old \subseteq DOMAIN new
  /\ \A i \in DOMAIN old : Later(old[i], new[i])

LEMMA ValidIsJustified ==
  ASSUME NEW rec \in Record, Justified(rec)
  PROVE  ValidRecord(rec)
  BY DEF Record, Unique, Justified, Fit, ValidRecord

LEMMA AtPosition ==
  ASSUME NEW rec \in Record, NEW id \in Ids(rec)
  PROVE  /\ Position(rec, id) \in DOMAIN rec
         /\ Find(rec, id) = rec[Position(rec, id)]
         /\ Find(rec, id) \in Anchor
         /\ Find(rec, id).id = id
<1>1. PICK i \in DOMAIN rec : rec[i].id = id
  BY DEF Ids
<1>2. DOMAIN rec = 1 .. Len(rec) /\ Len(rec) \in Nat /\ Unique(rec)
  BY DEF Record
<1>3. \A j \in 1 .. i - 1 : rec[j].id # id
  <2> SUFFICES ASSUME NEW j \in 1 .. i - 1, rec[j].id = id PROVE FALSE
    OBVIOUS
  <2>1. j \in DOMAIN rec /\ j # i
    BY <1>1, <1>2
  <2>2. QED BY <1>1, <1>2, <2>1 DEF Unique
<1>4. Position(rec, id) \in DOMAIN rec /\ rec[Position(rec, id)].id = id
  BY <1>1, <1>3 DEF Position
<1>5. rec[Position(rec, id)] \in Anchor
  BY <1>2, <1>4 DEF Record
<1>6. QED BY <1>4, <1>5 DEF Find

LEMMA FoundIsAt ==
  ASSUME NEW rec \in Record, NEW i \in DOMAIN rec
  PROVE  rec[i].id \in Ids(rec) /\ Find(rec, rec[i].id) = rec[i]
<1>1. rec[i].id \in Ids(rec)
  BY DEF Ids
<1>2. Position(rec, rec[i].id) \in DOMAIN rec /\ rec[Position(rec, rec[i].id)].id = rec[i].id
  BY <1>1, AtPosition
<1>3. Position(rec, rec[i].id) = i
  BY <1>2 DEF Record, Unique
<1>4. QED BY <1>1, <1>3 DEF Find

\* An anchor found before is found later, grown.
LEMMA GrownIsFound ==
  ASSUME NEW old \in Record, NEW new \in Record, Grown(old, new), NEW id \in Ids(old)
  PROVE  id \in Ids(new) /\ Later(Find(old, id), Find(new, id))
<1> DEFINE i == Position(old, id)
<1>1. i \in DOMAIN old /\ Find(old, id) = old[i] /\ old[i].id = id
  BY AtPosition
<1>2. i \in DOMAIN new /\ Later(old[i], new[i])
  BY <1>1 DEF Grown
<1>3. new[i].id = id
  BY <1>1, <1>2 DEF Later
<1>4. id \in Ids(new) /\ Find(new, id) = new[i]
  BY <1>2, <1>3, FoundIsAt
<1>5. QED BY <1>1, <1>2, <1>4

LEMMA LaterIsTransitive ==
  ASSUME NEW a, a.version \in Nat, NEW b \in Anchor, NEW c \in Anchor, Later(a, b), Later(b, c)
  PROVE  Later(a, c)
<1>1. b.version \in Nat /\ c.version \in Nat
  BY DEF Anchor
<1>2. QED BY <1>1 DEF Later

LEMMA LaterIsReflexive ==
  ASSUME NEW a \in Anchor
  PROVE  Later(a, a)
<1>1. a.version \in Nat
  BY DEF Anchor
<1>2. QED BY <1>1 DEF Later

LEMMA GrownIsReflexive ==
  ASSUME NEW rec \in Record
  PROVE  Grown(rec, rec)
<1>1. \A i \in DOMAIN rec : rec[i] \in Anchor
  BY DEF Record
<1>2. QED BY <1>1, LaterIsReflexive DEF Grown

LEMMA GrownIsTransitive ==
  ASSUME NEW r \in Record, NEW s \in Record, NEW t \in Record, Grown(r, s), Grown(s, t)
  PROVE  Grown(r, t)
<1>1. ASSUME NEW i \in DOMAIN r
      PROVE  i \in DOMAIN t /\ Later(r[i], t[i])
  <2>1. i \in DOMAIN s /\ i \in DOMAIN t /\ Later(r[i], s[i]) /\ Later(s[i], t[i])
    BY <1>1 DEF Grown
  <2>2. r[i] \in Anchor /\ s[i] \in Anchor /\ t[i] \in Anchor
    BY <1>1, <2>1 DEF Record
  <2>3. r[i].version \in Nat
    BY <2>2 DEF Anchor
  <2>4. QED BY <2>1, <2>2, <2>3, LaterIsTransitive
<1>2. QED BY <1>1 DEF Grown

-----------------------------------------------------------------------------
(* A new identifier                                                        *)

\* The largest of a finite set of numbers: the one with fewest above it.
LEMMA MaxOfNumbers ==
  ASSUME NEW S, S \subseteq Nat, S # {}, IsFiniteSet(S)
  PROVE  Max(S) \in S /\ \A y \in S : y <= Max(S)
<1> DEFINE above(x) == {y \in S : y > x}
           N == {Cardinality(above(x)) : x \in S}
<1>1. \A x \in S : above(x) \in SUBSET S /\ IsFiniteSet(above(x)) /\ Cardinality(above(x)) \in Nat
  BY FS_Subset, FS_CardinalityType
<1>2. N \subseteq Nat /\ N # {}
  BY <1>1
<1>3. \E m \in N : \A k \in N : ~ (<<k, m>> \in OpToRel(<, Nat))
  BY <1>2, NatLessThanWellFounded, WFMin
<1>4. PICK m \in S : \A k \in S : ~ (Cardinality(above(k)) < Cardinality(above(m)))
  <2>1. PICK n \in N : \A k \in N : ~ (<<k, n>> \in OpToRel(<, Nat))
    BY <1>3
  <2>2. \A k \in N : ~ (k < n)
    BY <1>2, <2>1 DEF OpToRel
  <2>3. QED BY <2>1, <2>2
<1>5. above(m) = {}
  <2> SUFFICES ASSUME NEW y \in above(m) PROVE FALSE
    OBVIOUS
  <2>1. y \in S /\ y > m /\ m \in Nat /\ y \in Nat
    OBVIOUS
  <2>2. above(y) \in SUBSET above(m)
    <3>1. ASSUME NEW z \in above(y) PROVE z \in above(m)
      <4>1. z \in S /\ z > y /\ z \in Nat
        BY <3>1
      <4>2. z > m
        BY <2>1, <4>1
      <4>3. QED BY <4>1, <4>2
    <3>2. QED BY <3>1
  <2>3. y \notin above(y)
    BY <2>1
  <2>4. Cardinality(above(y)) <= Cardinality(above(m)) /\ Cardinality(above(y)) # Cardinality(above(m))
    BY <1>1, <2>1, <2>2, <2>3, FS_Subset
  <2>5. QED BY <1>1, <1>4, <2>1, <2>4
<1>6. \A y \in S : m >= y
  BY <1>5
<1>7. QED BY <1>6 DEF Max

LEMMA NewIdIsFresh ==
  ASSUME NEW rec \in Record
  PROVE  NextAncId(rec) \in AnchorId /\ NextAncId(rec)[1] = "ANC" /\ NextAncId(rec) \notin Ids(rec)
<1> DEFINE S == {0} \cup {id[2] : id \in {x \in Ids(rec) : x[1] = "ANC"}}
           f == [i \in 0 .. Len(rec) |-> IF i # 0 /\ rec[i].id[1] = "ANC" THEN rec[i].id[2] ELSE 0]
<1>1. DOMAIN rec = 1 .. Len(rec) /\ Len(rec) \in Nat /\ \A i \in DOMAIN rec : rec[i].id \in AnchorId
  <2>1. rec \in Seq(Anchor)
    BY DEF Record
  <2>2. \A i \in DOMAIN rec : rec[i] \in Anchor
    BY <2>1
  <2>3. \A a \in Anchor : a.id \in AnchorId
    BY DEF Anchor
  <2>4. QED BY <2>1, <2>2, <2>3
<1>2. \A id \in AnchorId : id[2] \in Nat /\ id = <<id[1], id[2]>>
  BY DEF AnchorId
<1>3. S \subseteq Nat
  BY <1>1, <1>2 DEF Ids
<1>4. f \in Surjection(0 .. Len(rec), S)
  <2>1. f \in [0 .. Len(rec) -> S]
    <3> SUFFICES ASSUME NEW i \in 0 .. Len(rec) PROVE f[i] \in S
      OBVIOUS
    <3>1. CASE i # 0 /\ rec[i].id[1] = "ANC"
      <4>1. rec[i].id \in Ids(rec)
        BY <1>1, <3>1 DEF Ids
      <4>2. QED BY <3>1, <4>1
    <3>2. CASE ~(i # 0 /\ rec[i].id[1] = "ANC")
      BY <3>2
    <3>3. QED BY <3>1, <3>2
  <2>2. ASSUME NEW t \in S PROVE \E i \in 0 .. Len(rec) : f[i] = t
    <3>1. CASE t = 0
      BY <1>1, <3>1
    <3>2. CASE t # 0
      <4>1. PICK i \in DOMAIN rec : rec[i].id[1] = "ANC" /\ rec[i].id[2] = t
        BY <3>2 DEF Ids
      <4>2. i \in 0 .. Len(rec) /\ i # 0
        BY <1>1, <4>1
      <4>3. f[i] = t
        BY <4>1, <4>2
      <4>4. QED BY <4>2, <4>3
    <3>3. QED BY <3>1, <3>2
  <2>3. QED BY <2>1, <2>2 DEF Surjection
<1>5. IsFiniteSet(S)
  BY <1>1, <1>4, FS_Interval, FS_Surjection
<1> HIDE DEF S
<1>6. Max(S) \in Nat /\ \A y \in S : y <= Max(S)
  BY <1>3, <1>5, MaxOfNumbers DEF S
<1>7. NextAncId(rec) = <<"ANC", 1 + Max(S)>>
  BY DEF NextAncId, AfterLargest, S
<1>8. ASSUME NextAncId(rec) \in Ids(rec) PROVE FALSE
  <2>1. ASSUME NEW id \in Ids(rec), id[1] = "ANC" PROVE id[2] \in S
    BY <2>1 DEF S
  <2>2. NextAncId(rec)[1] = "ANC" /\ NextAncId(rec)[2] = 1 + Max(S)
    BY <1>7
  <2>3. 1 + Max(S) \in S
    BY <1>8, <2>1, <2>2
  <2>4. QED BY <1>6, <2>3
<1>9. QED BY <1>6, <1>7, <1>8 DEF AnchorId

-----------------------------------------------------------------------------
(* What the commands make of a record                                      *)

LEMMA OneAnchor ==
  ASSUME NEW rec \in Record, NEW i \in DOMAIN rec, NEW a \in Anchor, Later(rec[i], a),
         NEW new, new = [rec EXCEPT ![i] = a]
  PROVE  /\ new \in Record /\ Grown(rec, new) /\ Ids(new) = Ids(rec)
         /\ Justified(rec) /\ Fit(a) => Justified(new)
<1>1. rec \in Seq(Anchor) /\ Unique(rec) /\ a.id = rec[i].id
  BY DEF Record, Later
<1>2. DOMAIN new = DOMAIN rec /\ new[i] = a /\ \A j \in DOMAIN rec : j # i => new[j] = rec[j]
  OBVIOUS
<1>3. new \in Seq(Anchor)
  BY <1>1
<1>4. \A j \in DOMAIN rec : new[j].id = rec[j].id
  BY <1>1, <1>2
<1>5. Unique(new)
  BY <1>1, <1>2, <1>4 DEF Unique
<1>6. Grown(rec, new)
  <2>1. \A j \in DOMAIN rec : rec[j] \in Anchor
    BY <1>1
  <2>2. QED BY <1>2, <2>1, LaterIsReflexive DEF Grown
<1>7. Ids(new) = Ids(rec)
  BY <1>2, <1>4 DEF Ids
<1>8. Justified(rec) /\ Fit(a) => Justified(new)
  BY <1>2 DEF Justified
<1>9. QED BY <1>3, <1>5, <1>6, <1>7, <1>8 DEF Record

LEMMA AddedAnchor ==
  ASSUME NEW rec \in Record, NEW a \in Anchor, a.id \notin Ids(rec),
         NEW new, new = Append(rec, a)
  PROVE  /\ new \in Record /\ Grown(rec, new) /\ new[Len(new)].id = a.id /\ a.id \in Ids(new)
         /\ Justified(rec) /\ Fit(a) => Justified(new)
<1>1. rec \in Seq(Anchor) /\ Unique(rec)
  BY DEF Record
<1>2. /\ new \in Seq(Anchor) /\ Len(new) = Len(rec) + 1 /\ new[Len(new)] = a
      /\ DOMAIN rec = 1 .. Len(rec) /\ DOMAIN new = 1 .. Len(rec) + 1 /\ Len(rec) \in Nat
      /\ \A j \in DOMAIN rec : new[j] = rec[j]
  BY <1>1
<1>3. \A j \in DOMAIN new : j \in DOMAIN rec \/ j = Len(new)
  BY <1>2
<1>4. \A j \in DOMAIN rec : rec[j].id # a.id
  BY DEF Ids
<1>5. Unique(new)
  <2> SUFFICES ASSUME NEW j \in DOMAIN new, NEW k \in DOMAIN new, new[j].id = new[k].id
               PROVE  j = k
    BY DEF Unique
  <2>1. CASE j \in DOMAIN rec /\ k \in DOMAIN rec
    BY <1>1, <1>2, <2>1 DEF Unique
  <2>2. CASE ~(j \in DOMAIN rec /\ k \in DOMAIN rec)
    BY <1>2, <1>3, <1>4, <2>2
  <2>3. QED BY <2>1, <2>2
<1>6. Grown(rec, new)
  <2>1. \A j \in DOMAIN rec : rec[j] \in Anchor /\ j \in DOMAIN new
    BY <1>1, <1>2
  <2>2. QED BY <1>2, <2>1, LaterIsReflexive DEF Grown
<1>7. a.id \in Ids(new)
  <2>1. Len(new) \in DOMAIN new
    BY <1>2
  <2>2. QED BY <1>2, <2>1 DEF Ids
<1>8. Justified(rec) /\ Fit(a) => Justified(new)
  BY <1>2, <1>3 DEF Justified
<1>9. QED BY <1>2, <1>5, <1>6, <1>7, <1>8 DEF Record

\* No command of the kind that leaves a promoted anchor without its ADR.
Orderly(c) == c.op = "add" => c.status # "promoted"

\* What each command owes: a record grown from the one it read, with the anchor
\* it is about.
Owes(rec, c, out, id) ==
  out.answer = "changed" =>
    /\ out.record \in Record /\ Grown(rec, out.record) /\ id \in Ids(out.record)
    /\ Justified(rec) /\ Orderly(c) => Justified(out.record)

LEMMA AddOwes ==
  ASSUME NEW rec \in Record, NEW c \in RecordCommand, c.op = "add",
         NEW out, out = AddTo(rec, c)
  PROVE  Owes(rec, c, out, out.record[Len(out.record)].id)
<1>1. /\ c.id \in AnchorId /\ c.statement \in Statement /\ c.status \in Status
      /\ c.structural \in BOOLEAN
  BY DEF RecordCommand
<1> DEFINE id == IF c.id[1] = "ANC" THEN NextAncId(rec) ELSE c.id
           a == NewAnchor(id, c)
<1>2. SUFFICES ASSUME out.answer = "changed"
               PROVE  Owes(rec, c, out, out.record[Len(out.record)].id)
  BY DEF Owes
<1>3. /\ c.id[1] = "ANC" \/ id \notin Ids(rec)
      /\ ~LintRefuses(c.statement, c.id[1], c.strict)
      /\ out = Save(Append(rec, a))
  BY <1>2 DEF AddTo, Unsaved
<1>4. id \in AnchorId /\ id \notin Ids(rec) /\ id[1] = c.id[1]
  BY <1>1, <1>3, NewIdIsFresh
<1> HIDE DEF id
<1>5. a \in Anchor
  <2>1. {} \in SUBSET Item /\ 1 \in Nat \ {0}
    OBVIOUS
  <2>2. ASSUME NEW adr \in BOOLEAN, NEW beads \in BOOLEAN, NEW structural \in BOOLEAN
        PROVE  [id |-> id, status |-> c.status, version |-> 1, statement |-> c.statement,
                structural |-> structural, exclude |-> {}, adr |-> adr,
                beads |-> beads] \in Anchor
    BY <1>1, <1>4, <2>1 DEF Anchor
  <2>3. QED BY <1>1, <2>2 DEF NewAnchor
<1>6. a.id = id /\ a.status = c.status /\ a.statement = c.statement
  BY DEF NewAnchor
<1>7. c.id[1] = "ANC" => c.statement \notin Verbatim
  BY <1>3 DEF LintRefuses
<1>8. Orderly(c) => Fit(a)
  BY <1>4, <1>6, <1>7 DEF Orderly, Fit
<1> HIDE DEF a
<1>9. out.record = Append(rec, a)
  BY <1>3 DEF Save
<1>10. QED BY <1>4, <1>5, <1>6, <1>8, <1>9, AddedAnchor DEF Owes

\* A change of the anchor a command names.
LEMMA ChangeOwes ==
  ASSUME NEW rec \in Record, NEW c, NEW id \in Ids(rec), NEW a \in Anchor,
         Later(rec[Position(rec, id)], a),
         Justified(rec) => Fit(a),
         NEW out, out = Save([rec EXCEPT ![Position(rec, id)] = a])
  PROVE  Owes(rec, c, out, id)
<1> DEFINE i == Position(rec, id)
<1>1. i \in DOMAIN rec
  BY AtPosition
<1>2. out.record = [rec EXCEPT ![i] = a]
  BY DEF Save
<1> HIDE DEF i
<1>3. QED BY <1>1, <1>2, OneAnchor DEF Owes, i

LEMMA UpdateOwes ==
  ASSUME NEW rec \in Record, NEW c, NEW id \in Ids(rec), c.id = id, c.statement \in Statement,
         c.structural \in BOOLEAN, NEW out, out = UpdateIn(rec, c)
  PROVE  Owes(rec, c, out, id)
<1> DEFINE i == Position(rec, id)
           b == rec[i]
           a == [b EXCEPT !.statement = c.statement, !.structural = c.structural,
                          !.version = @ + 1]
<1>1. SUFFICES ASSUME out.answer = "changed" PROVE Owes(rec, c, out, id)
  BY DEF Owes
<1>2. i \in DOMAIN rec /\ b \in Anchor /\ b.id = id
  BY AtPosition
<1>3. /\ ~LintRefuses(c.statement, c.id[1], c.strict)
      /\ out = Save([rec EXCEPT ![i].statement = c.statement, ![i].structural = c.structural,
                                ![i].version = @ + 1])
  BY <1>1 DEF UpdateIn, UpdateBy, Unsaved
<1>4. [rec EXCEPT ![i].statement = c.statement, ![i].structural = c.structural,
                  ![i].version = @ + 1] = [rec EXCEPT ![i] = a]
  BY <1>2
<1>5. /\ b.version \in Nat \ {0} /\ b.version + 1 \in Nat \ {0}
      /\ b.status \in Status /\ b.exclude \in SUBSET Item
      /\ b.adr \in BOOLEAN /\ b.beads \in BOOLEAN
  BY <1>2 DEF Anchor
<1>6. a \in Anchor /\ a.id = id /\ a.version = b.version + 1 /\ a.statement = c.statement
      /\ a.status = b.status /\ a.adr = b.adr
  BY <1>2, <1>5 DEF Anchor
<1>7. id[1] = "ANC" => c.statement \notin Verbatim
  BY <1>3 DEF LintRefuses
<1>8. Justified(rec) => Fit(b)
  BY <1>2 DEF Justified
<1> HIDE DEF a, b
<1>9. Later(b, a)
  BY <1>2, <1>5, <1>6 DEF Later
<1>10. Justified(rec) => Fit(a)
  BY <1>6, <1>7, <1>8 DEF Fit
<1>11. QED BY <1>3, <1>4, <1>6, <1>9, <1>10, ChangeOwes DEF b

LEMMA RetireOwes ==
  ASSUME NEW rec \in Record, NEW c, NEW id \in Ids(rec), c.id = id,
         NEW out, out = RetireIn(rec, c)
  PROVE  Owes(rec, c, out, id)
<1> DEFINE i == Position(rec, id)
           b == rec[i]
           a == [b EXCEPT !.status = "retired", !.version = @ + 1]
<1>1. SUFFICES ASSUME out.answer = "changed" PROVE Owes(rec, c, out, id)
  BY DEF Owes
<1>2. i \in DOMAIN rec /\ b \in Anchor /\ b.id = id
  BY AtPosition
<1>3. out = Save([rec EXCEPT ![i].status = "retired", ![i].version = @ + 1])
  BY <1>1 DEF RetireIn, Unsaved
<1>4. [rec EXCEPT ![i].status = "retired", ![i].version = @ + 1] = [rec EXCEPT ![i] = a]
  BY <1>2
<1>5. b.version \in Nat \ {0} /\ b.version + 1 \in Nat \ {0} /\ "retired" \in Status
  BY <1>2 DEF Anchor, Status
<1>6. a \in Anchor /\ a.id = id /\ a.version = b.version + 1 /\ a.statement = b.statement
      /\ a.status = "retired"
  BY <1>2, <1>5 DEF Anchor
<1>7. Justified(rec) => Fit(b)
  BY <1>2 DEF Justified
<1> HIDE DEF a, b
<1>8. Later(b, a)
  BY <1>2, <1>5, <1>6 DEF Later
<1>9. Justified(rec) => Fit(a)
  BY <1>2, <1>6, <1>7 DEF Fit
<1>10. QED BY <1>3, <1>4, <1>6, <1>8, <1>9, ChangeOwes DEF b

LEMMA PromoteOwes ==
  ASSUME NEW rec \in Record, NEW c, NEW id \in Ids(rec), c.id = id,
         NEW out, out = PromoteIn(rec, c)
  PROVE  Owes(rec, c, out, id)
<1> DEFINE i == Position(rec, id)
           b == rec[i]
           a == [b EXCEPT !.status = "promoted", !.adr = TRUE, !.version = @ + 1]
<1>1. i \in DOMAIN rec /\ b \in Anchor /\ b.id = id
  BY AtPosition
<1>2. out = Save([rec EXCEPT ![i].status = "promoted", ![i].adr = TRUE, ![i].version = @ + 1])
  BY DEF PromoteIn
<1>3. [rec EXCEPT ![i].status = "promoted", ![i].adr = TRUE, ![i].version = @ + 1]
        = [rec EXCEPT ![i] = a]
  BY <1>1
<1>4. b.version \in Nat \ {0} /\ b.version + 1 \in Nat \ {0} /\ "promoted" \in Status
  BY <1>1 DEF Anchor, Status
<1>5. a \in Anchor /\ a.id = id /\ a.version = b.version + 1 /\ a.statement = b.statement
  <2>1. ASSUME NEW adr \in BOOLEAN,
               NEW new, new = [b EXCEPT !.status = "promoted", !.adr = adr, !.version = @ + 1]
        PROVE  new \in Anchor /\ new.id = id /\ new.version = b.version + 1
               /\ new.statement = b.statement
    BY <1>1, <1>4, <2>1 DEF Anchor
  <2>2. QED BY <2>1
<1>6. a.adr
  BY <1>1 DEF Anchor
<1>7. Justified(rec) => Fit(b)
  BY <1>1 DEF Justified
<1> HIDE DEF a, b
<1>8. Later(b, a)
  BY <1>1, <1>4, <1>5 DEF Later
<1>9. Justified(rec) => Fit(a)
  BY <1>1, <1>5, <1>6, <1>7 DEF Fit
<1>10. QED BY <1>2, <1>3, <1>5, <1>8, <1>9, ChangeOwes DEF b

LEMMA ExcludeOwes ==
  ASSUME NEW rec \in Record, NEW c, NEW id \in Ids(rec), c.id = id, c.item \in Item,
         NEW out, out = ExcludeIn(rec, c)
  PROVE  Owes(rec, c, out, id)
<1> DEFINE i == Position(rec, id)
           b == rec[i]
<1>1. SUFFICES ASSUME out.answer = "changed" PROVE Owes(rec, c, out, id)
  BY DEF Owes
<1>2. i \in DOMAIN rec /\ b \in Anchor /\ b.id = id
  BY AtPosition
<1>3. PICK items \in SUBSET Item : out = Save([rec EXCEPT ![i].exclude = items])
  <2>1. b.exclude \in SUBSET Item
    BY <1>2 DEF Anchor
  <2>2. CASE c.remove
    <3>1. out = Save([rec EXCEPT ![i].exclude = @ \ {c.item}])
      BY <1>1, <2>2 DEF ExcludeIn, Unsaved
    <3>2. [rec EXCEPT ![i].exclude = @ \ {c.item}] = [rec EXCEPT ![i].exclude = b.exclude \ {c.item}]
      BY <1>2
    <3>3. QED BY <2>1, <3>1, <3>2
  <2>3. CASE ~c.remove
    <3>1. out = Save([rec EXCEPT ![i].exclude = @ \cup {c.item}])
      BY <2>3 DEF ExcludeIn
    <3>2. [rec EXCEPT ![i].exclude = @ \cup {c.item}]
            = [rec EXCEPT ![i].exclude = b.exclude \cup {c.item}]
      BY <1>2
    <3>3. QED BY <2>1, <3>1, <3>2
  <2>4. QED BY <2>2, <2>3
<1> DEFINE a == [b EXCEPT !.exclude = items]
<1>4. [rec EXCEPT ![i].exclude = items] = [rec EXCEPT ![i] = a]
  BY <1>2
<1>5. /\ a \in Anchor /\ a.id = b.id /\ a.version = b.version /\ a.statement = b.statement
      /\ a.status = b.status /\ a.adr = b.adr /\ b.version \in Nat
  BY <1>2 DEF Anchor
<1>6. Justified(rec) => Fit(b)
  BY <1>2 DEF Justified
<1> HIDE DEF a, b
<1>7. Later(b, a)
  BY <1>5 DEF Later
<1>8. Justified(rec) => Fit(a)
  BY <1>5, <1>6 DEF Fit
<1>9. QED BY <1>3, <1>4, <1>5, <1>7, <1>8, ChangeOwes DEF b

LEMMA SetBeadsOwes ==
  ASSUME NEW rec \in Record, NEW c, NEW id \in Ids(rec), c.id = id,
         NEW out, out = SetBeadsIn(rec, c)
  PROVE  Owes(rec, c, out, id)
<1> DEFINE i == Position(rec, id)
           b == rec[i]
           a == [b EXCEPT !.beads = TRUE]
<1>1. i \in DOMAIN rec /\ b \in Anchor /\ b.id = id
  BY AtPosition
<1>2. out = Save([rec EXCEPT ![i].beads = TRUE])
  BY DEF SetBeadsIn
<1>3. [rec EXCEPT ![i].beads = TRUE] = [rec EXCEPT ![i] = a]
  BY <1>1
<1>4. /\ a \in Anchor /\ a.id = b.id /\ a.version = b.version /\ a.statement = b.statement
      /\ a.status = b.status /\ a.adr = b.adr /\ b.version \in Nat
  <2>1. ASSUME NEW beads \in BOOLEAN, NEW new, new = [b EXCEPT !.beads = beads]
        PROVE  /\ new \in Anchor /\ new.id = b.id /\ new.version = b.version
               /\ new.statement = b.statement /\ new.status = b.status /\ new.adr = b.adr
    BY <1>1, <2>1 DEF Anchor
  <2>2. b.version \in Nat
    BY <1>1 DEF Anchor
  <2>3. QED BY <2>1, <2>2
<1>5. Justified(rec) => Fit(b)
  BY <1>1 DEF Justified
<1> HIDE DEF a, b
<1>6. Later(b, a)
  BY <1>4 DEF Later
<1>7. Justified(rec) => Fit(a)
  BY <1>4, <1>5 DEF Fit
<1>8. QED BY <1>2, <1>3, <1>4, <1>6, <1>7, ChangeOwes DEF b

\* The anchor a command that saves is about: for add the one it appended.
About(c, out) == IF c.op = "add" THEN out.record[Len(out.record)].id ELSE c.id

LEMMA OutcomeOwes ==
  ASSUME NEW rec \in Record, NEW c \in RecordCommand, NEW out, out = Outcome(rec, c)
  PROVE  Owes(rec, c, out, About(c, out))
<1>1. CASE c.op = "add"
  BY <1>1, AddOwes DEF Outcome, About
<1>2. CASE c.op # "add" /\ c.id \notin Ids(rec)
  BY <1>2 DEF Outcome, Unsaved, Owes
<1>3. CASE c.op # "add" /\ c.id \in Ids(rec)
  <2>1. About(c, out) = c.id
    BY <1>3 DEF About
  <2>2. CASE c.op = "update"
    <3>1. out = UpdateIn(rec, c) /\ c.statement \in Statement /\ c.structural \in BOOLEAN
      BY <1>3, <2>2 DEF Outcome, RecordCommand
    <3>2. QED BY <1>3, <2>1, <3>1, UpdateOwes
  <2>3. CASE c.op = "retire"
    <3>1. out = RetireIn(rec, c)
      BY <1>3, <2>3 DEF Outcome
    <3>2. QED BY <1>3, <2>1, <3>1, RetireOwes
  <2>4. CASE c.op = "promote"
    <3>1. out = PromoteIn(rec, c)
      BY <1>3, <2>4 DEF Outcome
    <3>2. QED BY <1>3, <2>1, <3>1, PromoteOwes
  <2>5. CASE c.op = "exclude"
    <3>1. out = ExcludeIn(rec, c) /\ c.item \in Item
      BY <1>3, <2>5 DEF Outcome, RecordCommand
    <3>2. QED BY <1>3, <2>1, <3>1, ExcludeOwes
  <2>6. CASE c.op = "beads"
    <3>1. out = SetBeadsIn(rec, c)
      BY <1>3, <2>6 DEF Outcome
    <3>2. QED BY <1>3, <2>1, <3>1, SetBeadsOwes
  <2>7. c.op \in {"update", "retire", "promote", "beads", "exclude"}
    BY <1>3 DEF RecordCommand
  <2>8. QED BY <2>2, <2>3, <2>4, <2>5, <2>6, <2>7
<1>4. QED BY <1>1, <1>2, <1>3

-----------------------------------------------------------------------------
(* The inductive invariant                                                 *)

\* A run speaks of anchors of the record it saw, of all judged ones if it was
\* told to, and leaves out only what that record excludes or has as structural.
IsRun(r) ==
  /\ DOMAIN r = {"item", "at", "all", "n", "dry", "torn", "seen", "results"}
  /\ r.item \in Item /\ r.seen \in Record
  /\ DOMAIN r.results \subseteq Ids(r.seen)
  /\ r.all => DOMAIN r.results = JudgedIds(r.seen)
  /\ \A id \in DOMAIN r.results :
       /\ r.results[id] \in Verdict \cup {"excluded", "deterministic_only", "none"}
       /\ r.results[id] = "excluded" => Excluded(r.seen, r.item, id)
       /\ r.results[id] = "deterministic_only" => Find(r.seen, id).structural
       /\ r.results[id] = "satisfied" => ~Find(r.seen, id).structural
       /\ r.results[id] = "none" => r.dry

\* A process that is to save carries the new record, with the anchor it is about.
IsSaver(q) ==
  /\ q \in [pc: {"asking", "loaded"}, next: Record, id: AnchorId]
           \cup [pc: {"opened", "written"}, next: Record, id: AnchorId, handle: Inode]
  /\ q.id \in Ids(q.next)

IsJudge(q) ==
  /\ q \in [pc: {"judging"}, cmd: JudgeCommand, seen: Record]
  /\ Selected(q.seen, q.cmd) \subseteq Ids(q.seen)

IsNamed(q) ==
  q.pc \in {"named", "drafted"} /\ DOMAIN q = {"pc", "run"} /\ IsRun(q.run)

Content == {Empty, Torn} \cup {Whole(rec) : rec \in Record}

Types ==
  /\ file \in Inode \cup {None} /\ tmp \in Inode \cup {None}
  /\ data \in [Inode -> Content]
  /\ DOMAIN proc = Proc
  /\ \A p \in Proc : proc[p] = Idle \/ IsSaver(proc[p]) \/ IsJudge(proc[p]) \/ IsNamed(proc[p])
  /\ \A r \in runs \cup drafts : IsRun(r)
  /\ \A a \in acked : a.version \in Nat
  /\ now \in 0 .. MaxTime /\ issued \in 0 .. MaxCommands
  /\ overlapped \in BOOLEAN

\* No run is of the future.
Dated ==
  /\ \A r \in runs \cup drafts : r.at \in 0 .. now
  /\ \A p \in Proc : proc[p].pc \in {"named", "drafted"} => proc[p].run.at \in 0 .. now

\* As long as no two saving commands ran at once, the one that saves has the
\* temporary file to itself, and its record is grown from the one on disk ...
Alone == \A p, q \in Proc : proc[p].pc \in Saving /\ proc[q].pc \in Saving => p = q

InPlace == file # None => data[file].state = "whole" /\ tmp # file

InHand ==
  \A p \in Proc :
    /\ proc[p].pc \in {"opened", "written"} => tmp = proc[p].handle
    /\ proc[p].pc = "opened" => data[proc[p].handle] = Empty
    /\ proc[p].pc = "written" => data[proc[p].handle] = Whole(proc[p].next)

Derived == \A p \in Proc : proc[p].pc \in Saving => Grown(Loaded, proc[p].next)

\* ... as is what is on disk from all that was acknowledged or judged.
Kept == \A a \in acked : file # None /\ \E i \in DOMAIN Loaded : Later(a, Loaded[i])

Past(rec) == file # None /\ Grown(rec, Loaded)

Seen ==
  /\ \A r \in runs \cup drafts : Past(r.seen)
  /\ \A p \in Proc : /\ proc[p].pc = "judging" => Past(proc[p].seen)
                     /\ proc[p].pc \in {"named", "drafted"} => Past(proc[p].run.seen)

OneSaver == Alone /\ InPlace /\ InHand /\ Derived /\ Kept /\ Seen

Serial == ~overlapped => OneSaver

\* If no command adds an anchor as promoted: what is on disk and what is to be
\* saved is justified.
Just ==
  /\ \A i \in Inode : Justified(data[i].rec)
  /\ \A p \in Proc : proc[p].pc \in Saving => Justified(proc[p].next)

-----------------------------------------------------------------------------
(* Processes and files                                                     *)

LEMMA InodeFacts ==
  /\ Cardinality(Proc) \in Nat /\ None \notin Inode
  /\ IsFiniteSet(Inode) /\ Cardinality(Inode) = Cardinality(Proc) + 2
<1>1. Cardinality(Proc) \in Nat
  BY WorkspaceAssumption, FS_CardinalityType
<1>2. IsFiniteSet(Inode) /\ Cardinality(Inode) = Cardinality(Proc) + 2
  BY <1>1, FS_Interval DEF Inode
<1>3. QED BY <1>1, <1>2 DEF Inode, None

\* Which place a process of each kind is at.
LEMMA Places ==
  ASSUME NEW q
  PROVE  /\ q = Idle => q.pc = "idle"
         /\ IsSaver(q) => q.pc \in Saving /\ q.next \in Record /\ q.id \in AnchorId
                          /\ q.id \in Ids(q.next)
                          /\ (q.pc \in {"opened", "written"} => q.handle \in Inode)
         /\ IsJudge(q) => q.pc = "judging" /\ q.seen \in Record /\ q.cmd \in JudgeCommand
         /\ IsNamed(q) => q.pc \in {"named", "drafted"}
<1>1. q = Idle => q.pc = "idle"
  BY DEF Idle
<1>2. IsSaver(q) => q.pc \in Saving /\ q.next \in Record /\ q.id \in AnchorId
                    /\ q.id \in Ids(q.next)
                    /\ (q.pc \in {"opened", "written"} => q.handle \in Inode)
  BY DEF IsSaver, Saving
<1>3. IsJudge(q) => q.pc = "judging" /\ q.seen \in Record /\ q.cmd \in JudgeCommand
  BY DEF IsJudge
<1>4. QED BY <1>1, <1>2, <1>3 DEF IsNamed

LEMMA ByPlace ==
  ASSUME Types, NEW p \in Proc
  PROVE  /\ proc[p].pc \in Saving => IsSaver(proc[p])
         /\ proc[p].pc = "judging" => IsJudge(proc[p])
         /\ proc[p].pc \in {"named", "drafted"} => IsNamed(proc[p])
         /\ proc[p].pc = "idle" => proc[p] = Idle
         /\ proc[p].pc \in Saving \cup {"idle", "judging", "named", "drafted"}
<1>1. proc[p] = Idle \/ IsSaver(proc[p]) \/ IsJudge(proc[p]) \/ IsNamed(proc[p])
  BY DEF Types
<1> DEFINE q == proc[p]
<1> HIDE DEF q
<1>2. /\ q = Idle => q.pc = "idle"
      /\ IsSaver(q) => q.pc \in Saving
      /\ IsJudge(q) => q.pc = "judging"
      /\ IsNamed(q) => q.pc \in {"named", "drafted"}
  BY Places
<1>3. {"idle", "judging", "named", "drafted"} \cap Saving = {}
  BY DEF Saving
<1>4. QED BY <1>1, <1>2, <1>3 DEF q

LEMMA LoadedRecord ==
  ASSUME Types
  PROVE  /\ Loaded \in Record
         /\ \A i \in Inode : data[i].rec \in Record /\ data[i].state \in {"empty", "torn", "whole"}
<1>1. <<>> \in Record
  BY DEF Record, Unique
<1>2. ASSUME NEW i \in Inode
      PROVE  data[i].rec \in Record /\ data[i].state \in {"empty", "torn", "whole"}
  <2>1. data[i] \in Content
    BY <1>2 DEF Types
  <2>2. CASE data[i] = Empty \/ data[i] = Torn
    BY <1>1, <2>2 DEF Empty, Torn
  <2>3. CASE \E rec \in Record : data[i] = Whole(rec)
    BY <2>3 DEF Whole
  <2>4. QED BY <2>1, <2>2, <2>3 DEF Content
<1>3. Loaded \in Record
  BY <1>1, <1>2 DEF Types, Loaded
<1>4. QED BY <1>2, <1>3

\* One process moves.
LEMMA OneMoves ==
  ASSUME Types, NEW p \in Proc, NEW q, proc' = [proc EXCEPT ![p] = q]
  PROVE  /\ DOMAIN proc' = Proc /\ proc'[p] = q
         /\ \A o \in Proc : o # p => proc'[o] = proc[o]
  BY DEF Types

\* With the temporary name gone there is an inode to open.
LEMMA FreeInodeIsFree ==
  ASSUME Types, NEW p \in Proc, proc[p].pc = "loaded", tmp = None
  PROVE  FreeInode \in Inode /\ FreeInode # file
<1> DEFINE Openers == {q \in Proc : proc[q].pc = "opened"}
           H == {proc[q].handle : q \in Openers}
           h == [q \in Openers |-> proc[q].handle]
<1>1. Openers \in SUBSET (Proc \ {p})
  OBVIOUS
<1>2. IsFiniteSet(Openers) /\ Cardinality(Openers) < Cardinality(Proc) /\ Cardinality(Openers) \in Nat
  <2>1. IsFiniteSet(Proc \ {p}) /\ Cardinality(Proc \ {p}) = Cardinality(Proc) - 1
    BY WorkspaceAssumption, FS_RemoveElement
  <2>2. IsFiniteSet(Openers) /\ Cardinality(Openers) <= Cardinality(Proc \ {p})
    BY <1>1, <2>1, FS_Subset
  <2>3. Cardinality(Openers) \in Nat
    BY <2>2, FS_CardinalityType
  <2>4. QED BY <2>1, <2>2, <2>3, InodeFacts
<1>3. h \in Surjection(Openers, H)
  BY DEF Surjection
<1> HIDE DEF Openers, H, h
<1>4. IsFiniteSet(H) /\ Cardinality(H) <= Cardinality(Openers)
  BY <1>2, <1>3, FS_Surjection
<1>5. IsFiniteSet(H \cup {file}) /\ Cardinality(H \cup {file}) <= Cardinality(H) + 1
      /\ Cardinality(H) \in Nat
  <2>1. Cardinality(H) \in Nat
    BY <1>4, FS_CardinalityType
  <2>2. IsFiniteSet(H \cup {file})
        /\ (Cardinality(H \cup {file}) = Cardinality(H)
            \/ Cardinality(H \cup {file}) = Cardinality(H) + 1)
    BY <1>4, FS_AddElement
  <2>3. QED BY <2>1, <2>2
<1>6. \E i \in Inode : i \notin H \cup {file}
  <2> SUFFICES ASSUME \A i \in Inode : i \in H \cup {file} PROVE FALSE
    OBVIOUS
  <2>1. Inode \in SUBSET (H \cup {file})
    OBVIOUS
  <2>2. Cardinality(Inode) <= Cardinality(H \cup {file})
    BY <1>5, <2>1, FS_Subset
  <2>3. Cardinality(H \cup {file}) \in Nat
    BY <1>5, FS_CardinalityType
  <2>4. QED BY <1>2, <1>4, <1>5, <2>2, <2>3, InodeFacts
<1>7. \E i \in Inode : i \notin {file, tmp} \cup H
  BY <1>6, InodeFacts
<1>8. FreeInode = CHOOSE i \in Inode : i \notin {file, tmp} \cup H
  BY DEF FreeInode, H, Openers
<1>9. FreeInode \in Inode /\ FreeInode \notin {file, tmp} \cup H
  BY <1>7, <1>8
<1>10. QED BY <1>9

LEMMA MovedTypes ==
  ASSUME Types, NEW p \in Proc, NEW q, proc' = [proc EXCEPT ![p] = q],
         q = Idle \/ IsSaver(q) \/ IsJudge(q) \/ IsNamed(q)
  PROVE  /\ DOMAIN proc' = Proc
         /\ \A o \in Proc : proc'[o] = Idle \/ IsSaver(proc'[o]) \/ IsJudge(proc'[o])
                            \/ IsNamed(proc'[o])
<1>1. DOMAIN proc' = Proc /\ proc'[p] = q /\ \A o \in Proc : o # p => proc'[o] = proc[o]
  BY OneMoves
<1>2. \A o \in Proc : proc[o] = Idle \/ IsSaver(proc[o]) \/ IsJudge(proc[o]) \/ IsNamed(proc[o])
  BY DEF Types
<1>3. ASSUME NEW o \in Proc
      PROVE  proc'[o] = Idle \/ IsSaver(proc'[o]) \/ IsJudge(proc'[o]) \/ IsNamed(proc'[o])
  <2>1. CASE o = p
    BY <1>1, <2>1
  <2>2. CASE o # p
    BY <1>1, <1>2, <1>3, <2>2
  <2>3. QED BY <2>1, <2>2
<1>4. QED BY <1>1, <1>3

-----------------------------------------------------------------------------
(* What the steps of a process make of it                                  *)

\* A record command that goes on carries a record grown from the one on disk.
LEMMA RunDoes ==
  ASSUME Types, NEW p \in Proc, NEW c \in Command, Run(p, c)
  PROVE  \/ proc' = proc /\ overlapped' = overlapped
         \/ \E q : /\ proc' = [proc EXCEPT ![p] = q]
                   /\ overlapped' = (overlapped \/ \E o \in Proc : proc[o].pc \in Saving)
                   /\ IsSaver(q) /\ q.pc \in {"asking", "loaded"} /\ Grown(Loaded, q.next)
                   /\ Justified(Loaded) /\ Orderly(c) => Justified(q.next)
<1> DEFINE out == Outcome(Loaded, c)
           pc == IF c.op = "add" /\ c.rubric THEN "asking" ELSE "loaded"
           q == [pc |-> pc, next |-> out.record, id |-> About(c, out)]
<1>1. SUFFICES ASSUME Loadable(c) /\ out.answer = "changed"
      PROVE  \E r : /\ proc' = [proc EXCEPT ![p] = r]
                    /\ overlapped' = (overlapped \/ \E o \in Proc : proc[o].pc \in Saving)
                    /\ IsSaver(r) /\ r.pc \in {"asking", "loaded"} /\ Grown(Loaded, r.next)
                    /\ Justified(Loaded) /\ Orderly(c) => Justified(r.next)
  BY DEF Run
<1>2. /\ proc' = [proc EXCEPT ![p] = q]
      /\ overlapped' = (overlapped \/ \E o \in Proc : proc[o].pc \in Saving)
  BY <1>1 DEF Run, About
<1>3. c \in RecordCommand
  BY WorkspaceAssumption DEF Run, JudgeCommand
<1>4. Owes(Loaded, c, out, About(c, out))
  BY <1>3, LoadedRecord, OutcomeOwes
<1> HIDE DEF out
<1>5. /\ out.record \in Record /\ Grown(Loaded, out.record)
      /\ About(c, out) \in Ids(out.record)
      /\ Justified(Loaded) /\ Orderly(c) => Justified(out.record)
  BY <1>1, <1>4 DEF Owes
<1>6. About(c, out) \in AnchorId
  <2>1. /\ Find(out.record, About(c, out)) \in Anchor
        /\ Find(out.record, About(c, out)).id = About(c, out)
    BY <1>5, AtPosition
  <2>2. QED BY <2>1 DEF Anchor
<1>7. pc \in {"asking", "loaded"}
  OBVIOUS
<1> HIDE DEF pc
<1>8. IsSaver(q) /\ q.pc = pc /\ q.next = out.record
  BY <1>5, <1>6, <1>7 DEF IsSaver
<1> HIDE DEF q
<1>9. QED BY <1>2, <1>5, <1>7, <1>8

LEMMA RubricAnswersDoes ==
  ASSUME Types, NEW p \in Proc, NEW testable \in BOOLEAN, RubricAnswers(p, testable)
  PROVE  \E q : /\ proc' = [proc EXCEPT ![p] = q]
                /\ \/ q = Idle
                   \/ IsSaver(q) /\ q.pc = "loaded" /\ q.next = proc[p].next
<1> DEFINE q == [proc[p] EXCEPT !.pc = "loaded"]
<1>1. proc[p] \in [pc: {"asking", "loaded"}, next: Record, id: AnchorId]
      /\ proc[p].id \in Ids(proc[p].next)
  <2>1. IsSaver(proc[p]) /\ proc[p].pc = "asking"
    BY ByPlace DEF RubricAnswers, Saving
  <2>2. QED BY <2>1 DEF IsSaver
<1>2. q \in [pc: {"asking", "loaded"}, next: Record, id: AnchorId]
      /\ q.pc = "loaded" /\ q.next = proc[p].next /\ q.id = proc[p].id
  BY <1>1
<1>3. IsSaver(q)
  BY <1>1, <1>2 DEF IsSaver
<1>4. proc' = [proc EXCEPT ![p] = IF testable THEN q ELSE Idle]
  BY DEF RubricAnswers, Types
<1> HIDE DEF q
<1>5. CASE testable
  BY <1>2, <1>3, <1>4, <1>5
<1>6. CASE ~testable
  BY <1>4, <1>6
<1>7. QED BY <1>5, <1>6

LEMMA OpenTmpDoes ==
  ASSUME Types, NEW p \in Proc, OpenTmp(p)
  PROVE  \E q, i : /\ i = InodeToWrite /\ i \in Inode /\ (tmp = None => i # file)
                   /\ tmp' = i /\ data' = [data EXCEPT ![i] = Empty]
                   /\ proc' = [proc EXCEPT ![p] = q]
                   /\ IsSaver(q) /\ q.pc = "opened" /\ q.next = proc[p].next /\ q.handle = i
<1> DEFINE i == InodeToWrite
           q == [pc |-> "opened", next |-> proc[p].next, id |-> proc[p].id, handle |-> i]
<1>1. tmp' = i /\ data' = [data EXCEPT ![i] = Empty] /\ proc' = [proc EXCEPT ![p] = q]
  BY DEF OpenTmp, Types
<1>2. i \in Inode /\ (tmp = None => i # file)
  <2>1. CASE tmp = None
    BY <2>1, FreeInodeIsFree DEF OpenTmp, InodeToWrite
  <2>2. CASE tmp # None
    BY <2>2 DEF InodeToWrite, Types
  <2>3. QED BY <2>1, <2>2
<1> HIDE DEF i
<1>3. IsSaver(proc[p])
  BY ByPlace DEF OpenTmp, Saving
<1>4. proc[p].next \in Record /\ proc[p].id \in AnchorId /\ proc[p].id \in Ids(proc[p].next)
  BY <1>3, Places
<1>5. IsSaver(q) /\ q.pc = "opened" /\ q.next = proc[p].next /\ q.handle = i
  BY <1>2, <1>4 DEF IsSaver
<1> HIDE DEF q
<1>6. QED BY <1>1, <1>2, <1>5 DEF i

LEMMA WriteTmpDoes ==
  ASSUME Types, NEW p \in Proc, WriteTmp(p)
  PROVE  \E q, content :
           /\ IsSaver(proc[p]) /\ content \in {Whole(proc[p].next), Torn}
           /\ data[proc[p].handle] = Empty => content = Whole(proc[p].next)
           /\ data' = [data EXCEPT ![proc[p].handle] = content]
           /\ proc' = [proc EXCEPT ![p] = q]
           /\ IsSaver(q) /\ q.pc = "written" /\ q.next = proc[p].next
           /\ q.handle = proc[p].handle
<1> DEFINE q == [proc[p] EXCEPT !.pc = "written"]
<1>1. IsSaver(proc[p]) /\ proc[p].pc = "opened"
  BY ByPlace DEF WriteTmp, Saving
<1>2. proc[p] \in [pc: {"opened", "written"}, next: Record, id: AnchorId, handle: Inode]
      /\ proc[p].id \in Ids(proc[p].next)
  BY <1>1 DEF IsSaver
<1>3. /\ q \in [pc: {"opened", "written"}, next: Record, id: AnchorId, handle: Inode]
      /\ q.pc = "written" /\ q.next = proc[p].next /\ q.id = proc[p].id
      /\ q.handle = proc[p].handle
  BY <1>2
<1>4. IsSaver(q)
  BY <1>2, <1>3 DEF IsSaver
<1>5. proc' = [proc EXCEPT ![p] = q]
  BY DEF WriteTmp, Types
<1>6. PICK content \in {Whole(proc[p].next)} \cup
                       (IF data[proc[p].handle] = Empty THEN {} ELSE {Torn}) :
        data' = [data EXCEPT ![proc[p].handle] = content]
  BY DEF WriteTmp
<1> HIDE DEF q
<1>7. content \in {Whole(proc[p].next), Torn}
      /\ (data[proc[p].handle] = Empty => content = Whole(proc[p].next))
  BY <1>6
<1>8. QED BY <1>1, <1>3, <1>4, <1>5, <1>6, <1>7

LEMMA JudgeDoes ==
  ASSUME Types, NEW p \in Proc, NEW c \in Command, Judge(p, c)
  PROVE  \/ proc' = proc
         \/ \E q : /\ proc' = [proc EXCEPT ![p] = q]
                   /\ IsJudge(q) /\ q.pc = "judging" /\ q.seen = Loaded /\ Readable
<1> DEFINE q == [pc |-> "judging", cmd |-> c, seen |-> Loaded]
<1>1. SUFFICES ASSUME proc' # proc
      PROVE  proc' = [proc EXCEPT ![p] = q] /\ IsJudge(q) /\ q.seen = Loaded /\ Readable
  BY DEF Judge
<1>2. /\ proc' = [proc EXCEPT ![p] = q]
      /\ Readable /\ Selected(Loaded, c) \subseteq Ids(Loaded)
  BY <1>1 DEF Judge
<1>3. c \in JudgeCommand
  BY WorkspaceAssumption DEF Judge, RecordCommand
<1>4. Loaded \in Record
  BY LoadedRecord
<1>5. IsJudge(q)
  BY <1>2, <1>3, <1>4 DEF IsJudge
<1>6. QED BY <1>2, <1>5

LEMMA AssembleDoes ==
  ASSUME Types, NEW p \in Proc, Assemble(p)
  PROVE  \E q : /\ proc' = [proc EXCEPT ![p] = q]
                /\ IsNamed(q) /\ q.run.seen = proc[p].seen /\ q.run.at = now
<1> DEFINE c == proc[p].cmd
           rec == proc[p].seen
           ids == Selected(rec, c)
           taken == {r.n : r \in {q \in runs : q.item = c.item /\ q.at = now}}
           n == Min((1 .. Cardinality(taken) + 1) \ taken)
<1>1. PICK jev \in [ids -> Verdict] :
        proc' = [proc EXCEPT ![p] =
                  [pc  |-> "named",
                   run |-> [item |-> c.item, at |-> now, all |-> c.all, n |-> n,
                            dry |-> c.dry, torn |-> FALSE, seen |-> rec,
                            results |-> [id \in ids |-> Cell(rec, c, id, jev)]]]]
  BY DEF Assemble
<1> HIDE DEF n
<1>2. IsJudge(proc[p])
  BY ByPlace DEF Assemble
<1>3. c \in JudgeCommand /\ rec \in Record /\ ids \subseteq Ids(rec)
  BY <1>2 DEF IsJudge
<1> DEFINE results == [id \in ids |-> Cell(rec, c, id, jev)]
<1>4. DOMAIN results = ids /\ \A id \in ids :
        /\ results[id] \in Verdict \cup {"excluded", "deterministic_only", "none"}
        /\ results[id] = "excluded" => Excluded(rec, c.item, id)
        /\ results[id] = "deterministic_only" => Find(rec, id).structural
        /\ results[id] = "satisfied" => ~Find(rec, id).structural
        /\ results[id] = "none" => c.dry
  BY <1>1 DEF Verdict, Cell
<1>5. c.item \in Item /\ (c.all => ids = JudgedIds(rec))
  BY <1>3 DEF JudgeCommand, Selected, JudgedIds
<1> HIDE DEF results, ids
<1> DEFINE run == [item |-> c.item, at |-> now, all |-> c.all, n |-> n, dry |-> c.dry,
                   torn |-> FALSE, seen |-> rec, results |-> results]
<1>6. /\ run.item = c.item /\ run.at = now /\ run.results = results /\ run.seen = rec
      /\ run.all = c.all /\ run.dry = c.dry
      /\ DOMAIN run = {"item", "at", "all", "n", "dry", "torn", "seen", "results"}
  OBVIOUS
<1>7. proc' = [proc EXCEPT ![p] = [pc |-> "named", run |-> run]]
  BY <1>1 DEF results
<1> HIDE DEF run
<1>8. IsRun(run)
  BY <1>3, <1>4, <1>5, <1>6 DEF IsRun
<1> DEFINE q == [pc |-> "named", run |-> run]
<1>9. /\ proc' = [proc EXCEPT ![p] = q]
      /\ q.pc = "named" /\ q.run = run /\ DOMAIN q = {"pc", "run"}
  BY <1>7
<1> HIDE DEF q
<1>10. IsNamed(q) /\ q.run.seen = proc[p].seen /\ q.run.at = now
  BY <1>6, <1>8, <1>9 DEF IsNamed
<1>11. QED BY <1>9, <1>10

\* The draft of a run is the run, or a torn one.
LEMMA WriteRunDoes ==
  ASSUME Types, NEW p \in Proc, WriteRun(p)
  PROVE  /\ proc[p].pc = "named" /\ IsNamed(proc[p])
         /\ \E q : /\ proc' = [proc EXCEPT ![p] = q]
                   /\ IsNamed(q) /\ q.pc = "drafted" /\ q.run = proc[p].run
         /\ \E d : /\ drafts' \subseteq drafts \cup {d}
                   /\ IsRun(d) /\ d.seen = proc[p].run.seen /\ d.at = proc[p].run.at
<1> DEFINE run == proc[p].run
           q == [proc[p] EXCEPT !.pc = "drafted"]
<1>1. proc[p].pc = "named" /\ IsNamed(proc[p]) /\ IsRun(run)
  BY ByPlace DEF WriteRun, IsNamed
<1>2. PICK torn \in BOOLEAN :
        drafts' \subseteq drafts \cup {[run EXCEPT !.torn = torn]}
  BY DEF WriteRun
<1> DEFINE d == [run EXCEPT !.torn = torn]
<1>3. IsRun(d) /\ d.seen = run.seen /\ d.at = run.at
  <2> HIDE DEF run
  <2>1. /\ DOMAIN d = DOMAIN run
        /\ d.item = run.item /\ d.seen = run.seen /\ d.results = run.results
        /\ d.all = run.all /\ d.dry = run.dry /\ d.at = run.at
    BY <1>1 DEF IsRun
  <2> HIDE DEF d
  <2>2. QED BY <1>1, <2>1 DEF IsRun
<1>4. proc' = [proc EXCEPT ![p] = q]
  BY DEF WriteRun, Types
<1>5. IsNamed(q) /\ q.pc = "drafted" /\ q.run = run
  <2>1. DOMAIN proc[p] = {"pc", "run"}
    BY <1>1 DEF IsNamed
  <2> DEFINE r == proc[p]
  <2>2. q.pc = "drafted" /\ q.run = r.run /\ DOMAIN q = {"pc", "run"}
    BY <2>1
  <2> HIDE DEF q
  <2>3. IsRun(q.run)
    BY <1>1, <2>2
  <2>4. QED BY <2>2, <2>3 DEF IsNamed
<1> HIDE DEF d, q
<1>6. QED BY <1>1, <1>2, <1>3, <1>4, <1>5 DEF d

\* What a rename puts in place is a draft.
LEMMA SaveRunDoes ==
  ASSUME NEW p \in Proc, SaveRun(p)
  PROVE  /\ proc[p].pc = "drafted" /\ proc' = [proc EXCEPT ![p] = Idle]
         /\ runs' \cup drafts' \subseteq runs \cup drafts
  BY DEF SaveRun

-----------------------------------------------------------------------------
(* Types and dates                                                         *)

LEMMA ReplaceTypes ==
  ASSUME Types, NEW p \in Proc, ReplaceFile(p)
  PROVE  Types'
<1>1. proc' = [proc EXCEPT ![p] = Idle]
  BY DEF ReplaceFile
<1>2. /\ DOMAIN proc' = Proc
      /\ \A o \in Proc : proc'[o] = Idle \/ IsSaver(proc'[o]) \/ IsJudge(proc'[o])
                         \/ IsNamed(proc'[o])
  BY <1>1, MovedTypes
<1>3. file' \in Inode \cup {None} /\ tmp' \in Inode \cup {None}
  BY DEF ReplaceFile, Types
<1>4. \A a \in acked' : a.version \in Nat
  <2> DEFINE b == Find(proc[p].next, proc[p].id)
  <2>1. IsSaver(proc[p])
    BY ByPlace DEF ReplaceFile, Saving
  <2>2. b \in Anchor
    BY <2>1, Places, AtPosition
  <2>3. b.version \in Nat
    BY <2>2 DEF Anchor
  <2>4. acked' = acked \/ acked' = acked \cup {[id |-> b.id, version |-> b.version,
                                                statement |-> b.statement,
                                                status |-> b.status]}
    BY DEF ReplaceFile
  <2> HIDE DEF b
  <2>5. \A a \in acked : a.version \in Nat
    BY DEF Types
  <2>6. QED BY <2>3, <2>4, <2>5
<1>5. data' = data /\ UNCHANGED <<runs, drafts>> /\ now' = now /\ issued' = issued /\ overlapped' = overlapped
  BY DEF ReplaceFile
<1>6. QED BY <1>2, <1>3, <1>4, <1>5 DEF Types

LEMMA TypesPreserved ==
  ASSUME Types, [Next]_vars
  PROVE  Types'
<1>1. ASSUME NEW p \in Proc, NEW c \in Command, Run(p, c) PROVE Types'
  <2>1. issued' \in 0 .. MaxCommands
    BY <1>1, WorkspaceAssumption DEF Run, Types
  <2>2. /\ file' = file /\ tmp' = tmp /\ data' = data /\ UNCHANGED <<runs, drafts>> /\ now' = now
        /\ acked' = acked
    BY <1>1 DEF Run, files
  <2>3. CASE proc' = proc /\ overlapped' = overlapped
    BY <2>1, <2>2, <2>3 DEF Types
  <2>4. CASE \E q : /\ proc' = [proc EXCEPT ![p] = q] /\ IsSaver(q)
                    /\ overlapped' = (overlapped \/ \E o \in Proc : proc[o].pc \in Saving)
    <3>1. /\ DOMAIN proc' = Proc
          /\ \A o \in Proc : proc'[o] = Idle \/ IsSaver(proc'[o]) \/ IsJudge(proc'[o])
                             \/ IsNamed(proc'[o])
      BY <1>1, <2>4, MovedTypes
    <3>2. overlapped' \in BOOLEAN
      BY <2>4
    <3>3. QED BY <2>1, <2>2, <3>1, <3>2 DEF Types
  <2>5. QED BY <1>1, <2>3, <2>4, RunDoes
<1>2. ASSUME NEW p \in Proc, NEW testable \in BOOLEAN, RubricAnswers(p, testable) PROVE Types'
  <2>1. /\ DOMAIN proc' = Proc
        /\ \A o \in Proc : proc'[o] = Idle \/ IsSaver(proc'[o]) \/ IsJudge(proc'[o])
                           \/ IsNamed(proc'[o])
    BY <1>2, RubricAnswersDoes, MovedTypes
  <2>2. QED BY <1>2, <2>1 DEF Types, RubricAnswers, files, history
<1>3. ASSUME NEW p \in Proc, OpenTmp(p) PROVE Types'
  <2>1. PICK q, i : /\ i \in Inode /\ tmp' = i /\ data' = [data EXCEPT ![i] = Empty]
                    /\ proc' = [proc EXCEPT ![p] = q] /\ IsSaver(q)
    BY <1>3, OpenTmpDoes
  <2>2. /\ DOMAIN proc' = Proc
        /\ \A o \in Proc : proc'[o] = Idle \/ IsSaver(proc'[o]) \/ IsJudge(proc'[o])
                           \/ IsNamed(proc'[o])
    BY <1>3, <2>1, MovedTypes
  <2>3. data' \in [Inode -> Content]
    BY <2>1 DEF Types, Content
  <2>4. QED BY <1>3, <2>1, <2>2, <2>3 DEF Types, OpenTmp, history
<1>4. ASSUME NEW p \in Proc, WriteTmp(p) PROVE Types'
  <2>1. PICK q, content :
          /\ IsSaver(proc[p]) /\ content \in {Whole(proc[p].next), Torn}
          /\ data' = [data EXCEPT ![proc[p].handle] = content]
          /\ proc' = [proc EXCEPT ![p] = q] /\ IsSaver(q)
    BY <1>4, WriteTmpDoes
  <2>2. /\ DOMAIN proc' = Proc
        /\ \A o \in Proc : proc'[o] = Idle \/ IsSaver(proc'[o]) \/ IsJudge(proc'[o])
                           \/ IsNamed(proc'[o])
    BY <1>4, <2>1, MovedTypes
  <2>3. content \in Content
    BY <2>1, Places DEF Content
  <2>4. data' \in [Inode -> Content]
    BY <2>1, <2>3 DEF Types
  <2>5. QED BY <1>4, <2>2, <2>4 DEF Types, WriteTmp, history
<1>5. ASSUME NEW p \in Proc, ReplaceFile(p) PROVE Types'
  BY <1>5, ReplaceTypes
<1>6. ASSUME NEW p \in Proc, Crash(p) PROVE Types'
  <2>1. /\ DOMAIN proc' = Proc
        /\ \A o \in Proc : proc'[o] = Idle \/ IsSaver(proc'[o]) \/ IsJudge(proc'[o])
                           \/ IsNamed(proc'[o])
    BY <1>6, MovedTypes DEF Crash
  <2>2. QED BY <1>6, <2>1 DEF Types, Crash, files, history
<1>7. ASSUME NEW p \in Proc, NEW c \in Command, Judge(p, c) PROVE Types'
  <2>1. issued' \in 0 .. MaxCommands
    BY <1>7, WorkspaceAssumption DEF Judge, Types
  <2>2. /\ file' = file /\ tmp' = tmp /\ data' = data /\ UNCHANGED <<runs, drafts>> /\ now' = now
        /\ acked' = acked /\ overlapped' = overlapped
    BY <1>7 DEF Judge, files
  <2>3. /\ DOMAIN proc' = Proc
        /\ \A o \in Proc : proc'[o] = Idle \/ IsSaver(proc'[o]) \/ IsJudge(proc'[o])
                           \/ IsNamed(proc'[o])
    <3>1. CASE proc' = proc
      BY <3>1 DEF Types
    <3>2. CASE proc' # proc
      BY <1>7, <3>2, JudgeDoes, MovedTypes
    <3>3. QED BY <3>1, <3>2
  <2>4. QED BY <2>1, <2>2, <2>3 DEF Types
<1>8. ASSUME NEW p \in Proc, Assemble(p) PROVE Types'
  <2>1. /\ DOMAIN proc' = Proc
        /\ \A o \in Proc : proc'[o] = Idle \/ IsSaver(proc'[o]) \/ IsJudge(proc'[o])
                           \/ IsNamed(proc'[o])
    BY <1>8, AssembleDoes, MovedTypes
  <2>2. QED BY <1>8, <2>1 DEF Types, Assemble, files, history
<1>9. ASSUME NEW p \in Proc, SaveRun(p) PROVE Types'
  <2>1. /\ DOMAIN proc' = Proc
        /\ \A o \in Proc : proc'[o] = Idle \/ IsSaver(proc'[o]) \/ IsJudge(proc'[o])
                           \/ IsNamed(proc'[o])
    BY <1>9, SaveRunDoes, MovedTypes
  <2>2. \A r \in runs' \cup drafts' : IsRun(r)
    BY <1>9, SaveRunDoes DEF Types
  <2>3. QED BY <1>9, <2>1, <2>2 DEF Types, SaveRun, files, history
<1>10. ASSUME NEW p \in Proc, WriteRun(p) PROVE Types'
  <2>1. /\ DOMAIN proc' = Proc
        /\ \A o \in Proc : proc'[o] = Idle \/ IsSaver(proc'[o]) \/ IsJudge(proc'[o])
                           \/ IsNamed(proc'[o])
    BY <1>10, WriteRunDoes, MovedTypes
  <2>2. runs' = runs
    BY <1>10 DEF WriteRun
  <2>3. \A r \in runs' \cup drafts' : IsRun(r)
    BY <1>10, <2>2, WriteRunDoes DEF Types
  <2>4. QED BY <1>10, <2>1, <2>3 DEF Types, WriteRun, files, history
<1>11. CASE Tick
  BY <1>11, WorkspaceAssumption DEF Types, Tick, files, history
<1>12. CASE UNCHANGED vars
  BY <1>12 DEF Types, vars
<1>13. QED BY <1>1, <1>2, <1>3, <1>4, <1>5, <1>6, <1>7, <1>8, <1>9, <1>10, <1>11, <1>12
  DEF Next

LEMMA DatedPreserved ==
  ASSUME Types, Dated, [Next]_vars
  PROVE  Dated'
<1>0. now \in Nat
  BY DEF Types
<1>1. ASSUME NEW p \in Proc, NEW q, proc' = [proc EXCEPT ![p] = q], q.pc \notin {"named", "drafted"},
             UNCHANGED <<runs, drafts>>, now' = now
      PROVE  Dated'
  <2>1. proc'[p] = q /\ \A o \in Proc : o # p => proc'[o] = proc[o]
    BY <1>1, OneMoves
  <2>2. QED BY <1>1, <2>1 DEF Dated
<1>2. ASSUME proc' = proc, UNCHANGED <<runs, drafts>>, now' = now PROVE Dated'
  BY <1>2 DEF Dated
<1>3. ASSUME NEW p \in Proc, NEW c \in Command, Run(p, c) PROVE Dated'
  <2>1. UNCHANGED <<runs, drafts>> /\ now' = now
    BY <1>3 DEF Run
  <2>2. QED BY <1>1, <1>2, <1>3, <2>1, RunDoes
<1>4. ASSUME NEW p \in Proc, NEW testable \in BOOLEAN, RubricAnswers(p, testable) PROVE Dated'
  <2>1. UNCHANGED <<runs, drafts>> /\ now' = now
    BY <1>4 DEF RubricAnswers
  <2>2. QED BY <1>1, <1>4, <2>1, RubricAnswersDoes DEF Idle
<1>5. ASSUME NEW p \in Proc, OpenTmp(p) PROVE Dated'
  <2>1. UNCHANGED <<runs, drafts>> /\ now' = now
    BY <1>5 DEF OpenTmp
  <2>2. QED BY <1>1, <1>5, <2>1, OpenTmpDoes
<1>6. ASSUME NEW p \in Proc, WriteTmp(p) PROVE Dated'
  <2>1. UNCHANGED <<runs, drafts>> /\ now' = now
    BY <1>6 DEF WriteTmp
  <2>2. QED BY <1>1, <1>6, <2>1, WriteTmpDoes
<1>7. ASSUME NEW p \in Proc, ReplaceFile(p) \/ Crash(p) PROVE Dated'
  <2>1. UNCHANGED <<runs, drafts>> /\ now' = now /\ proc' = [proc EXCEPT ![p] = Idle]
    BY <1>7 DEF ReplaceFile, Crash
  <2>2. Idle.pc \notin {"named", "drafted"}
    BY DEF Idle
  <2>3. QED BY <1>1, <2>1, <2>2
<1>8. ASSUME NEW p \in Proc, NEW c \in Command, Judge(p, c) PROVE Dated'
  <2>1. UNCHANGED <<runs, drafts>> /\ now' = now
    BY <1>8 DEF Judge
  <2>2. QED BY <1>1, <1>2, <1>8, <2>1, JudgeDoes
<1>9. ASSUME NEW p \in Proc, Assemble(p) PROVE Dated'
  <2>1. UNCHANGED <<runs, drafts>> /\ now' = now
    BY <1>9 DEF Assemble
  <2>2. PICK q : proc' = [proc EXCEPT ![p] = q] /\ q.run.at = now
    BY <1>9, AssembleDoes
  <2>3. proc'[p] = q /\ \A o \in Proc : o # p => proc'[o] = proc[o]
    BY <1>9, <2>2, OneMoves
  <2>4. QED BY <1>0, <2>1, <2>2, <2>3 DEF Dated
<1>10. ASSUME NEW p \in Proc, SaveRun(p) PROVE Dated'
  <2>1. /\ proc'[p] = Idle /\ now' = now /\ (\A o \in Proc : o # p => proc'[o] = proc[o])
        /\ runs' \cup drafts' \subseteq runs \cup drafts
    BY <1>10, OneMoves, SaveRunDoes DEF SaveRun
  <2>2. QED BY <2>1 DEF Dated, Idle
<1>11. ASSUME NEW p \in Proc, WriteRun(p) PROVE Dated'
  <2>1. runs' = runs /\ now' = now
    BY <1>11 DEF WriteRun
  <2>2. PICK q : proc' = [proc EXCEPT ![p] = q] /\ q.pc = "drafted" /\ q.run = proc[p].run
    BY <1>11, WriteRunDoes
  <2>3. proc'[p] = q /\ \A o \in Proc : o # p => proc'[o] = proc[o]
    BY <1>11, <2>2, OneMoves
  <2>4. PICK d : drafts' \subseteq drafts \cup {d} /\ d.at = proc[p].run.at
    BY <1>11, WriteRunDoes
  <2>5. proc[p].run.at \in 0 .. now
    BY <1>11, WriteRunDoes DEF Dated
  <2>6. QED BY <2>1, <2>2, <2>3, <2>4, <2>5 DEF Dated
<1>12. CASE Tick
  <2>1. /\ now' = now + 1 /\ UNCHANGED <<runs, drafts>> /\ proc' = proc
    BY <1>12 DEF Tick
  <2>2. QED BY <1>0, <2>1 DEF Dated
<1>13. CASE UNCHANGED vars
  BY <1>2, <1>13 DEF vars
<1>14. QED
  BY <1>3, <1>4, <1>5, <1>6, <1>7, <1>8, <1>9, <1>10, <1>11, <1>12, <1>13 DEF Next

-----------------------------------------------------------------------------
(* One saver at a time                                                     *)

\* A step after which the process is at none of the saver's places, or is at an
\* earlier one with the same record, and the files are as they were.
LEMMA FilesKept ==
  ASSUME Types, OneSaver, NEW p \in Proc, NEW q, proc' = [proc EXCEPT ![p] = q],
         UNCHANGED <<file, tmp, data, acked>>,
         q.pc \in Saving => /\ q.pc \in {"asking", "loaded"}
                            /\ Grown(Loaded, q.next)
                            /\ \A o \in Proc : proc[o].pc \in Saving => o = p,
         q.pc = "judging" => Past(q.seen),
         q.pc \in {"named", "drafted"} => Past(q.run.seen),
         \A r \in runs' \cup drafts' : r \in runs \cup drafts \/ Past(r.seen)
  PROVE  OneSaver'
<1>1. proc'[p] = q /\ \A o \in Proc : o # p => proc'[o] = proc[o]
  BY OneMoves
<1>2. Loaded' = Loaded
  BY DEF Loaded
<1>3. Alone'
  BY <1>1 DEF Alone, OneSaver
<1>4. InPlace'
  BY DEF InPlace, OneSaver
<1>5. InHand'
  <2>1. q.pc \notin {"opened", "written"}
    BY DEF Saving
  <2>2. QED BY <1>1, <2>1 DEF InHand, OneSaver
<1>6. Derived'
  BY <1>1, <1>2 DEF Derived, OneSaver
<1>7. Kept'
  BY <1>2 DEF Kept, OneSaver
<1>8. \A rec : Past(rec)' <=> Past(rec)
  BY <1>2 DEF Past
<1>9. Seen'
  BY <1>1, <1>8 DEF Seen, OneSaver
<1>10. QED BY <1>3, <1>4, <1>5, <1>6, <1>7, <1>9 DEF OneSaver

LEMMA SerialOpen ==
  ASSUME Types, OneSaver, NEW p \in Proc, OpenTmp(p)
  PROVE  OneSaver'
<1>1. PICK q, i : /\ i = InodeToWrite /\ i \in Inode /\ (tmp = None => i # file)
                  /\ tmp' = i /\ data' = [data EXCEPT ![i] = Empty]
                  /\ proc' = [proc EXCEPT ![p] = q]
                  /\ IsSaver(q) /\ q.pc = "opened" /\ q.next = proc[p].next /\ q.handle = i
  BY OpenTmpDoes
<1>2. /\ proc'[p] = q /\ \A o \in Proc : o # p => proc'[o] = proc[o]
      /\ proc[p].pc \in Saving /\ file' = file /\ UNCHANGED <<runs, drafts>> /\ acked' = acked
  <2>1. proc'[p] = q /\ \A o \in Proc : o # p => proc'[o] = proc[o]
    BY <1>1, OneMoves
  <2>2. QED BY <2>1 DEF OpenTmp, Saving, history
<1>3. \A o \in Proc : proc'[o].pc \in Saving => o = p
  BY <1>2 DEF OneSaver, Alone
<1>4. i # file
  <2>1. CASE tmp # None /\ file # None
    BY <1>1, <2>1 DEF InodeToWrite, OneSaver, InPlace
  <2>2. CASE file = None
    BY <1>1, <2>2, InodeFacts
  <2>3. QED BY <1>1, <2>1, <2>2
<1>5. data'[i] = Empty /\ \A k : k \in Inode /\ k # i => data'[k] = data[k]
  BY <1>1 DEF Types
<1>6. file # None => data'[file] = data[file]
  BY <1>4, <1>5 DEF Types
<1>7. Loaded' = Loaded
  BY <1>2, <1>6 DEF Loaded
<1>8. Alone'
  BY <1>3 DEF Alone
<1>9. InPlace'
  BY <1>1, <1>2, <1>4, <1>6 DEF InPlace, OneSaver
<1>10. InHand'
  <2>1. \A o \in Proc : o # p => proc'[o].pc \notin {"opened", "written"}
    BY <1>3 DEF Saving
  <2>2. QED BY <1>1, <1>2, <1>5, <2>1 DEF InHand
<1>11. Derived'
  BY <1>1, <1>2, <1>3, <1>7 DEF Derived, OneSaver
<1>12. Kept'
  BY <1>2, <1>7 DEF Kept, OneSaver
<1>13. \A rec : Past(rec)' <=> Past(rec)
  BY <1>2, <1>7 DEF Past
<1>14. Seen'
  BY <1>1, <1>2, <1>13 DEF Seen, OneSaver
<1>15. QED BY <1>8, <1>9, <1>10, <1>11, <1>12, <1>14 DEF OneSaver

LEMMA SerialWrite ==
  ASSUME Types, OneSaver, NEW p \in Proc, WriteTmp(p)
  PROVE  OneSaver'
<1>1. PICK q, content :
        /\ IsSaver(proc[p]) /\ content \in {Whole(proc[p].next), Torn}
        /\ data[proc[p].handle] = Empty => content = Whole(proc[p].next)
        /\ data' = [data EXCEPT ![proc[p].handle] = content]
        /\ proc' = [proc EXCEPT ![p] = q]
        /\ IsSaver(q) /\ q.pc = "written" /\ q.next = proc[p].next
        /\ q.handle = proc[p].handle
  BY WriteTmpDoes
<1> DEFINE i == proc[p].handle
<1>2. /\ proc'[p] = q /\ \A o \in Proc : o # p => proc'[o] = proc[o]
      /\ proc[p].pc = "opened" /\ proc[p].pc \in Saving
      /\ file' = file /\ tmp' = tmp /\ UNCHANGED <<runs, drafts>> /\ acked' = acked
  <2>1. proc'[p] = q /\ \A o \in Proc : o # p => proc'[o] = proc[o]
    BY <1>1, OneMoves
  <2>2. QED BY <2>1 DEF WriteTmp, Saving, history
<1>3. \A o \in Proc : proc'[o].pc \in Saving => o = p
  BY <1>2 DEF OneSaver, Alone
<1>4. i = tmp /\ content = Whole(proc[p].next) /\ i \in Inode
  BY <1>1, <1>2, Places DEF OneSaver, InHand
<1>5. file # None => i # file
  BY <1>4 DEF OneSaver, InPlace
<1>6. data'[i] = content /\ \A k : k \in Inode /\ k # i => data'[k] = data[k]
  BY <1>1, <1>4 DEF Types
<1> HIDE DEF i
<1>7. file # None => data'[file] = data[file]
  BY <1>5, <1>6 DEF Types
<1>8. Loaded' = Loaded
  BY <1>2, <1>7 DEF Loaded
<1>9. Alone'
  BY <1>3 DEF Alone
<1>10. InPlace'
  BY <1>2, <1>7 DEF InPlace, OneSaver
<1>11. InHand'
  <2>1. \A o \in Proc : o # p => proc'[o].pc \notin {"opened", "written"}
    BY <1>3 DEF Saving
  <2>2. tmp' = q.handle /\ data'[q.handle] = Whole(q.next)
    BY <1>1, <1>2, <1>4, <1>6 DEF i
  <2>3. QED BY <1>1, <1>2, <2>1, <2>2 DEF InHand
<1>12. Derived'
  BY <1>1, <1>2, <1>3, <1>8 DEF Derived, OneSaver
<1>13. Kept'
  BY <1>2, <1>8 DEF Kept, OneSaver
<1>14. \A rec : Past(rec)' <=> Past(rec)
  BY <1>2, <1>8 DEF Past
<1>15. Seen'
  BY <1>1, <1>2, <1>14 DEF Seen, OneSaver
<1>16. QED BY <1>9, <1>10, <1>11, <1>12, <1>13, <1>15 DEF OneSaver

\* The rename puts the record in hand in place of the one it is grown from.
LEMMA SerialReplace ==
  ASSUME Types, OneSaver, NEW p \in Proc, ReplaceFile(p)
  PROVE  OneSaver'
<1> DEFINE new == proc[p].next
           b == Find(new, proc[p].id)
           ack == [id |-> b.id, version |-> b.version, statement |-> b.statement,
                   status |-> b.status]
<1>1. /\ proc[p].pc = "written" /\ proc[p].pc \in Saving /\ IsSaver(proc[p])
  BY ByPlace DEF ReplaceFile, Saving
<1>2. /\ new \in Record /\ proc[p].id \in Ids(new)
      /\ tmp = proc[p].handle /\ tmp \in Inode /\ tmp # None /\ data[tmp] = Whole(new)
  BY <1>1, Places, InodeFacts DEF OneSaver, InHand
<1>3. /\ file' = tmp /\ tmp' = None /\ data' = data /\ UNCHANGED <<runs, drafts>>
      /\ acked' = acked \cup {ack} /\ proc' = [proc EXCEPT ![p] = Idle]
  BY <1>2 DEF ReplaceFile
<1>4. proc'[p] = Idle /\ \A o \in Proc : o # p => proc'[o] = proc[o]
  BY <1>3, OneMoves
<1>5. \A o \in Proc : proc'[o].pc \notin Saving
  BY <1>1, <1>4 DEF OneSaver, Alone, Idle, Saving
<1>6. Loaded' = new /\ file' # None
  BY <1>2, <1>3 DEF Loaded, Whole
<1>7. Loaded \in Record /\ Grown(Loaded, new)
  BY <1>1, LoadedRecord DEF OneSaver, Derived
<1>8. Alone' /\ Derived'
  BY <1>5 DEF Alone, Derived
<1>9. InPlace'
  BY <1>2, <1>3 DEF InPlace, Whole
<1>10. InHand'
  BY <1>5 DEF InHand, Saving
<1> HIDE DEF new
<1>11. Kept'
  <2>1. ASSUME NEW a \in acked PROVE \E i \in DOMAIN new : Later(a, new[i])
    <3>1. PICK i \in DOMAIN Loaded : Later(a, Loaded[i])
      BY <2>1 DEF OneSaver, Kept
    <3>2. i \in DOMAIN new /\ Later(Loaded[i], new[i])
      BY <1>7, <3>1 DEF Grown
    <3>3. Loaded[i] \in Anchor /\ new[i] \in Anchor
      BY <1>2, <1>7, <3>1, <3>2 DEF Record
    <3>4. a.version \in Nat
      BY <2>1 DEF Types
    <3>5. Later(a, new[i])
      BY <3>1, <3>2, <3>3, <3>4, LaterIsTransitive
    <3>6. QED BY <3>2, <3>5
  <2>2. \E i \in DOMAIN new : Later(ack, new[i])
    <3> DEFINE i == Position(new, proc[p].id)
    <3>1. i \in DOMAIN new /\ b = new[i] /\ b \in Anchor
      BY <1>2, AtPosition
    <3> HIDE DEF i, b
    <3>2. Later(b, b)
      BY <3>1, LaterIsReflexive
    <3>3. Later(ack, b)
      BY <3>2 DEF Later
    <3>4. QED BY <3>1, <3>3
  <2> HIDE DEF ack
  <2>3. \A a \in acked' : \E i \in DOMAIN new : Later(a, new[i])
    BY <1>3, <2>1, <2>2
  <2>4. QED BY <1>6, <2>3 DEF Kept
<1>12. ASSUME NEW rec \in Record, Past(rec) PROVE Grown(rec, new)
  BY <1>2, <1>7, <1>12, GrownIsTransitive DEF Past
<1>13. Seen'
  <2>1. ASSUME NEW r \in runs \cup drafts PROVE Grown(r.seen, new)
    <3>1. r.seen \in Record /\ Past(r.seen)
      BY <2>1 DEF Types, IsRun, OneSaver, Seen
    <3>2. QED BY <1>12, <3>1
  <2>2. ASSUME NEW o \in Proc, proc'[o].pc = "judging" PROVE Grown(proc'[o].seen, new)
    <3>1. o # p
      BY <1>4, <2>2 DEF Idle
    <3>2. proc'[o] = proc[o] /\ Past(proc[o].seen)
      BY <1>4, <2>2, <3>1 DEF OneSaver, Seen
    <3>3. proc[o].seen \in Record
      BY <2>2, <3>2, ByPlace, Places
    <3>4. Grown(proc[o].seen, new)
      BY <1>12, <3>2, <3>3
    <3>5. QED BY <3>2, <3>4
  <2>3. ASSUME NEW o \in Proc, proc'[o].pc \in {"named", "drafted"} PROVE Grown(proc'[o].run.seen, new)
    <3>1. o # p
      BY <1>4, <2>3 DEF Idle
    <3>2. proc'[o] = proc[o] /\ Past(proc[o].run.seen)
      BY <1>4, <2>3, <3>1 DEF OneSaver, Seen
    <3>3. proc[o].run.seen \in Record
      BY <2>3, <3>2, ByPlace DEF IsNamed, IsRun
    <3>4. Grown(proc[o].run.seen, new)
      BY <1>12, <3>2, <3>3
    <3>5. QED BY <3>2, <3>4
  <2>4. UNCHANGED <<runs, drafts>>
    BY <1>3
  <2>5. QED BY <1>6, <2>1, <2>2, <2>3, <2>4 DEF Seen, Past
<1>14. QED BY <1>8, <1>9, <1>10, <1>11, <1>13 DEF OneSaver

LEMMA FilesUntouched ==
  ASSUME Serial, UNCHANGED <<file, tmp, data, proc, acked, runs, drafts, overlapped>>
  PROVE  Serial'
<1>1. Loaded' = Loaded
  BY DEF Loaded
<1>2. \A rec : Past(rec)' <=> Past(rec)
  BY <1>1 DEF Past
<1>3. Alone <=> Alone'
  BY DEF Alone
<1>4. InPlace <=> InPlace'
  BY DEF InPlace
<1>5. InHand <=> InHand'
  BY DEF InHand
<1>6. Derived <=> Derived'
  BY <1>1 DEF Derived
<1>7. Kept <=> Kept'
  BY <1>1 DEF Kept
<1>8. Seen <=> Seen'
  BY <1>2 DEF Seen
<1>9. QED BY <1>3, <1>4, <1>5, <1>6, <1>7, <1>8 DEF Serial, OneSaver

LEMMA SerialPreserved ==
  ASSUME Types, Serial, [Next]_vars
  PROVE  Serial'
<1>1. ASSUME NEW p \in Proc, NEW c \in Command, Run(p, c) PROVE Serial'
  <2>1. UNCHANGED <<file, tmp, data, acked, runs, drafts>>
    BY <1>1 DEF Run, files
  <2>2. CASE proc' = proc /\ overlapped' = overlapped
    BY <2>1, <2>2, FilesUntouched
  <2>3. ASSUME NEW q, proc' = [proc EXCEPT ![p] = q], q.pc \in {"asking", "loaded"},
               overlapped' = (overlapped \/ \E o \in Proc : proc[o].pc \in Saving),
               Grown(Loaded, q.next)
        PROVE  Serial'
    <3>1. SUFFICES ASSUME ~overlapped' PROVE OneSaver'
      BY DEF Serial
    <3>2. OneSaver /\ \A o \in Proc : proc[o].pc \notin Saving
      BY <2>3, <3>1 DEF Serial
    <3>3. QED BY <2>1, <2>3, <3>2, FilesKept
  <2>4. QED BY <1>1, <2>2, <2>3, RunDoes
<1>2. ASSUME NEW p \in Proc, NEW testable \in BOOLEAN, RubricAnswers(p, testable) PROVE Serial'
  <2>1. UNCHANGED <<file, tmp, data, acked, runs, drafts, overlapped>> /\ proc[p].pc = "asking"
    BY <1>2 DEF RubricAnswers, files, history
  <2>2. PICK q : /\ proc' = [proc EXCEPT ![p] = q]
                 /\ \/ q = Idle
                    \/ IsSaver(q) /\ q.pc = "loaded" /\ q.next = proc[p].next
    BY <1>2, RubricAnswersDoes
  <2>3. SUFFICES ASSUME OneSaver PROVE OneSaver'
    BY <2>1 DEF Serial
  <2>4. q.pc \in {"idle", "loaded"}
    BY <2>2 DEF Idle
  <2>5. q.pc \in Saving => /\ Grown(Loaded, q.next)
                           /\ \A o \in Proc : proc[o].pc \in Saving => o = p
    BY <2>1, <2>2, <2>3 DEF OneSaver, Derived, Alone, Saving, Idle
  <2>6. q.pc \in Saving => q.pc \in {"asking", "loaded"}
    BY <2>4 DEF Saving
  <2>7. QED BY <2>1, <2>2, <2>3, <2>4, <2>5, <2>6, FilesKept
<1>3. ASSUME NEW p \in Proc, OpenTmp(p) PROVE Serial'
  BY <1>3, SerialOpen DEF Serial, OpenTmp, history
<1>4. ASSUME NEW p \in Proc, WriteTmp(p) PROVE Serial'
  BY <1>4, SerialWrite DEF Serial, WriteTmp, history
<1>5. ASSUME NEW p \in Proc, ReplaceFile(p) PROVE Serial'
  BY <1>5, SerialReplace DEF Serial, ReplaceFile
<1>6. ASSUME NEW p \in Proc, Crash(p) PROVE Serial'
  <2>1. /\ UNCHANGED <<file, tmp, data, acked, runs, drafts, overlapped>>
        /\ proc' = [proc EXCEPT ![p] = Idle]
    BY <1>6 DEF Crash, files, history
  <2>2. Idle.pc \notin Saving \cup {"judging", "named", "drafted"}
    BY DEF Idle, Saving
  <2>3. SUFFICES ASSUME OneSaver PROVE OneSaver'
    BY <2>1 DEF Serial
  <2>4. QED BY <2>1, <2>2, <2>3, FilesKept
<1>7. ASSUME NEW p \in Proc, NEW c \in Command, Judge(p, c) PROVE Serial'
  <2>1. UNCHANGED <<file, tmp, data, acked, runs, drafts, overlapped>>
    BY <1>7 DEF Judge, files
  <2>2. CASE proc' = proc
    BY <2>1, <2>2, FilesUntouched
  <2>3. ASSUME NEW q, proc' = [proc EXCEPT ![p] = q], q.pc = "judging", q.seen = Loaded, Readable
        PROVE  Serial'
    <3>1. SUFFICES ASSUME OneSaver PROVE OneSaver'
      BY <2>1 DEF Serial
    <3>2. Past(q.seen)
      BY <2>3, LoadedRecord, GrownIsReflexive DEF Past, Readable
    <3>3. q.pc \notin Saving /\ q.pc \notin {"named", "drafted"}
      BY <2>3 DEF Saving
    <3>4. QED BY <2>1, <2>3, <3>1, <3>2, <3>3, FilesKept
  <2>4. QED BY <1>7, <2>2, <2>3, JudgeDoes
<1>8. ASSUME NEW p \in Proc, Assemble(p) PROVE Serial'
  <2>1. UNCHANGED <<file, tmp, data, acked, runs, drafts, overlapped>> /\ proc[p].pc = "judging"
    BY <1>8 DEF Assemble, files, history
  <2>2. PICK q : proc' = [proc EXCEPT ![p] = q] /\ IsNamed(q) /\ q.run.seen = proc[p].seen
    BY <1>8, AssembleDoes
  <2>3. SUFFICES ASSUME OneSaver PROVE OneSaver'
    BY <2>1 DEF Serial
  <2>4. Past(q.run.seen)
    BY <2>1, <2>2, <2>3 DEF OneSaver, Seen
  <2>5. q.pc \notin Saving /\ q.pc # "judging"
    BY <2>2 DEF Saving, IsNamed
  <2>6. QED BY <2>1, <2>2, <2>3, <2>4, <2>5, FilesKept
<1>9. ASSUME NEW p \in Proc, SaveRun(p) PROVE Serial'
  <2>1. /\ UNCHANGED <<file, tmp, data, acked, overlapped>>
        /\ proc' = [proc EXCEPT ![p] = Idle] /\ runs' \cup drafts' \subseteq runs \cup drafts
    BY <1>9, SaveRunDoes DEF SaveRun, files, history
  <2>2. Idle.pc \notin Saving \cup {"judging", "named", "drafted"}
    BY DEF Idle, Saving
  <2>3. SUFFICES ASSUME OneSaver PROVE OneSaver'
    BY <2>1 DEF Serial
  <2>4. QED BY <2>1, <2>2, <2>3, FilesKept
<1>10. ASSUME NEW p \in Proc, WriteRun(p) PROVE Serial'
  <2>1. UNCHANGED <<file, tmp, data, acked, runs, overlapped>>
    BY <1>10 DEF WriteRun, files, history
  <2>2. SUFFICES ASSUME OneSaver PROVE OneSaver'
    BY <2>1 DEF Serial
  <2>3. Past(proc[p].run.seen)
    BY <1>10, <2>2, WriteRunDoes DEF OneSaver, Seen
  <2>4. PICK q : proc' = [proc EXCEPT ![p] = q] /\ q.pc = "drafted" /\ q.run = proc[p].run
    BY <1>10, WriteRunDoes
  <2>5. \A r \in runs' \cup drafts' : r \in runs \cup drafts \/ Past(r.seen)
    BY <1>10, <2>1, <2>3, WriteRunDoes
  <2>6. q.pc \notin Saving /\ q.pc # "judging" /\ Past(q.run.seen)
    BY <2>3, <2>4 DEF Saving
  <2>7. QED BY <2>1, <2>2, <2>4, <2>5, <2>6, FilesKept
<1>11. CASE Tick
  BY <1>11, FilesUntouched DEF Tick, files, history
<1>12. CASE UNCHANGED vars
  BY <1>12, FilesUntouched DEF vars
<1>13. QED BY <1>1, <1>2, <1>3, <1>4, <1>5, <1>6, <1>7, <1>8, <1>9, <1>10, <1>11, <1>12
  DEF Next

-----------------------------------------------------------------------------
(* Nothing unjustified                                                     *)

LEMMA JustPreserved ==
  ASSUME Types, Just, \A c \in Command : Orderly(c), [Next]_vars
  PROVE  Just'
<1>1. Justified(<<>>)
  BY DEF Justified
<1>2. Justified(Loaded)
  BY <1>1 DEF Just, Types, Loaded
<1>3. ASSUME NEW p \in Proc, NEW q, proc' = [proc EXCEPT ![p] = q],
             q.pc \in Saving => Justified(q.next),
             \A i \in Inode : data'[i] = data[i] \/ Justified(data'[i].rec)
      PROVE  Just'
  <2>1. proc'[p] = q /\ \A o \in Proc : o # p => proc'[o] = proc[o]
    BY <1>3, OneMoves
  <2>2. QED BY <1>3, <2>1 DEF Just
<1>4. ASSUME proc' = proc, data' = data PROVE Just'
  BY <1>4 DEF Just
<1>5. Idle.pc \notin Saving
  BY DEF Idle, Saving
<1>6. ASSUME NEW p \in Proc, NEW c \in Command, Run(p, c) PROVE Just'
  <2>1. data' = data /\ Orderly(c)
    BY <1>6 DEF Run, files
  <2>2. QED BY <1>2, <1>3, <1>4, <1>6, <2>1, RunDoes
<1>7. ASSUME NEW p \in Proc, NEW testable \in BOOLEAN, RubricAnswers(p, testable) PROVE Just'
  <2>1. data' = data /\ proc[p].pc \in Saving
    BY <1>7 DEF RubricAnswers, files, Saving
  <2>2. Justified(proc[p].next)
    BY <2>1 DEF Just
  <2>3. PICK q : proc' = [proc EXCEPT ![p] = q] /\ (q = Idle \/ q.next = proc[p].next)
    BY <1>7, RubricAnswersDoes
  <2>4. q.pc \in Saving => Justified(q.next)
    BY <1>5, <2>2, <2>3
  <2>5. QED BY <1>3, <2>1, <2>3, <2>4
<1>8. ASSUME NEW p \in Proc, OpenTmp(p) PROVE Just'
  <2>1. PICK q, i : /\ i \in Inode /\ data' = [data EXCEPT ![i] = Empty]
                    /\ proc' = [proc EXCEPT ![p] = q] /\ q.next = proc[p].next
    BY <1>8, OpenTmpDoes
  <2>2. Justified(q.next)
    BY <1>8, <2>1 DEF Just, OpenTmp, Saving
  <2>3. \A k \in Inode : data'[k] = data[k] \/ Justified(data'[k].rec)
    BY <1>1, <2>1 DEF Types, Empty
  <2>4. QED BY <1>3, <2>1, <2>2, <2>3
<1>9. ASSUME NEW p \in Proc, WriteTmp(p) PROVE Just'
  <2>1. PICK q, content :
          /\ content \in {Whole(proc[p].next), Torn}
          /\ data' = [data EXCEPT ![proc[p].handle] = content]
          /\ proc' = [proc EXCEPT ![p] = q] /\ q.next = proc[p].next
    BY <1>9, WriteTmpDoes
  <2>2. Justified(proc[p].next)
    BY <1>9 DEF Just, WriteTmp, Saving
  <2>3. Justified(content.rec)
    BY <1>1, <2>1, <2>2 DEF Whole, Torn
  <2>4. \A k \in Inode : data'[k] = data[k] \/ Justified(data'[k].rec)
    BY <2>1, <2>3 DEF Types
  <2>5. QED BY <1>3, <2>1, <2>2, <2>4
<1>10. ASSUME NEW p \in Proc, ReplaceFile(p) \/ Crash(p) \/ SaveRun(p) PROVE Just'
  <2>1. data' = data /\ proc' = [proc EXCEPT ![p] = Idle]
    BY <1>10 DEF ReplaceFile, Crash, SaveRun, files
  <2>2. QED BY <1>3, <1>5, <2>1
<1>11. ASSUME NEW p \in Proc, NEW c \in Command, Judge(p, c) PROVE Just'
  <2>1. data' = data
    BY <1>11 DEF Judge, files
  <2>2. "judging" \notin Saving
    BY DEF Saving
  <2>3. QED BY <1>3, <1>4, <1>11, <2>1, <2>2, JudgeDoes
<1>12. ASSUME NEW p \in Proc, Assemble(p) PROVE Just'
  <2>1. data' = data
    BY <1>12 DEF Assemble, files
  <2>2. {"named", "drafted"} \cap Saving = {}
    BY DEF Saving
  <2>3. QED BY <1>3, <1>12, <2>1, <2>2, AssembleDoes DEF IsNamed
<1>13. ASSUME NEW p \in Proc, WriteRun(p) PROVE Just'
  <2>1. data' = data
    BY <1>13 DEF WriteRun, files
  <2>2. {"named", "drafted"} \cap Saving = {}
    BY DEF Saving
  <2>3. QED BY <1>3, <1>13, <2>1, <2>2, WriteRunDoes
<1>14. CASE Tick \/ UNCHANGED vars
  BY <1>4, <1>14 DEF Tick, files, vars
<1>15. QED BY <1>6, <1>7, <1>8, <1>9, <1>10, <1>11, <1>12, <1>13, <1>14 DEF Next

-----------------------------------------------------------------------------
(* The theorems                                                            *)

IInv == Types /\ Dated /\ Serial

LEMMA InitEstablishes ==
  ASSUME Init
  PROVE  IInv /\ Just
<1>1. <<>> \in Seq(Anchor) /\ DOMAIN <<>> = {}
  OBVIOUS
<1>2. \A p \in Proc : proc[p] = Idle /\ proc[p].pc = "idle"
  BY DEF Init, Idle
<1>3. Types
  <2>1. data \in [Inode -> Content]
    <3>1. Empty \in Content
      BY DEF Content
    <3>2. QED BY <3>1 DEF Init
  <2>2. DOMAIN proc = Proc /\ runs = {} /\ drafts = {} /\ acked = {} /\ file = None /\ tmp = None
    BY DEF Init
  <2>3. now = 0 /\ issued = 0 /\ overlapped = FALSE
    BY DEF Init
  <2>4. 0 \in 0 .. MaxTime /\ 0 \in 0 .. MaxCommands
    BY WorkspaceAssumption
  <2>5. QED BY <1>2, <2>1, <2>2, <2>3, <2>4 DEF Types
<1>4. Dated
  BY <1>2 DEF Init, Dated
<1>5. \A p \in Proc : proc[p].pc \notin Saving \cup {"judging", "named", "drafted"}
  BY <1>2 DEF Saving
<1>6. Alone /\ Derived
  BY <1>5 DEF Alone, Derived
<1>7. InHand
  BY <1>5 DEF InHand, Saving
<1>8. InPlace /\ Kept
  BY DEF Init, InPlace, Kept
<1>9. Seen
  BY <1>5 DEF Init, Seen
<1>10. Just
  BY <1>5 DEF Init, Just, Justified, Empty
<1>11. QED BY <1>3, <1>4, <1>6, <1>7, <1>8, <1>9, <1>10 DEF IInv, Serial, OneSaver

\* The types, the dates of the runs, and what holds while one command saves at
\* a time, in every reachable state.
THEOREM IInvHolds == Spec => []IInv
<1>1. Init => IInv
  BY InitEstablishes
<1>2. IInv /\ [Next]_vars => IInv'
  BY TypesPreserved, DatedPreserved, SerialPreserved DEF IInv
<1>3. QED BY <1>1, <1>2, PTL DEF Spec

\* The files hold nothing, a torn record or anchors; the processes are at one
\* of their places; no run is of the future.
THEOREM TypeCorrect == Spec => []TypeOK
<1>1. IInv => TypeOK
  <2> SUFFICES ASSUME IInv PROVE TypeOK
    OBVIOUS
  <2>1. Types /\ Dated
    BY DEF IInv
  <2>2. \A i \in Inode : /\ data[i].state \in {"empty", "torn", "whole"}
                         /\ \A k \in DOMAIN data[i].rec : data[i].rec[k] \in Anchor
    <3>1. \A rec \in Record : \A k \in DOMAIN rec : rec[k] \in Anchor
      BY DEF Record
    <3>2. QED BY <2>1, <3>1, LoadedRecord
  <2>3. \A p \in Proc : proc[p].pc \in Saving \cup {"idle", "judging", "named", "drafted"}
    BY <2>1, ByPlace
  <2>4. \A r \in runs \cup drafts : r.item \in Item /\ r.at \in 0 .. now
    BY <2>1 DEF Types, Dated, IsRun
  <2>5. QED BY <2>1, <2>2, <2>3, <2>4 DEF Types, TypeOK
<1>2. QED BY <1>1, IInvHolds, PTL

\* However commands overlap and wherever they die, a record that can be read is
\* valid, provided that none of them adds an anchor as promoted: the add of the
\* code accepts that status and leaves the ADR out.
THEOREM ReadableValid ==
  ASSUME \A c \in Command : Orderly(c)
  PROVE  Spec => []ReadableIsValid
<1>1. Init => Types /\ Just
  BY InitEstablishes DEF IInv
<1>2. Types /\ Just /\ [Next]_vars => (Types /\ Just)'
  BY TypesPreserved, JustPreserved
<1>3. Types /\ Just => ReadableIsValid
  <2> SUFFICES ASSUME Types, Just, NEW i \in Inode PROVE ValidRecord(data[i].rec)
    BY DEF ReadableIsValid
  <2>1. data[i].rec \in Record /\ Justified(data[i].rec)
    BY LoadedRecord DEF Just
  <2>2. QED BY <2>1, ValidIsJustified
<1>4. QED BY <1>1, <1>2, <1>3, PTL DEF Spec

\* As long as one command saves at a time, what any of them reported as saved
\* is in the record, at that version and with that text or at a later one,
\* wherever a later command died.
THEOREM SerialKeeps == Spec => []SerialKeepsAcknowledged
<1>1. IInv => SerialKeepsAcknowledged
  <2> SUFFICES ASSUME IInv, ~overlapped, NEW a \in acked
               PROVE  /\ Readable /\ a.id \in Ids(Loaded)
                      /\ LET b == Find(Loaded, a.id)
                         IN  /\ b.version >= a.version
                             /\ b.version = a.version => /\ b.statement = a.statement
                                                         /\ b.status = a.status
    BY DEF SerialKeepsAcknowledged
  <2>1. Types /\ OneSaver
    BY DEF IInv, Serial
  <2>2. Readable
    BY <2>1 DEF OneSaver, Kept, InPlace, Readable
  <2>3. PICK i \in DOMAIN Loaded : Later(a, Loaded[i])
    BY <2>1 DEF OneSaver, Kept
  <2>4. Loaded[i].id \in Ids(Loaded) /\ Find(Loaded, Loaded[i].id) = Loaded[i]
    BY <2>1, LoadedRecord, FoundIsAt
  <2>5. QED BY <2>2, <2>3, <2>4 DEF Later
<1>2. QED BY <1>1, IInvHolds, PTL

\* As long as one command saves at a time, the version a result of judge names
\* still has the text that was judged.
THEOREM VersionNamesText == Spec => []SerialVersionNamesText
<1>1. IInv => SerialVersionNamesText
  <2> SUFFICES ASSUME IInv, ~overlapped, NEW r \in runs, NEW id \in DOMAIN r.results
               PROVE  /\ id \in Ids(Loaded)
                      /\ Find(r.seen, id).version = Find(Loaded, id).version
                         => Find(r.seen, id).statement = Find(Loaded, id).statement
    BY DEF SerialVersionNamesText
  <2>1. Types /\ OneSaver
    BY DEF IInv, Serial
  <2>2. r.seen \in Record /\ id \in Ids(r.seen) /\ Grown(r.seen, Loaded)
    BY <2>1 DEF Types, IsRun, OneSaver, Seen, Past
  <2>3. id \in Ids(Loaded) /\ Later(Find(r.seen, id), Find(Loaded, id))
    BY <2>1, <2>2, LoadedRecord, GrownIsFound
  <2>4. QED BY <2>3 DEF Later
<1>2. QED BY <1>1, IInvHolds, PTL

\* When the planning gate passes on runs of all anchors, made of the record as
\* it is, every judged anchor is satisfied by an item, and every item satisfies
\* it, is not governed by it or is one it excludes; Jev was asked about all others.
THEOREM PassEarned == Spec => []GatePassIsEarned
<1>1. Types => GatePassIsEarned
  <2> SUFFICES ASSUME Types, GatePasses, \A r \in Latest : r.all /\ r.seen = Loaded,
                      NEW id \in JudgedIds(Loaded)
               PROVE  /\ \E r \in Latest : r.results[id] = "satisfied"
                      /\ \A r \in Latest : \/ r.results[id] \in {"satisfied", "not_applicable"}
                                           \/ Excluded(Loaded, r.item, id)
    BY DEF GatePassIsEarned
  <2>1. \A r \in Latest : IsRun(r) /\ id \in DOMAIN r.results
    <3>1. \A r \in Latest : IsRun(r)
      BY DEF Types, Latest, Collected
    <3>2. QED BY <3>1 DEF IsRun
  <2>2. \E r \in Latest : r.results[id] = "satisfied"
    <3>1. PICK r \in Latest : TRUE
      BY WorkspaceAssumption DEF GatePasses
    <3>2. id \in UNION {DOMAIN s.results : s \in Latest}
      BY <2>1, <3>1
    <3>3. id \in UNION {CoveredBy(s) : s \in Latest}
      BY <3>2 DEF GatePasses, Uncovered
    <3>4. QED BY <3>3 DEF CoveredBy
  <2>3. ~Find(Loaded, id).structural
    BY <2>1, <2>2 DEF IsRun
  <2>4. ASSUME NEW r \in Latest
        PROVE  r.results[id] \in {"satisfied", "not_applicable"} \/ Excluded(Loaded, r.item, id)
    <3>1. /\ r.results[id] \in Verdict \cup {"excluded", "deterministic_only", "none"}
          /\ r.results[id] = "excluded" => Excluded(Loaded, r.item, id)
          /\ r.results[id] = "deterministic_only" => Find(Loaded, id).structural
          /\ r.results[id] = "none" => r.dry
      BY <2>1 DEF IsRun
    <3>2. r.results[id] \notin Failing /\ ~r.dry
      BY <2>1 DEF GatePasses, Passes
    <3>3. QED BY <2>3, <3>1, <3>2 DEF Verdict, Failing
  <2>5. QED BY <2>2, <2>4
<1>2. IInv => GatePassIsEarned
  BY <1>1 DEF IInv
<1>3. QED BY <1>2, IInvHolds, PTL
=============================================================================
