---------------------------- MODULE RowDiffProofs ----------------------------
(***************************************************************************)
(* The merge is right for every two ascending vectors, of any length.      *)
(***************************************************************************)
EXTENDS RowDiff, TLAPS

(***************************************************************************)
(* The inductive invariant says row by row what LoopInvariant says of the  *)
(* views: which rows stand in which vector of the message, that the rows   *)
(* passed on one side lie below the rows to come on the other, and that    *)
(* the loop has passed the same rows on both sides while it has nothing to *)
(* report.                                                                 *)
(***************************************************************************)

\* Has one of the first n rows of s the key k?
HasKey(s, n, k) == \E m \in 1 .. n : s[m][1] = k

AddedRows(n, m)    == {new[x] : x \in {y \in 1 .. n : ~ HasKey(old, m, new[y][1])}}
ModifiedRows(n, m) == {new[x] : x \in {y \in 1 .. n : \E z \in 1 .. m :
                                         old[z][1] = new[y][1] /\ old[z] # new[y]}}
DeletedKeys(n, m)  == {old[x][1] : x \in {y \in 1 .. m : ~ HasKey(new, n, old[y][1])}}

CollectedInv ==
  /\ Range(diff.add) = AddedRows(j - 1, i - 1)
  /\ Range(diff.modify) = ModifiedRows(j - 1, i - 1)
  /\ Range(diff.delete) = DeletedKeys(j - 1, i - 1)

ApartInv ==
  /\ \A m \in 1 .. (i - 1), n \in j .. Len(new) : old[m][1] < new[n][1]
  /\ \A m \in i .. Len(old), n \in 1 .. (j - 1) : new[n][1] < old[m][1]

SilentInv ==
  diff = [modify |-> << >>, add |-> << >>, delete |-> << >>] =>
    i = j /\ \A m \in 1 .. (i - 1) : old[m] = new[m]

DiffInv == DiffTypeOK /\ CollectedInv /\ ApartInv /\ SilentInv

-----------------------------------------------------------------------------
(***************************************************************************)
(* Vectors.                                                                *)
(***************************************************************************)

LEMMA VectorRows ==
  ASSUME NEW s \in Vectors
  PROVE  /\ s \in Seq(Keys \X Values) /\ Len(s) \in Nat
         /\ \A m \in 1 .. Len(s) :
              s[m] \in Keys \X Values /\ s[m][1] \in Nat /\ s[m] = <<s[m][1], s[m][2]>>
         /\ \A m, n \in 1 .. Len(s) : m < n => s[m][1] < s[n][1]
<1>1. s \in Seq(Keys \X Values) /\ Ascending(s)
  BY VectorsAssumption
<1>2. Len(s) \in Nat /\ DOMAIN s = 1 .. Len(s)
  BY <1>1
<1>3. \A m \in 1 .. Len(s) : s[m] \in Keys \X Values
  BY <1>1
<1>4. \A p \in Keys \X Values : p[1] \in Keys /\ p = <<p[1], p[2]>>
  OBVIOUS
<1>5. \A p \in Keys \X Values : p[1] \in Nat
  BY <1>4, KeysAssumption
<1> QED
  BY <1>1, <1>2, <1>3, <1>4, <1>5 DEF Ascending

LEMMA AppendRange ==
  ASSUME NEW S, NEW s \in Seq(S), NEW x \in S
  PROVE  /\ Append(s, x) \in Seq(S) /\ Append(s, x) # << >>
         /\ Range(Append(s, x)) = Range(s) \cup {x}
<1>1. /\ Append(s, x) \in Seq(S) /\ Append(s, x) # << >>
      /\ DOMAIN Append(s, x) = DOMAIN s \cup {Len(s) + 1}
      /\ \A k \in DOMAIN s : Append(s, x)[k] = s[k]
      /\ Append(s, x)[Len(s) + 1] = x
  OBVIOUS
<1> QED
  BY <1>1 DEF Range

LEMMA EmptyRange ==
  ASSUME NEW S, NEW s \in Seq(S), Range(s) = {}
  PROVE  s = << >>
<1>1. DOMAIN s = 1 .. Len(s) /\ Len(s) \in Nat
  OBVIOUS
<1>2. 1 \notin DOMAIN s
  BY DEF Range
<1> QED
  BY <1>1, <1>2

LEMMA AppendRow ==
  ASSUME NEW s \in Seq(Keys \X Values), NEW x \in Keys \X Values
  PROVE  /\ Append(s, x) \in Seq(Keys \X Values) /\ Append(s, x) # << >>
         /\ Range(Append(s, x)) = Range(s) \cup {x}
BY AppendRange

-----------------------------------------------------------------------------
(***************************************************************************)
(* The loop.                                                               *)
(***************************************************************************)

LEMMA InitInv == DiffInit => DiffInv
<1> SUFFICES ASSUME DiffInit
             PROVE  DiffInv
  OBVIOUS
<1>1. Len(old) \in Nat /\ Len(new) \in Nat
  BY VectorRows DEF DiffInit
<1>2. DiffTypeOK
  BY <1>1 DEF DiffInit, DiffTypeOK
<1>3. CollectedInv
  BY DEF DiffInit, CollectedInv, AddedRows, ModifiedRows, DeletedKeys, Range
<1>4. ApartInv /\ SilentInv
  BY DEF DiffInit, ApartInv, SilentInv
<1> QED
  BY <1>2, <1>3, <1>4 DEF DiffInv

\* What is known of the rows at every step.
LEMMA RowFacts ==
  ASSUME DiffInv
  PROVE  /\ old \in Vectors /\ new \in Vectors
         /\ i \in Nat \ {0} /\ j \in Nat \ {0} /\ Len(old) \in Nat /\ Len(new) \in Nat
         /\ i <= Len(old) + 1 /\ j <= Len(new) + 1
         /\ \A m \in 1 .. Len(old) : old[m][1] \in Nat /\ old[m] \in Keys \X Values
         /\ \A m \in 1 .. Len(new) : new[m][1] \in Nat /\ new[m] \in Keys \X Values
         /\ \A m, n \in 1 .. Len(old) : m < n => old[m][1] < old[n][1]
         /\ \A m, n \in 1 .. Len(new) : m < n => new[m][1] < new[n][1]
<1>1. old \in Vectors /\ new \in Vectors /\ i \in 1 .. Len(old) + 1 /\ j \in 1 .. Len(new) + 1
  BY DEF DiffInv, DiffTypeOK
<1> QED
  BY <1>1, VectorRows

\* What is known of the message at every step.
LEMMA DiffFacts ==
  ASSUME DiffInv
  PROVE  /\ diff.add \in Seq(Keys \X Values) /\ diff.modify \in Seq(Keys \X Values)
         /\ diff.delete \in Seq(Keys)
         /\ diff = [modify |-> diff.modify, add |-> diff.add, delete |-> diff.delete]
BY DEF DiffInv, DiffTypeOK

LEMMA DeletedInv ==
  ASSUME DiffInv, Deleted
  PROVE  DiffInv'
<1>1. /\ old \in Vectors /\ new \in Vectors
      /\ i \in Nat \ {0} /\ j \in Nat \ {0} /\ Len(old) \in Nat /\ Len(new) \in Nat
      /\ i <= Len(old) /\ j <= Len(new) + 1
  BY RowFacts DEF Deleted, MoreOld
<1>2. old[i] \in Keys \X Values /\ old[i][1] \in Keys /\ old[i][1] \in Nat
  BY <1>1, RowFacts
<1>3. /\ i' = i + 1 /\ UNCHANGED <<old, new, j>>
      /\ diff'.add = diff.add /\ diff'.modify = diff.modify
      /\ diff'.delete = Append(diff.delete, old[i][1])
      /\ diff' = [modify |-> diff'.modify, add |-> diff'.add, delete |-> diff'.delete]
  BY DiffFacts DEF Deleted
<1>4. /\ diff'.delete \in Seq(Keys) /\ diff'.delete # << >>
      /\ Range(diff'.delete) = Range(diff.delete) \cup {old[i][1]}
  <2>1. diff.delete \in Seq(Keys)
    BY DiffFacts
  <2>2. PICK x : x = old[i][1]
    OBVIOUS
  <2>3. /\ Append(diff.delete, x) \in Seq(Keys) /\ Append(diff.delete, x) # << >>
        /\ Range(Append(diff.delete, x)) = Range(diff.delete) \cup {x}
    BY <1>2, <2>1, <2>2, AppendRange
  <2> QED
    BY <1>3, <2>2, <2>3
<1>5. \A n \in j .. Len(new) : old[i][1] < new[n][1]
  <2> SUFFICES ASSUME NEW n \in j .. Len(new)
               PROVE  old[i][1] < new[n][1]
    OBVIOUS
  <2>1. MoreNew /\ old[i][1] < new[j][1] /\ j \in 1 .. Len(new) /\ n \in 1 .. Len(new)
    BY <1>1 DEF Deleted, MoreNew
  <2>2. j < n => new[j][1] < new[n][1]
    BY <2>1, RowFacts
  <2>3. new[j][1] \in Nat /\ new[n][1] \in Nat
    BY <2>1, RowFacts
  <2> QED
    BY <1>1, <1>2, <2>1, <2>2, <2>3
<1>6. \A n \in 1 .. j - 1 : new[n][1] < old[i][1] /\ new[n][1] \in Nat
  BY <1>1, RowFacts DEF DiffInv, ApartInv
<1>7. DiffTypeOK'
  <2>1. diff' \in [modify : Seq(Keys \X Values), add : Seq(Keys \X Values),
                  delete : Seq(Keys)]
    BY <1>3, <1>4, DiffFacts
  <2>2. i' \in 1 .. Len(old') + 1 /\ j' \in 1 .. Len(new') + 1
    BY <1>1, <1>3
  <2> QED
    BY <1>1, <1>3, <2>1, <2>2 DEF DiffTypeOK
<1>8. ApartInv'
  <2>1. ASSUME NEW m \in 1 .. i, NEW n \in j .. Len(new)
        PROVE  old[m][1] < new[n][1]
    <3>1. m = i \/ m \in 1 .. i - 1
      BY <1>1
    <3> QED
      BY <1>5, <3>1 DEF DiffInv, ApartInv
  <2>2. ASSUME NEW m \in (i + 1) .. Len(old), NEW n \in 1 .. j - 1
        PROVE  new[n][1] < old[m][1]
    <3>1. m \in i .. Len(old)
      BY <1>1
    <3> QED
      BY <3>1 DEF DiffInv, ApartInv
  <2>3. i' - 1 = i
    BY <1>1, <1>3
  <2> QED
    BY <1>3, <2>1, <2>2, <2>3 DEF ApartInv
<1>9. CollectedInv'
  <2>1. i' - 1 = i /\ j' - 1 = j - 1 /\ 1 .. i = 1 .. (i - 1) \cup {i}
    BY <1>1, <1>3
  <2>2. \A n \in 1 .. j - 1 : new[n][1] # old[i][1]
    BY <1>2, <1>6
  <2>3. AddedRows(j - 1, i) = AddedRows(j - 1, i - 1)
    BY <2>1, <2>2 DEF AddedRows, HasKey
  <2>4. ModifiedRows(j - 1, i) = ModifiedRows(j - 1, i - 1)
    BY <2>1, <2>2 DEF ModifiedRows
  <2>5. DeletedKeys(j - 1, i) = DeletedKeys(j - 1, i - 1) \cup {old[i][1]}
    BY <2>1, <2>2 DEF DeletedKeys, HasKey
  <2>6. /\ Range(diff'.add) = AddedRows(j - 1, i)
        /\ Range(diff'.modify) = ModifiedRows(j - 1, i)
        /\ Range(diff'.delete) = DeletedKeys(j - 1, i)
    BY <1>3, <1>4, <2>3, <2>4, <2>5 DEF DiffInv, CollectedInv
  <2> QED
    BY <1>3, <2>1, <2>6 DEF CollectedInv, AddedRows, ModifiedRows, DeletedKeys, HasKey
<1>10. SilentInv'
  BY <1>4 DEF SilentInv
<1> QED
  BY <1>7, <1>8, <1>9, <1>10 DEF DiffInv

LEMMA AddedInv ==
  ASSUME DiffInv, Added
  PROVE  DiffInv'
<1>1. /\ old \in Vectors /\ new \in Vectors
      /\ i \in Nat \ {0} /\ j \in Nat \ {0} /\ Len(old) \in Nat /\ Len(new) \in Nat
      /\ i <= Len(old) + 1 /\ j <= Len(new)
  BY RowFacts DEF Added, MoreNew
<1>2. new[j] \in Keys \X Values /\ new[j][1] \in Nat
  BY <1>1, RowFacts
<1>3. /\ j' = j + 1 /\ UNCHANGED <<old, new, i>>
      /\ diff'.delete = diff.delete /\ diff'.modify = diff.modify
      /\ diff'.add = Append(diff.add, new[j])
      /\ diff' = [modify |-> diff'.modify, add |-> diff'.add, delete |-> diff'.delete]
  BY DiffFacts DEF Added
<1>4. /\ diff'.add \in Seq(Keys \X Values) /\ diff'.add # << >>
      /\ Range(diff'.add) = Range(diff.add) \cup {new[j]}
  <2>1. diff.add \in Seq(Keys \X Values)
    BY DiffFacts
  <2>2. /\ Append(diff.add, new[j]) \in Seq(Keys \X Values)
        /\ Append(diff.add, new[j]) # << >>
        /\ Range(Append(diff.add, new[j])) = Range(diff.add) \cup {new[j]}
    BY <1>2, <2>1, AppendRow
  <2> QED
    BY <1>3, <2>2
<1>5. \A m \in i .. Len(old) : new[j][1] < old[m][1]
  <2> SUFFICES ASSUME NEW m \in i .. Len(old)
               PROVE  new[j][1] < old[m][1]
    OBVIOUS
  <2>1. MoreOld /\ new[j][1] < old[i][1] /\ i \in 1 .. Len(old) /\ m \in 1 .. Len(old)
    <3>1. MoreOld /\ i \in 1 .. Len(old) /\ m \in 1 .. Len(old)
      BY <1>1 DEF MoreOld
    <3>2. old[i][1] > new[j][1] /\ old[i][1] \in Nat
      BY <3>1, RowFacts DEF Added
    <3> QED
      BY <1>2, <3>1, <3>2
  <2>2. i < m => old[i][1] < old[m][1]
    BY <2>1, RowFacts
  <2>3. old[i][1] \in Nat /\ old[m][1] \in Nat
    BY <2>1, RowFacts
  <2> QED
    BY <1>1, <1>2, <2>1, <2>2, <2>3
<1>6. \A m \in 1 .. i - 1 : old[m][1] < new[j][1] /\ old[m][1] \in Nat
  <2>1. j \in j .. Len(new) /\ \A m \in 1 .. i - 1 : m \in 1 .. Len(old)
    BY <1>1
  <2> QED
    BY <2>1, RowFacts DEF DiffInv, ApartInv
<1>7. DiffTypeOK'
  <2>1. diff' \in [modify : Seq(Keys \X Values), add : Seq(Keys \X Values),
                  delete : Seq(Keys)]
    BY <1>3, <1>4, DiffFacts
  <2>2. i' \in 1 .. Len(old') + 1 /\ j' \in 1 .. Len(new') + 1
    BY <1>1, <1>3
  <2> QED
    BY <1>1, <1>3, <2>1, <2>2 DEF DiffTypeOK
<1>8. ApartInv'
  <2>1. ASSUME NEW m \in 1 .. i - 1, NEW n \in (j + 1) .. Len(new)
        PROVE  old[m][1] < new[n][1]
    <3>1. n \in j .. Len(new)
      BY <1>1
    <3> QED
      BY <3>1 DEF DiffInv, ApartInv
  <2>2. ASSUME NEW m \in i .. Len(old), NEW n \in 1 .. j
        PROVE  new[n][1] < old[m][1]
    <3>1. n = j \/ n \in 1 .. j - 1
      BY <1>1
    <3> QED
      BY <1>5, <3>1 DEF DiffInv, ApartInv
  <2>3. j' - 1 = j
    BY <1>1, <1>3
  <2> QED
    BY <1>3, <2>1, <2>2, <2>3 DEF ApartInv
<1>9. CollectedInv'
  <2>1. j' - 1 = j /\ i' - 1 = i - 1 /\ 1 .. j = 1 .. (j - 1) \cup {j}
    BY <1>1, <1>3
  <2>2. \A m \in 1 .. i - 1 : old[m][1] # new[j][1]
    BY <1>2, <1>6
  <2>3. AddedRows(j, i - 1) = AddedRows(j - 1, i - 1) \cup {new[j]}
    BY <2>1, <2>2 DEF AddedRows, HasKey
  <2>4. ModifiedRows(j, i - 1) = ModifiedRows(j - 1, i - 1)
    BY <2>1, <2>2 DEF ModifiedRows
  <2>5. DeletedKeys(j, i - 1) = DeletedKeys(j - 1, i - 1)
    BY <2>1, <2>2 DEF DeletedKeys, HasKey
  <2>6. /\ Range(diff'.add) = AddedRows(j, i - 1)
        /\ Range(diff'.modify) = ModifiedRows(j, i - 1)
        /\ Range(diff'.delete) = DeletedKeys(j, i - 1)
    BY <1>3, <1>4, <2>3, <2>4, <2>5 DEF DiffInv, CollectedInv
  <2> QED
    BY <1>3, <2>1, <2>6 DEF CollectedInv, AddedRows, ModifiedRows, DeletedKeys, HasKey
<1>10. SilentInv'
  BY <1>4 DEF SilentInv
<1> QED
  BY <1>7, <1>8, <1>9, <1>10 DEF DiffInv

LEMMA SameKeyInv ==
  ASSUME DiffInv, SameKey
  PROVE  DiffInv'
<1>1. /\ old \in Vectors /\ new \in Vectors
      /\ i \in Nat \ {0} /\ j \in Nat \ {0} /\ Len(old) \in Nat /\ Len(new) \in Nat
      /\ i <= Len(old) /\ j <= Len(new)
  BY RowFacts DEF SameKey, MoreOld, MoreNew
<1>2. /\ new[j] \in Keys \X Values /\ old[i][1] = new[j][1] /\ new[j][1] \in Nat
  BY <1>1, RowFacts DEF SameKey
<1>3. /\ i' = i + 1 /\ j' = j + 1 /\ UNCHANGED <<old, new>>
      /\ diff'.delete = diff.delete /\ diff'.add = diff.add
      /\ diff'.modify = IF old[i] # new[j] THEN Append(diff.modify, new[j])
                                            ELSE diff.modify
      /\ diff' = [modify |-> diff'.modify, add |-> diff'.add, delete |-> diff'.delete]
      /\ old[i] = new[j] => diff' = diff
  BY DiffFacts DEF SameKey
<1>4. /\ diff'.modify \in Seq(Keys \X Values)
      /\ old[i] # new[j] => diff'.modify # << >>
      /\ Range(diff'.modify) = IF old[i] # new[j] THEN Range(diff.modify) \cup {new[j]}
                                                  ELSE Range(diff.modify)
  <2>1. diff.modify \in Seq(Keys \X Values)
    BY DiffFacts
  <2>2. /\ Append(diff.modify, new[j]) \in Seq(Keys \X Values)
        /\ Append(diff.modify, new[j]) # << >>
        /\ Range(Append(diff.modify, new[j])) = Range(diff.modify) \cup {new[j]}
    BY <1>2, <2>1, AppendRow
  <2> QED
    BY <1>3, <2>1, <2>2
<1>5. /\ \A n \in (j + 1) .. Len(new) : old[i][1] < new[n][1]
      /\ \A m \in (i + 1) .. Len(old) : new[j][1] < old[m][1]
  BY <1>1, <1>2, RowFacts
<1>6. /\ \A m \in 1 .. i - 1 : old[m][1] < new[j][1] /\ old[m][1] \in Nat
      /\ \A n \in 1 .. j - 1 : new[n][1] < old[i][1] /\ new[n][1] \in Nat
  BY <1>1, RowFacts DEF DiffInv, ApartInv
<1>7. DiffTypeOK'
  <2>1. diff' \in [modify : Seq(Keys \X Values), add : Seq(Keys \X Values),
                  delete : Seq(Keys)]
    BY <1>3, <1>4, DiffFacts
  <2>2. i' \in 1 .. Len(old') + 1 /\ j' \in 1 .. Len(new') + 1
    BY <1>1, <1>3
  <2> QED
    BY <1>1, <1>3, <2>1, <2>2 DEF DiffTypeOK
<1>8. ApartInv'
  <2>1. ASSUME NEW m \in 1 .. i, NEW n \in (j + 1) .. Len(new)
        PROVE  old[m][1] < new[n][1]
    <3>1. n \in j .. Len(new) /\ (m = i \/ m \in 1 .. i - 1)
      BY <1>1
    <3> QED
      BY <1>5, <3>1 DEF DiffInv, ApartInv
  <2>2. ASSUME NEW m \in (i + 1) .. Len(old), NEW n \in 1 .. j
        PROVE  new[n][1] < old[m][1]
    <3>1. m \in i .. Len(old) /\ (n = j \/ n \in 1 .. j - 1)
      BY <1>1
    <3> QED
      BY <1>5, <3>1 DEF DiffInv, ApartInv
  <2>3. i' - 1 = i /\ j' - 1 = j
    BY <1>1, <1>3
  <2> QED
    BY <1>3, <2>1, <2>2, <2>3 DEF ApartInv
<1>9. CollectedInv'
  <2>1. /\ i' - 1 = i /\ j' - 1 = j
        /\ 1 .. i = 1 .. (i - 1) \cup {i} /\ 1 .. j = 1 .. (j - 1) \cup {j}
    BY <1>1, <1>3
  <2>2. /\ \A n \in 1 .. j - 1 : new[n][1] # old[i][1]
        /\ \A m \in 1 .. i - 1 : old[m][1] # new[j][1]
    BY <1>2, <1>6
  <2>3. AddedRows(j, i) = AddedRows(j - 1, i - 1)
    BY <1>2, <2>1, <2>2 DEF AddedRows, HasKey
  <2>4. ModifiedRows(j, i) = IF old[i] # new[j] THEN ModifiedRows(j - 1, i - 1) \cup {new[j]}
                                                ELSE ModifiedRows(j - 1, i - 1)
    BY <1>2, <2>1, <2>2 DEF ModifiedRows
  <2>5. DeletedKeys(j, i) = DeletedKeys(j - 1, i - 1)
    BY <1>2, <2>1, <2>2 DEF DeletedKeys, HasKey
  <2>6. /\ Range(diff'.add) = AddedRows(j, i)
        /\ Range(diff'.modify) = ModifiedRows(j, i)
        /\ Range(diff'.delete) = DeletedKeys(j, i)
    BY <1>3, <1>4, <2>3, <2>4, <2>5 DEF DiffInv, CollectedInv
  <2> QED
    BY <1>3, <2>1, <2>6 DEF CollectedInv, AddedRows, ModifiedRows, DeletedKeys, HasKey
<1>10. SilentInv'
  <2>1. CASE old[i] # new[j]
    BY <1>4, <2>1 DEF SilentInv
  <2>2. CASE old[i] = new[j]
    <3>1. ASSUME diff' = [modify |-> << >>, add |-> << >>, delete |-> << >>]
          PROVE  i' = j' /\ \A m \in 1 .. (i' - 1) : old'[m] = new'[m]
      BY <1>1, <1>3, <2>2, <3>1 DEF DiffInv, SilentInv
    <3> QED
      BY <3>1 DEF SilentInv
  <2> QED
    BY <2>1, <2>2
<1> QED
  BY <1>7, <1>8, <1>9, <1>10 DEF DiffInv

LEMMA NextInv == DiffInv /\ [DiffNext]_diffVars => DiffInv'
<1> SUFFICES ASSUME DiffInv, [DiffNext]_diffVars
             PROVE  DiffInv'
  OBVIOUS
<1>1. CASE UNCHANGED diffVars
  BY <1>1 DEF diffVars, DiffInv, DiffTypeOK, CollectedInv, ApartInv, SilentInv,
              AddedRows, ModifiedRows, DeletedKeys, HasKey
<1> QED
  BY <1>1, DeletedInv, AddedInv, SameKeyInv DEF DiffNext, Returned

-----------------------------------------------------------------------------
(***************************************************************************)
(* From rows to views.                                                     *)
(***************************************************************************)

\* A prefix of a vector shows its rows.
LEMMA PrefixView ==
  ASSUME NEW s \in Vectors, NEW n \in Nat, n <= Len(s)
  PROVE  LET v == ViewOf(SubSeq(s, 1, n)) IN
         /\ DOMAIN v = {s[m][1] : m \in 1 .. n}
         /\ \A m \in 1 .. n : v[s[m][1]] = s[m][2]
         /\ v = [k \in DOMAIN v |-> v[k]]
<1> DEFINE t == SubSeq(s, 1, n)
<1>1. /\ s \in Seq(Keys \X Values) /\ Len(s) \in Nat
      /\ \A m \in 1 .. Len(s) : s[m][1] \in Nat
      /\ \A m, k \in 1 .. Len(s) : m < k => s[m][1] < s[k][1]
  BY VectorRows
<1>2. DOMAIN t = 1 .. n /\ \A m \in 1 .. n : t[m] = s[m]
  BY <1>1
<1>3. \A m, k \in 1 .. n : s[m][1] = s[k][1] => m = k
  <2> SUFFICES ASSUME NEW m \in 1 .. n, NEW k \in 1 .. n, s[m][1] = s[k][1]
               PROVE  m = k
    OBVIOUS
  <2>1. m \in 1 .. Len(s) /\ k \in 1 .. Len(s) /\ ~ m < k /\ ~ k < m
    BY <1>1
  <2> QED
    BY <2>1
<1>4. Range(t) = {s[m] : m \in 1 .. n}
  BY <1>2 DEF Range
<1>5. \A m \in 1 .. n : (CHOOSE p \in Range(t) : p[1] = s[m][1]) = s[m]
  <2> SUFFICES ASSUME NEW m \in 1 .. n
               PROVE  (CHOOSE p \in Range(t) : p[1] = s[m][1]) = s[m]
    OBVIOUS
  <2>1. \A p \in Range(t) : p[1] = s[m][1] => p = s[m]
    BY <1>3, <1>4
  <2>2. s[m] \in Range(t)
    BY <1>4
  <2> HIDE DEF t
  <2> QED
    BY <2>1, <2>2
<1> HIDE DEF t
<1> DEFINE v == ViewOf(t)
<1>6. DOMAIN v = {p[1] : p \in Range(t)} /\ v = [k \in DOMAIN v |-> v[k]]
  BY DEF ViewOf
<1>7. DOMAIN v = {s[m][1] : m \in 1 .. n}
  BY <1>4, <1>6
<1>8. \A m \in 1 .. n : v[s[m][1]] = s[m][2]
  <2> SUFFICES ASSUME NEW m \in 1 .. n
               PROVE  v[s[m][1]] = s[m][2]
    OBVIOUS
  <2>1. s[m][1] \in {p[1] : p \in Range(t)}
    BY <1>4
  <2>2. v[s[m][1]] = (CHOOSE p \in Range(t) : p[1] = s[m][1])[2]
    BY <2>1 DEF ViewOf
  <2> QED
    BY <1>5, <2>2
<1> HIDE DEF v
<1>9. /\ DOMAIN v = {s[m][1] : m \in 1 .. n}
      /\ \A m \in 1 .. n : v[s[m][1]] = s[m][2]
      /\ v = [k \in DOMAIN v |-> v[k]]
  BY <1>6, <1>7, <1>8
<1> QED
  BY <1>9 DEF v, t

\* The rows collected so far are the changes between the rows passed.
LEMMA CollectedIsDiff ==
  ASSUME DiffInv
  PROVE  AsChanges(diff) = DiffOf(ViewOf(SubSeq(new, 1, j - 1)), ViewOf(SubSeq(old, 1, i - 1)))
<1>1. /\ old \in Vectors /\ new \in Vectors
      /\ i - 1 \in Nat /\ j - 1 \in Nat /\ i - 1 <= Len(old) /\ j - 1 <= Len(new)
  BY RowFacts
<1> DEFINE vn == ViewOf(SubSeq(new, 1, j - 1))
           vo == ViewOf(SubSeq(old, 1, i - 1))
<1>2. /\ DOMAIN vn = {new[m][1] : m \in 1 .. j - 1}
      /\ \A m \in 1 .. j - 1 : vn[new[m][1]] = new[m][2]
  BY <1>1, PrefixView
<1>3. /\ DOMAIN vo = {old[m][1] : m \in 1 .. i - 1}
      /\ \A m \in 1 .. i - 1 : vo[old[m][1]] = old[m][2]
  BY <1>1, PrefixView
<1>4. /\ \A m \in 1 .. j - 1 : new[m] = <<new[m][1], new[m][2]>>
      /\ \A m \in 1 .. i - 1 : old[m] = <<old[m][1], old[m][2]>>
  <2>1. /\ \A m \in 1 .. Len(new) : new[m] = <<new[m][1], new[m][2]>>
        /\ \A m \in 1 .. Len(old) : old[m] = <<old[m][1], old[m][2]>>
    BY <1>1, VectorRows
  <2>2. Len(old) \in Nat /\ Len(new) \in Nat
    BY RowFacts
  <2> QED
    BY <1>1, <2>1, <2>2
<1> HIDE DEF vn, vo
<1>5. Range(diff.add) = {<<k, vn[k]>> : k \in DOMAIN vn \ DOMAIN vo}
  <2>1. \A m \in 1 .. j - 1 : new[m][1] \notin DOMAIN vo <=> ~ HasKey(old, i - 1, new[m][1])
    BY <1>3 DEF HasKey
  <2>2. AddedRows(j - 1, i - 1) \subseteq {<<k, vn[k]>> : k \in DOMAIN vn \ DOMAIN vo}
    <3> SUFFICES ASSUME NEW m \in 1 .. j - 1, ~ HasKey(old, i - 1, new[m][1])
                 PROVE  new[m] \in {<<k, vn[k]>> : k \in DOMAIN vn \ DOMAIN vo}
      BY DEF AddedRows
    <3>1. /\ new[m] = <<new[m][1], vn[new[m][1]]>>
          /\ new[m][1] \in DOMAIN vn \ DOMAIN vo
      BY <1>2, <1>4, <2>1
    <3> QED
      BY <3>1
  <2>3. {<<k, vn[k]>> : k \in DOMAIN vn \ DOMAIN vo} \subseteq AddedRows(j - 1, i - 1)
    BY <1>2, <1>4, <2>1 DEF AddedRows
  <2> QED
    BY <2>2, <2>3 DEF DiffInv, CollectedInv
<1>6. Range(diff.modify) =
        {<<k, vn[k]>> : k \in {x \in DOMAIN vn \cap DOMAIN vo : vn[x] # vo[x]}}
  <2>1. \A m \in 1 .. j - 1 :
          (\E z \in 1 .. i - 1 : old[z][1] = new[m][1] /\ old[z] # new[m])
            <=> new[m][1] \in DOMAIN vo /\ vn[new[m][1]] # vo[new[m][1]]
    <3> SUFFICES ASSUME NEW m \in 1 .. j - 1
                 PROVE  (\E z \in 1 .. i - 1 : old[z][1] = new[m][1] /\ old[z] # new[m])
                          <=> new[m][1] \in DOMAIN vo /\ vn[new[m][1]] # vo[new[m][1]]
      OBVIOUS
    <3>1. \A z \in 1 .. i - 1 : old[z][1] = new[m][1] =>
            (old[z] # new[m] <=> vn[new[m][1]] # vo[new[m][1]])
      BY <1>2, <1>3, <1>4
    <3> QED
      BY <1>3, <3>1
  <2>2. ModifiedRows(j - 1, i - 1) \subseteq
          {<<k, vn[k]>> : k \in {x \in DOMAIN vn \cap DOMAIN vo : vn[x] # vo[x]}}
    <3> SUFFICES ASSUME NEW m \in 1 .. j - 1, NEW z \in 1 .. i - 1,
                        old[z][1] = new[m][1], old[z] # new[m]
                 PROVE  new[m] \in {<<k, vn[k]>> : k \in {x \in DOMAIN vn \cap DOMAIN vo :
                                                        vn[x] # vo[x]}}
      BY DEF ModifiedRows
    <3>1. new[m] = <<new[m][1], vn[new[m][1]]>> /\ new[m][1] \in DOMAIN vn
      BY <1>2, <1>4
    <3>2. new[m][1] \in DOMAIN vo /\ vn[new[m][1]] # vo[new[m][1]]
      BY <2>1
    <3> QED
      BY <3>1, <3>2
  <2>3. {<<k, vn[k]>> : k \in {x \in DOMAIN vn \cap DOMAIN vo : vn[x] # vo[x]}}
          \subseteq ModifiedRows(j - 1, i - 1)
    BY <1>2, <1>4, <2>1 DEF ModifiedRows
  <2> QED
    BY <2>2, <2>3 DEF DiffInv, CollectedInv
<1>7. Range(diff.delete) = DOMAIN vo \ DOMAIN vn
  <2>1. \A m \in 1 .. i - 1 : old[m][1] \notin DOMAIN vn <=> ~ HasKey(new, j - 1, old[m][1])
    BY <1>2 DEF HasKey
  <2> QED
    BY <1>3, <2>1 DEF DiffInv, CollectedInv, DeletedKeys
<1>8. AsChanges(diff) = DiffOf(vn, vo)
  BY <1>5, <1>6, <1>7 DEF AsChanges, DiffOf
<1> QED
  BY <1>8 DEF vn, vo

\* The page that applies the changes between two results shows the new one.
LEMMA DiffApplies ==
  ASSUME NEW vn, NEW vo, vn = [k \in DOMAIN vn |-> vn[k]]
  PROVE  Applied(vo, DiffOf(vn, vo)) = vn
<1> DEFINE d == DiffOf(vn, vo)
           put == d.add \cup d.modify
           set == {p[1] : p \in put}
           changed == {k \in DOMAIN vn : k \in DOMAIN vo => vn[k] # vo[k]}
<1>1. put = {<<k, vn[k]>> : k \in changed}
  BY DEF DiffOf
<1>2. d.delete = DOMAIN vo \ DOMAIN vn
  BY DEF DiffOf
<1> HIDE DEF d, put
<1>3. set = changed
  <2>1. \A k : <<k, vn[k]>>[1] = k
    OBVIOUS
  <2>2. set \subseteq changed
    BY <1>1, <2>1
  <2>3. changed \subseteq set
    <3> SUFFICES ASSUME NEW k \in changed
                 PROVE  k \in set
      OBVIOUS
    <3>1. <<k, vn[k]>> \in put
      BY <1>1
    <3> QED
      BY <2>1, <3>1
  <2> QED
    BY <2>2, <2>3
<1>4. (DOMAIN vo \ d.delete) \cup set = DOMAIN vn
  BY <1>2, <1>3
<1>5. \A k \in changed : (CHOOSE p \in put : p[1] = k) = <<k, vn[k]>>
  <2> SUFFICES ASSUME NEW k \in changed
               PROVE  (CHOOSE p \in put : p[1] = k) = <<k, vn[k]>>
    OBVIOUS
  <2>1. <<k, vn[k]>> \in put /\ <<k, vn[k]>>[1] = k
    BY <1>1
  <2>2. \A p \in put : p[1] = k => p = <<k, vn[k]>>
    BY <1>1
  <2> QED
    BY <2>1, <2>2
<1> HIDE DEF changed, set
<1>6. \A k \in DOMAIN vn :
        (IF k \in set THEN (CHOOSE p \in put : p[1] = k)[2] ELSE vo[k]) = vn[k]
  <2> SUFFICES ASSUME NEW k \in DOMAIN vn
               PROVE  (IF k \in set THEN (CHOOSE p \in put : p[1] = k)[2] ELSE vo[k]) = vn[k]
    OBVIOUS
  <2>1. CASE k \in set
    <3>1. (CHOOSE p \in put : p[1] = k) = <<k, vn[k]>>
      BY <1>3, <1>5, <2>1
    <3>2. <<k, vn[k]>>[2] = vn[k]
      OBVIOUS
    <3> QED
      BY <2>1, <3>1, <3>2
  <2>2. CASE k \notin set
    BY <1>3, <2>2 DEF changed
  <2> QED
    BY <2>1, <2>2
<1>7. Applied(vo, d) = [k \in (DOMAIN vo \ d.delete) \cup set |->
                          IF k \in set THEN (CHOOSE p \in put : p[1] = k)[2] ELSE vo[k]]
  BY DEF Applied, put, set
<1> HIDE DEF Applied
<1>8. Applied(vo, d) = [k \in DOMAIN vn |-> vn[k]]
  BY <1>4, <1>6, <1>7
<1> QED
  BY <1>8 DEF d

-----------------------------------------------------------------------------
(***************************************************************************)
(* The theorems.                                                           *)
(***************************************************************************)

LEMMA DiffInvariant == DiffSpec => []DiffInv
BY InitInv, NextInv, PTL DEF DiffSpec

(***************************************************************************)
(* At every turn of the loop, over results of any size, the message holds  *)
(* the changes between the rows passed.                                    *)
(***************************************************************************)
THEOREM LoopKeepsInvariant == DiffSpec => []LoopInvariant
<1>1. DiffInv => LoopInvariant
  BY CollectedIsDiff DEF LoopInvariant, DiffInv, ApartInv
<1> QED
  BY <1>1, DiffInvariant, PTL

(***************************************************************************)
(* The page that applies the message shows the new result, and the message *)
(* is empty exactly when nothing changed.                                  *)
(***************************************************************************)
THEOREM DiffIsAlwaysRight == DiffSpec => []DiffIsRight
<1>1. ASSUME DiffInv
      PROVE  DiffIsRight
  <2> SUFFICES ASSUME Finished
               PROVE  /\ Applied(ViewOf(old), AsChanges(diff)) = ViewOf(new)
                      /\ AsChanges(diff) = NoChange <=> old = new
    BY DEF DiffIsRight
  <2>1. /\ old \in Vectors /\ new \in Vectors /\ Len(old) \in Nat /\ Len(new) \in Nat
        /\ i - 1 = Len(old) /\ j - 1 = Len(new)
    BY <1>1, RowFacts DEF Finished, MoreOld, MoreNew
  <2>2. SubSeq(old, 1, Len(old)) = old /\ SubSeq(new, 1, Len(new)) = new
    BY <2>1, VectorRows
  <2>3. AsChanges(diff) = DiffOf(ViewOf(new), ViewOf(old))
    BY <1>1, <2>1, <2>2, CollectedIsDiff
  <2>4. ViewOf(new) = [k \in DOMAIN ViewOf(new) |-> ViewOf(new)[k]]
    BY DEF ViewOf
  <2>5. Applied(ViewOf(old), AsChanges(diff)) = ViewOf(new)
    BY <2>3, <2>4, DiffApplies
  <2>6. ASSUME old = new
        PROVE  AsChanges(diff) = NoChange
    BY <2>3, <2>6 DEF DiffOf, NoChange
  <2>7. ASSUME AsChanges(diff) = NoChange
        PROVE  old = new
    <3>1. Range(diff.add) = {} /\ Range(diff.modify) = {} /\ Range(diff.delete) = {}
      BY <2>7 DEF AsChanges, NoChange
    <3>2. diff = [modify |-> << >>, add |-> << >>, delete |-> << >>]
      <4>1. diff.add = << >> /\ diff.modify = << >> /\ diff.delete = << >>
        BY <1>1, <3>1, EmptyRange, DiffFacts
      <4> QED
        BY <1>1, <4>1, DiffFacts
    <3>3. i = j /\ \A m \in 1 .. (i - 1) : old[m] = new[m]
      BY <1>1, <3>2 DEF DiffInv, SilentInv
    <3>4. Len(old) = Len(new) /\ \A m \in 1 .. Len(old) : old[m] = new[m]
      BY <2>1, <3>3
    <3>5. old \in Seq(Keys \X Values) /\ new \in Seq(Keys \X Values)
      BY <2>1, VectorRows
    <3> QED
      BY <3>4, <3>5
  <2> QED
    BY <2>5, <2>6, <2>7
<1> QED
  BY <1>1, DiffInvariant, PTL
=============================================================================
