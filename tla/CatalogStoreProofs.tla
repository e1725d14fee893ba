--------------------------- MODULE CatalogStoreProofs ---------------------------
(***************************************************************************)
(* Proofs about CatalogStore, for a program that nobody interrupts with    *)
(* Ctrl-C; the run of CatalogInterrupt.cfg shows what happens otherwise.   *)
(***************************************************************************)
EXTENDS CatalogStore, TLAPS

Contents == SUBSET (Writers \cup {None, Torn})

\* The disk while w replaces, or extends, the series of a group.
Replaced(w, group, disk0) == [s \in Series |-> IF s \in group THEN {w} ELSE disk0[s]]
Extended(w, group, disk0) == [s \in Series |-> IF s \in group THEN disk0[s] \cup {w} ELSE disk0[s]]

\* What was there when the marker was last taken away is complete, and still there.
WholeInv ==
    /\ \A s \in Series : whole[s] # {} /\ Torn \notin whole[s]
    /\ writer = None /\ marker = "none" => disk = whole

\* The writer is alone and the marker stands; it remembers what there was.
WriterInv ==
    /\ writer = None <=> job.step = "none"
    /\ writer # None => sharers = {} /\ marker # "none" /\ job.old = whole
    /\ job.step = "undo" => marker = "failed"
    /\ job.step \in {"delete", "write"} => marker = "progress"

\* How far the call in hand has come.
DiskInv ==
    /\ job.step = "delete" =>
          /\ job.mode = "replace"
          /\ disk = [s \in Series |-> IF s \in job.group \ job.todo THEN {} ELSE whole[s]]
    /\ job.step = "write" /\ job.mode = "replace" =>
          disk = [s \in Series |-> IF s \in job.todo THEN {}
                                   ELSE IF s \in job.group THEN {writer} ELSE whole[s]]
    /\ job.step = "write" /\ job.mode # "replace" =>
          disk = Extended(writer, job.group \ job.todo, whole)
    /\ job.step = "undo" => \A s \in Series \ job.todo : disk[s] = whole[s]
    /\ job.step = "leave" /\ marker = "progress" =>
          \E group \in SUBSET Series :
             disk = Replaced(writer, group, whole) \/ disk = Extended(writer, group, whole)

\* A reader under the lock keeps every writer out, and what it has read is still so.
ReaderInv ==
    /\ sharers # {} => writer = None /\ marker = "none"
    /\ \A r \in Readers : asked[r] # {} =>
          /\ r \in sharers
          /\ got[r] = [s \in DOMAIN got[r] |-> disk[s]]

StoreInv == TypeOK /\ WholeInv /\ WriterInv /\ DiskInv /\ ReaderInv
-----------------------------------------------------------------------------
(* Types.                                                                   *)

LEMMA TypeStep == TypeOK /\ [Next]_vars => TypeOK'
<1> SUFFICES ASSUME TypeOK, [Next]_vars PROVE TypeOK'
  OBVIOUS
<1> USE DEF TypeOK, FilesOK, JobOK, QueriesOK
<1>1. ASSUME NEW w \in Writers, NEW mode \in {"replace", "append"},
             NEW group \in SUBSET Series, Begin(w, mode, group)
      PROVE  TypeOK'
  BY <1>1 DEF Begin, queries
<1>2. ASSUME NEW s \in Series, Delete(s) PROVE TypeOK'
  BY <1>2 DEF Delete, Onward, queries
<1>3. ASSUME NEW s \in Series, Write(s) PROVE TypeOK'
  BY <1>3 DEF Write, Onward, queries
<1>4. ASSUME NEW s \in Series, CallFails(s) PROVE TypeOK'
  <2>1. FilesOK'
    <3>1. PICK c \in {disk[s], {Torn}} : disk' = [disk EXCEPT ![s] = c]
      BY <1>4 DEF CallFails
    <3>2. disk' \in [Series -> Contents]
      BY <3>1 DEF Contents
    <3>3. QED
      BY <1>4, <3>2, CatalogAssumption DEF CallFails, Fault, Mark, Contents
  <2>2. JobOK'
    <3>1. CASE job.mode = "replace"
      BY <1>4, <3>1 DEF CallFails, ToUndo
    <3>2. CASE job.mode # "replace"
      BY <1>4, <3>2 DEF CallFails
    <3>3. QED
      BY <3>1, <3>2
  <2>3. QED
    BY <1>4, <2>1, <2>2 DEF CallFails, queries
<1>5. ASSUME NEW s \in Series, Undo(s) PROVE TypeOK'
  BY <1>5 DEF Undo, Onward, queries
<1>6. ASSUME NEW s \in Series, UndoFails(s) PROVE TypeOK'
  <2>1. FilesOK'
    BY <1>6, CatalogAssumption DEF UndoFails, Fault
  <2>2. JobOK'
    BY <1>6 DEF UndoFails
  <2>3. QED
    BY <1>6, <2>1, <2>2 DEF UndoFails, queries
<1>7. CASE GiveUp
  <2>1. FilesOK'
    BY <1>7, CatalogAssumption DEF GiveUp, Fault, files
  <2>2. JobOK'
    BY <1>7 DEF GiveUp
  <2>3. QED
    BY <1>7, <2>1, <2>2 DEF GiveUp, queries
<1>8. CASE Leave
  BY <1>8 DEF Leave, queries, NoJob, Start
<1>9. CASE Kill
  BY <1>9, CatalogAssumption DEF Kill, Fault, queries, NoJob, Start
<1>10. ASSUME NEW r \in Readers, NEW series \in SUBSET Series, Ask(r, series) PROVE TypeOK'
  BY <1>10 DEF Ask, HoldShared, files, Nothing
<1>11. ASSUME NEW r \in Readers, NEW s \in Series, Read(r, s) PROVE TypeOK'
  BY <1>11 DEF Read, files
<1>12. ASSUME NEW r \in Readers, Answer(r) PROVE TypeOK'
  BY <1>12 DEF Answer, files
<1>13. CASE UNCHANGED vars
  BY <1>13 DEF vars, files, queries
<1>14. QED
  BY <1>1, <1>2, <1>3, <1>4, <1>5, <1>6, <1>7, <1>8, <1>9, <1>10, <1>11, <1>12, <1>13
  DEF Next

\* Every variable of the store keeps its shape.
THEOREM CatalogTypeCorrect == Spec => []TypeOK
<1>1. Init => TypeOK
  BY CatalogAssumption DEF Init, TypeOK, FilesOK, JobOK, QueriesOK, Start, Nothing, NoJob
<1>2. QED
  BY <1>1, TypeStep, PTL DEF Spec

-----------------------------------------------------------------------------
(* The invariant of the store.                                              *)

LEMMA StoreInit == Init => StoreInv
<1> SUFFICES ASSUME Init PROVE StoreInv
  OBVIOUS
<1>1. TypeOK
  BY CatalogAssumption DEF Init, TypeOK, FilesOK, JobOK, QueriesOK, Start, Nothing, NoJob
<1>2. WholeInv /\ WriterInv /\ DiskInv /\ ReaderInv
  BY CatalogAssumption DEF Init, WholeInv, WriterInv, DiskInv, ReaderInv, Start, Nothing, NoJob
<1>3. QED
  BY <1>1, <1>2 DEF StoreInv

LEMMA WholeInvStep ==
    ASSUME StoreInv, Next
    PROVE  WholeInv'
<1> USE CatalogAssumption DEF StoreInv, TypeOK, FilesOK, JobOK, QueriesOK
<1>1. ASSUME NEW w \in Writers, NEW mode \in {"replace", "append"},
               NEW group \in SUBSET Series, Begin(w, mode, group)
      PROVE  WholeInv'
  BY <1>1 DEF Begin, queries, WholeInv, WriterInv, DiskInv, ReaderInv
<1>2. ASSUME NEW s \in Series, Delete(s) PROVE WholeInv'
  BY <1>2 DEF Delete, Onward, queries, WholeInv, WriterInv, DiskInv, ReaderInv
<1>3. ASSUME NEW s \in Series, Write(s) PROVE WholeInv'
  BY <1>3 DEF Write, Onward, queries, WholeInv, WriterInv, DiskInv, ReaderInv
<1>4. ASSUME NEW s \in Series, CallFails(s) PROVE WholeInv'
  BY <1>4 DEF CallFails, Mark, ToUndo, queries, WholeInv, WriterInv, DiskInv, ReaderInv
<1>5. ASSUME NEW s \in Series, Undo(s) PROVE WholeInv'
  BY <1>5 DEF Undo, Onward, queries, WholeInv, WriterInv, DiskInv, ReaderInv
<1>6. ASSUME NEW s \in Series, UndoFails(s) PROVE WholeInv'
  BY <1>6 DEF UndoFails, queries, WholeInv, WriterInv, DiskInv, ReaderInv
<1>7. CASE GiveUp
  BY <1>7 DEF GiveUp, files, queries, WholeInv, WriterInv, DiskInv, ReaderInv
<1>8. CASE Leave
  <2>1. CASE marker = "progress"
    <3>1. PICK group \in SUBSET Series :
            disk = Replaced(writer, group, whole) \/ disk = Extended(writer, group, whole)
      BY <1>8, <2>1 DEF Leave, DiskInv
    <3>2. \A s \in Series : disk[s] # {} /\ Torn \notin disk[s]
      BY <1>8, <3>1 DEF Leave, WholeInv, Replaced, Extended
    <3>3. QED
      BY <1>8, <2>1, <3>2 DEF Leave, WholeInv
  <2>2. CASE marker # "progress"
    BY <1>8, <2>2 DEF Leave, WholeInv, WriterInv
  <2>3. QED
    BY <2>1, <2>2
<1>9. CASE Kill
  BY <1>9 DEF Kill, NoJob, queries, WholeInv, WriterInv, DiskInv, ReaderInv
<1>10. ASSUME NEW r \in Readers, NEW series \in SUBSET Series, Ask(r, series)
      PROVE  WholeInv'
  BY <1>10 DEF Ask, HoldShared, files, queries, WholeInv, WriterInv, DiskInv, ReaderInv
<1>11. ASSUME NEW r \in Readers, NEW s \in Series, Read(r, s)
      PROVE  WholeInv'
  BY <1>11 DEF Read, files, queries, WholeInv, WriterInv, DiskInv, ReaderInv
<1>12. ASSUME NEW r \in Readers, Answer(r) PROVE WholeInv'
  BY <1>12 DEF Answer, files, queries, WholeInv, WriterInv, DiskInv, ReaderInv
<1>13. QED
  BY <1>1, <1>2, <1>3, <1>4, <1>5, <1>6, <1>7, <1>8, <1>9, <1>10, <1>11, <1>12 DEF Next

LEMMA WriterInvStep ==
    ASSUME StoreInv, Next
    PROVE  WriterInv'
<1> USE CatalogAssumption DEF StoreInv, TypeOK, FilesOK, JobOK, QueriesOK
<1>1. ASSUME NEW w \in Writers, NEW mode \in {"replace", "append"},
               NEW group \in SUBSET Series, Begin(w, mode, group)
      PROVE  WriterInv'
  BY <1>1 DEF Begin, queries, WholeInv, WriterInv, DiskInv, ReaderInv
<1>2. ASSUME NEW s \in Series, Delete(s) PROVE WriterInv'
  BY <1>2 DEF Delete, Onward, queries, WholeInv, WriterInv, DiskInv, ReaderInv
<1>3. ASSUME NEW s \in Series, Write(s) PROVE WriterInv'
  BY <1>3 DEF Write, Onward, queries, WholeInv, WriterInv, DiskInv, ReaderInv
<1>4. ASSUME NEW s \in Series, CallFails(s) PROVE WriterInv'
  BY <1>4 DEF CallFails, Mark, ToUndo, queries, WholeInv, WriterInv, DiskInv, ReaderInv
<1>5. ASSUME NEW s \in Series, Undo(s) PROVE WriterInv'
  BY <1>5 DEF Undo, Onward, queries, WholeInv, WriterInv, DiskInv, ReaderInv
<1>6. ASSUME NEW s \in Series, UndoFails(s) PROVE WriterInv'
  BY <1>6 DEF UndoFails, queries, WholeInv, WriterInv, DiskInv, ReaderInv
<1>7. CASE GiveUp
  BY <1>7 DEF GiveUp, files, queries, WholeInv, WriterInv, DiskInv, ReaderInv
<1>8. CASE Leave
  BY <1>8 DEF Leave, NoJob, queries, WholeInv, WriterInv, DiskInv, ReaderInv
<1>9. CASE Kill
  BY <1>9 DEF Kill, NoJob, queries, WholeInv, WriterInv, DiskInv, ReaderInv
<1>10. ASSUME NEW r \in Readers, NEW series \in SUBSET Series, Ask(r, series)
      PROVE  WriterInv'
  BY <1>10 DEF Ask, HoldShared, files, queries, WholeInv, WriterInv, DiskInv, ReaderInv
<1>11. ASSUME NEW r \in Readers, NEW s \in Series, Read(r, s)
      PROVE  WriterInv'
  BY <1>11 DEF Read, files, queries, WholeInv, WriterInv, DiskInv, ReaderInv
<1>12. ASSUME NEW r \in Readers, Answer(r) PROVE WriterInv'
  BY <1>12 DEF Answer, files, queries, WholeInv, WriterInv, DiskInv, ReaderInv
<1>13. QED
  BY <1>1, <1>2, <1>3, <1>4, <1>5, <1>6, <1>7, <1>8, <1>9, <1>10, <1>11, <1>12 DEF Next

LEMMA DiskInvStep ==
    ASSUME StoreInv, Next
    PROVE  DiskInv'
<1> USE CatalogAssumption DEF StoreInv, TypeOK, FilesOK, JobOK, QueriesOK
<1>1. ASSUME NEW w \in Writers, NEW mode \in {"replace", "append"},
               NEW group \in SUBSET Series, Begin(w, mode, group)
      PROVE  DiskInv'
  <2>1. disk = whole /\ disk' = disk /\ whole' = whole /\ writer' = w
    BY <1>1 DEF Begin, WholeInv
  <2>2. CASE mode = "replace"
    <3>1. /\ job'.step = "delete" /\ job'.mode = "replace"
          /\ job'.todo = group /\ job'.group = group
      BY <1>1, <2>2 DEF Begin
    <3>2. QED
      BY <2>1, <3>1 DEF DiskInv
  <2>3. CASE mode = "append"
    <3>1. /\ job'.step = "write" /\ job'.mode = "append"
          /\ job'.todo = group /\ job'.group = group
      BY <1>1, <2>3 DEF Begin
    <3>2. disk = Extended(w, {}, whole)
      BY <2>1 DEF Extended
    <3>3. group \ group = {}
      OBVIOUS
    <3>4. QED
      BY <2>1, <3>1, <3>2, <3>3 DEF DiskInv
  <2>4. QED
    BY <2>2, <2>3
<1>2. ASSUME NEW s \in Series, Delete(s) PROVE DiskInv'
  BY <1>2 DEF Delete, Onward, queries, WholeInv, WriterInv, DiskInv, ReaderInv
<1>3. ASSUME NEW s \in Series, Write(s) PROVE DiskInv'
  <2>1. writer' = writer /\ whole' = whole /\ marker' = marker /\ s \in job.todo
    BY <1>3 DEF Write
  <2>2. CASE job.mode = "replace"
    <3>1. disk' = [q \in Series |-> IF q \in job.todo \ {s} THEN {}
                                   ELSE IF q \in job.group THEN {writer} ELSE whole[q]]
      BY <1>3, <2>2 DEF Write, DiskInv
    <3>2. CASE job.todo # {s}
      <4>1. /\ job'.step = "write" /\ job'.mode = "replace"
            /\ job'.todo = job.todo \ {s} /\ job'.group = job.group
        BY <1>3, <2>2, <3>2 DEF Write, Onward
      <4>2. QED
        BY <2>1, <3>1, <4>1 DEF DiskInv
    <3>3. CASE job.todo = {s}
      <4>1. job'.step = "leave"
        BY <1>3, <3>3 DEF Write, Onward
      <4>2. disk' = Replaced(writer, job.group, whole)
        BY <3>1, <3>3 DEF Replaced
      <4>3. QED
        BY <2>1, <4>1, <4>2 DEF DiskInv
    <3>4. QED
      BY <3>2, <3>3
  <2>3. CASE job.mode # "replace"
    <3>1. disk' = Extended(writer, job.group \ (job.todo \ {s}), whole)
      BY <1>3, <2>3 DEF Write, DiskInv, Extended
    <3>2. CASE job.todo # {s}
      <4>1. /\ job'.step = "write" /\ job'.mode # "replace"
            /\ job'.todo = job.todo \ {s} /\ job'.group = job.group
        BY <1>3, <2>3, <3>2 DEF Write, Onward
      <4>2. QED
        BY <2>1, <3>1, <4>1 DEF DiskInv
    <3>3. CASE job.todo = {s}
      <4>1. job'.step = "leave"
        BY <1>3, <3>3 DEF Write, Onward
      <4>2. job.group \ (job.todo \ {s}) \in SUBSET Series
        OBVIOUS
      <4>3. QED
        BY <2>1, <3>1, <4>1, <4>2 DEF DiskInv
    <3>4. QED
      BY <3>2, <3>3
  <2>4. QED
    BY <2>2, <2>3
<1>4. ASSUME NEW s \in Series, CallFails(s) PROVE DiskInv'
  BY <1>4 DEF CallFails, Mark, ToUndo, queries, WholeInv, WriterInv, DiskInv, ReaderInv
<1>5. ASSUME NEW s \in Series, Undo(s) PROVE DiskInv'
  <2>1. \A q \in Series \ (job.todo \ {s}) : disk'[q] = whole[q]
    BY <1>5 DEF Undo, WriterInv, DiskInv
  <2>2. CASE job.todo # {s}
    <3>1. job'.step = "undo" /\ job'.todo = job.todo \ {s}
      BY <1>5, <2>2 DEF Undo, Onward
    <3>2. QED
      BY <1>5, <2>1, <3>1 DEF Undo, DiskInv
  <2>3. CASE job.todo = {s}
    <3>1. job'.step = "leave"
      BY <1>5, <2>3 DEF Undo, Onward
    <3>2. disk' = Replaced(writer, {}, whole)
      BY <1>5, <2>1, <2>3 DEF Undo, Replaced
    <3>3. QED
      BY <1>5, <3>1, <3>2 DEF Undo, DiskInv
  <2>4. QED
    BY <2>2, <2>3
<1>6. ASSUME NEW s \in Series, UndoFails(s) PROVE DiskInv'
  BY <1>6 DEF UndoFails, queries, WholeInv, WriterInv, DiskInv, ReaderInv
<1>7. CASE GiveUp
  BY <1>7 DEF GiveUp, files, queries, WholeInv, WriterInv, DiskInv, ReaderInv
<1>8. CASE Leave
  BY <1>8 DEF Leave, NoJob, queries, WholeInv, WriterInv, DiskInv, ReaderInv
<1>9. CASE Kill
  BY <1>9 DEF Kill, NoJob, queries, WholeInv, WriterInv, DiskInv, ReaderInv
<1>10. ASSUME NEW r \in Readers, NEW series \in SUBSET Series, Ask(r, series)
      PROVE  DiskInv'
  BY <1>10 DEF Ask, HoldShared, files, queries, WholeInv, WriterInv, DiskInv, ReaderInv
<1>11. ASSUME NEW r \in Readers, NEW s \in Series, Read(r, s)
      PROVE  DiskInv'
  BY <1>11 DEF Read, files, queries, WholeInv, WriterInv, DiskInv, ReaderInv
<1>12. ASSUME NEW r \in Readers, Answer(r) PROVE DiskInv'
  BY <1>12 DEF Answer, files, queries, WholeInv, WriterInv, DiskInv, ReaderInv
<1>13. QED
  BY <1>1, <1>2, <1>3, <1>4, <1>5, <1>6, <1>7, <1>8, <1>9, <1>10, <1>11, <1>12 DEF Next

LEMMA ReaderInvStep ==
    ASSUME StoreInv, Next
    PROVE  ReaderInv'
<1> USE CatalogAssumption DEF StoreInv, TypeOK, FilesOK, JobOK, QueriesOK
<1>1. ASSUME NEW w \in Writers, NEW mode \in {"replace", "append"},
               NEW group \in SUBSET Series, Begin(w, mode, group)
      PROVE  ReaderInv'
  BY <1>1 DEF Begin, queries, WholeInv, WriterInv, DiskInv, ReaderInv
<1>2. ASSUME NEW s \in Series, Delete(s) PROVE ReaderInv'
  BY <1>2 DEF Delete, Onward, queries, WholeInv, WriterInv, DiskInv, ReaderInv
<1>3. ASSUME NEW s \in Series, Write(s) PROVE ReaderInv'
  BY <1>3 DEF Write, Onward, queries, WholeInv, WriterInv, DiskInv, ReaderInv
<1>4. ASSUME NEW s \in Series, CallFails(s) PROVE ReaderInv'
  BY <1>4 DEF CallFails, Mark, ToUndo, queries, WholeInv, WriterInv, DiskInv, ReaderInv
<1>5. ASSUME NEW s \in Series, Undo(s) PROVE ReaderInv'
  BY <1>5 DEF Undo, Onward, queries, WholeInv, WriterInv, DiskInv, ReaderInv
<1>6. ASSUME NEW s \in Series, UndoFails(s) PROVE ReaderInv'
  BY <1>6 DEF UndoFails, queries, WholeInv, WriterInv, DiskInv, ReaderInv
<1>7. CASE GiveUp
  BY <1>7 DEF GiveUp, files, queries, WholeInv, WriterInv, DiskInv, ReaderInv
<1>8. CASE Leave
  BY <1>8 DEF Leave, NoJob, queries, WholeInv, WriterInv, DiskInv, ReaderInv
<1>9. CASE Kill
  BY <1>9 DEF Kill, NoJob, queries, WholeInv, WriterInv, DiskInv, ReaderInv
<1>10. ASSUME NEW r \in Readers, NEW series \in SUBSET Series, Ask(r, series)
      PROVE  ReaderInv'
  <2>1. sharers' # {} => writer' = None /\ marker' = "none"
    BY <1>10 DEF Ask, files, ReaderInv
  <2>2. ASSUME NEW q \in Readers, asked'[q] # {}
        PROVE  q \in sharers' /\ got'[q] = [s \in DOMAIN got'[q] |-> disk'[s]]
    <3>1. CASE q = r
      BY <1>10, <3>1 DEF Ask, HoldShared, files, Nothing
    <3>2. CASE q # r
      BY <1>10, <2>2, <3>2 DEF Ask, HoldShared, files, ReaderInv
    <3>3. QED
      BY <3>1, <3>2
  <2>3. QED
    BY <2>1, <2>2 DEF ReaderInv
<1>11. ASSUME NEW r \in Readers, NEW s \in Series, Read(r, s)
      PROVE  ReaderInv'
  BY <1>11 DEF Read, files, queries, WholeInv, WriterInv, DiskInv, ReaderInv
<1>12. ASSUME NEW r \in Readers, Answer(r) PROVE ReaderInv'
  BY <1>12 DEF Answer, files, queries, WholeInv, WriterInv, DiskInv, ReaderInv
<1>13. QED
  BY <1>1, <1>2, <1>3, <1>4, <1>5, <1>6, <1>7, <1>8, <1>9, <1>10, <1>11, <1>12 DEF Next

\* The conjuncts hold together, for any number of failures and kills.
THEOREM StoreInvariant == Spec => []StoreInv
<1>1. Init => StoreInv
  BY StoreInit
<1>2. StoreInv /\ [Next]_vars => StoreInv'
  <2> SUFFICES ASSUME StoreInv, [Next]_vars PROVE StoreInv'
    OBVIOUS
  <2>1. CASE Next
    <3>1. TypeOK'
      BY <2>1, TypeStep DEF StoreInv
    <3>2. QED
      BY <2>1, <3>1, WholeInvStep, WriterInvStep, DiskInvStep, ReaderInvStep DEF StoreInv
  <2>2. CASE UNCHANGED vars
    BY <2>2 DEF vars, files, queries, StoreInv, TypeOK, FilesOK, JobOK, QueriesOK,
                WholeInv, WriterInv, DiskInv, ReaderInv
  <2>3. QED
    BY <2>1, <2>2
<1>3. QED
  BY <1>1, <1>2, PTL DEF Spec

-----------------------------------------------------------------------------
(* What follows from it.                                                    *)

\* A Catalog that nobody writes and no marker blocks holds complete series only.
THEOREM HealthyCatalogIsWhole == Spec => []HealthyIsWhole
<1>1. StoreInv => HealthyIsWhole
  BY DEF StoreInv, WholeInv, HealthyIsWhole
<1>2. QED
  BY <1>1, StoreInvariant, PTL

\* Publications and answers are atomic: the store with its lock and its marker implements
\* the Catalog that has neither.
THEOREM StoreKeepsPromise == Spec => CatalogSpec
<1> USE DEF Promise!vars
<1>1. Init => Promise!Init
  BY CatalogAssumption DEF Init, Promise!Init, Start
<1>2. StoreInv /\ StoreInv' /\ [Next]_vars => [Promise!Next]_(Promise!vars)
  <2> SUFFICES ASSUME StoreInv, StoreInv', [Next]_vars PROVE [Promise!Next]_(Promise!vars)
    OBVIOUS
  <2> DEFINE blocked == writer = None /\ marker # "none"
  <2>1. CASE Leave
    <3>1. writer \in Writers /\ ~blocked /\ answers' = answers
      BY <2>1 DEF Leave, StoreInv, TypeOK, FilesOK, queries
    <3>2. CASE marker = "progress"
      <4>1. ~blocked'
        BY <2>1, <3>2 DEF Leave
      <4>2. PICK group \in SUBSET Series :
              disk = Replaced(writer, group, whole) \/ disk = Extended(writer, group, whole)
        BY <2>1, <3>2 DEF Leave, StoreInv, DiskInv
      <4>3. whole' = disk
        BY <2>1, <3>2 DEF Leave
      <4>4. Promise!Replace(writer, group) \/ Promise!Extend(writer, group)
        BY <3>1, <4>1, <4>2, <4>3 DEF Promise!Replace, Promise!Extend, Replaced, Extended
      <4>5. QED
        BY <3>1, <4>4 DEF Promise!Next
    <3>3. CASE marker # "progress"
      <4>1. blocked' /\ whole' = whole
        BY <2>1, <3>3 DEF Leave, StoreInv, WriterInv
      <4>2. QED
        BY <3>1, <4>1 DEF Promise!Block, Promise!Next
    <3>4. QED
      BY <3>2, <3>3
  <2>2. CASE Kill
    <3>1. blocked' /\ whole' = whole /\ answers' = answers
      BY <2>2 DEF Kill, StoreInv, WriterInv, queries
    <3>2. QED
      BY <3>1 DEF Promise!Block, Promise!Next
  <2>3. ASSUME NEW r \in Readers, Answer(r) PROVE Promise!Next
    <3>1. disk = whole /\ ~blocked /\ blocked' = blocked /\ whole' = whole
      BY <2>3 DEF Answer, StoreInv, WholeInv, ReaderInv, files
    <3>2. got[r] = [s \in asked[r] |-> whole[s]]
      BY <2>3, <3>1 DEF Answer, StoreInv, ReaderInv
    <3>3. Promise!Answer(r, asked[r])
      BY <2>3, <3>1, <3>2 DEF Answer, Promise!Answer
    <3>4. QED
      BY <3>3 DEF Promise!Next, StoreInv, TypeOK, QueriesOK
  <2>4. ASSUME \/ \E w \in Writers, mode \in {"replace", "append"}, group \in SUBSET Series :
                    Begin(w, mode, group)
               \/ \E s \in Series : Delete(s) \/ Write(s) \/ CallFails(s) \/ Undo(s) \/ UndoFails(s)
               \/ GiveUp
        PROVE  UNCHANGED Promise!vars
    <3>1. blocked' = blocked
      BY <2>4, CatalogAssumption
      DEF Begin, Delete, Write, CallFails, Undo, UndoFails, GiveUp, files,
          StoreInv, WriterInv
    <3>2. whole' = whole /\ answers' = answers
      BY <2>4 DEF Begin, Delete, Write, CallFails, Undo, UndoFails, GiveUp, queries
    <3>3. QED
      BY <3>1, <3>2
  <2>5. ASSUME NEW r \in Readers,
               \/ \E series \in SUBSET Series : Ask(r, series)
               \/ \E s \in Series : Read(r, s)
        PROVE  UNCHANGED Promise!vars
    BY <2>5 DEF Ask, Read, files
  <2>6. CASE UNCHANGED vars
    BY <2>6 DEF vars, files, queries
  <2>7. QED
    BY <2>1, <2>2, <2>3, <2>4, <2>5, <2>6 DEF Next
<1>3. QED
  BY <1>1, <1>2, StoreInvariant, PTL DEF Spec, CatalogSpec, Promise!Spec
================================================================================
