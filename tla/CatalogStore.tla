------------------------------ MODULE CatalogStore ------------------------------
(***************************************************************************)
(* The shared Parquet Catalog: series of bars and factor rows, one lock    *)
(* file and one marker.  Writers are processes or threads (the daily       *)
(* input, the import and fetch scripts); readers are the node's catalog    *)
(* thread, the web and backtests.  flock is the operating system's: it is  *)
(* released when its holder dies.  Whoever cannot have it within 50 ms     *)
(* gives up and changes nothing.                                           *)
(*                                                                         *)
(* Writing and deleting the files of a series (NautilusTrader's            *)
(* ParquetDataCatalog) may fail half way, which leaves the series torn.    *)
(* A step is one such call or one change of marker and lock; nested locks  *)
(* of the same thread are reentrant and do nothing.                        *)
(***************************************************************************)
EXTENDS Naturals

CONSTANTS
    Series, Writers, Readers,
    MaxFaults,  \* bound: failed calls, killed processes
    None

Torn == "torn"

ASSUME CatalogAssumption ==
    /\ MaxFaults \in Nat
    /\ None \notin Writers
    /\ Torn \notin Writers \cup {None}

VARIABLES
    disk,     \* publications each series is made of; with Torn among them, a half of one
    marker,   \* .catalog-writing: "none", "progress" or "failed"
    writer,   \* holder of the exclusive lock
    sharers,  \* readers with the shared lock
    job,      \* of the writer that holds the lock
    asked,    \* series each reader is reading under its lock
    got,      \* what it has read of them: a function
    answers,  \* its last complete answer
    whole,    \* history: the disk when the marker was last taken away
    faults

files   == <<disk, marker>>
queries == <<asked, got, answers>>
vars    == <<files, writer, sharers, job, queries, whole, faults>>

Start == [s \in Series |-> {None}]
Nothing == [s \in {} |-> {}]

\* Step of the call in hand; old is what replace has read before it deletes.
NoJob == [step |-> "none", mode |-> "none", group |-> {}, todo |-> {}, old |-> Start]

Init ==
    /\ disk = Start /\ whole = Start
    /\ marker = "none" /\ writer = None /\ sharers = {}
    /\ job = NoJob
    /\ asked = [r \in Readers |-> {}] /\ got = [r \in Readers |-> Nothing]
    /\ answers = [r \in Readers |-> None]
    /\ faults = 0

Fault == faults < MaxFaults /\ faults' = faults + 1

-----------------------------------------------------------------------------
(* catalog_lock, exclusive.                                                 *)

\* A marker that is still there stops every writer and reader.
Begin(w, mode, group) ==
    /\ writer = None /\ sharers = {} /\ marker = "none" /\ group # {}
    /\ writer' = w /\ marker' = "progress"
    /\ job' = [step |-> IF mode = "replace" THEN "delete" ELSE "write",
               mode |-> mode, group |-> group, todo |-> group, old |-> disk]
    /\ UNCHANGED <<disk, sharers, queries, whole, faults>>

\* Success, or an exception on its way out: only the own marker is taken away.
Leave ==
    /\ writer # None /\ job.step = "leave"
    /\ marker' = IF marker = "progress" THEN "none" ELSE marker
    /\ whole' = IF marker = "progress" THEN disk ELSE whole
    /\ writer' = None /\ job' = NoJob
    /\ UNCHANGED <<disk, sharers, queries, faults>>

Kill ==
    /\ writer # None /\ Fault
    /\ writer' = None /\ job' = NoJob
    /\ \E s \in Series : disk' = [disk EXCEPT ![s] =
                                    IF s \in job.todo /\ job.step # "leave" THEN {Torn} ELSE @]
    /\ UNCHANGED <<marker, sharers, queries, whole>>

-----------------------------------------------------------------------------
(* append_new_bars, replace_bars, replace_bar_range and the factor rows.    *)

\* The step after a series is dealt with.
Onward(s, after) ==
    job' = IF job.todo # {s} THEN [job EXCEPT !.todo = @ \ {s}]
           ELSE [job EXCEPT !.step = after, !.todo = IF after = "leave" THEN {} ELSE job.group]

Delete(s) ==
    /\ job.step = "delete" /\ s \in job.todo
    /\ disk' = [disk EXCEPT ![s] = {}]
    /\ Onward(s, "write")
    /\ UNCHANGED <<marker, writer, sharers, queries, whole, faults>>

Write(s) ==
    /\ job.step = "write" /\ s \in job.todo
    /\ disk' = [disk EXCEPT ![s] = @ \cup {writer}]
    /\ Onward(s, "leave")
    /\ UNCHANGED <<marker, writer, sharers, queries, whole, faults>>

\* (mutant) what was not reached is taken for whole
ToUndoReached == job.todo

\* Every series of the group is restored, those not reached yet too.
ToUndo == job.group

\* (mutant) the underlying call does not mark its failure
MarkSilently == "progress"

\* The call that failed marks it; so does the handler of replace.
Mark == "failed"

CallFails(s) ==
    /\ job.step \in {"delete", "write"} /\ s \in job.todo /\ Fault
    /\ \E c \in {disk[s], {Torn}} : disk' = [disk EXCEPT ![s] = c]
    /\ marker' = Mark
    /\ job' = IF job.mode = "replace" THEN [job EXCEPT !.step = "undo", !.todo = ToUndo]
              ELSE [job EXCEPT !.step = "leave", !.todo = {}]
    /\ UNCHANGED <<writer, sharers, queries, whole>>

\* Any other exception in the loop of an append, as of a failed read of a boundary.
GiveUp ==
    /\ job.step = "write" /\ job.mode = "append" /\ Fault
    /\ job' = [job EXCEPT !.step = "leave", !.todo = {}]
    /\ UNCHANGED <<files, writer, sharers, queries, whole>>

\* The old series come back; only with the last of them the marker may be taken away.
Undo(s) ==
    /\ job.step = "undo" /\ s \in job.todo
    /\ disk' = [disk EXCEPT ![s] = job.old[s]]
    /\ marker' = IF job.todo = {s} THEN "progress" ELSE marker
    /\ Onward(s, "leave")
    /\ UNCHANGED <<writer, sharers, queries, whole, faults>>

UndoFails(s) ==
    /\ job.step = "undo" /\ s \in job.todo /\ Fault
    /\ disk' = [disk EXCEPT ![s] = {Torn}]
    /\ marker' = "failed"
    /\ job' = [job EXCEPT !.step = "leave", !.todo = {}]
    /\ UNCHANGED <<writer, sharers, queries, whole>>

\* Ctrl-C.  KeyboardInterrupt is no Exception: the handlers are passed over, the lock's cleanup runs.
Interrupt ==
    /\ writer # None /\ job.step # "leave"
    /\ \E s \in job.todo, torn \in BOOLEAN :
          disk' = [disk EXCEPT ![s] = IF torn THEN {Torn} ELSE @]
    /\ job' = [job EXCEPT !.step = "leave", !.todo = {}]
    /\ UNCHANGED <<marker, writer, sharers, queries, whole, faults>>

-----------------------------------------------------------------------------
(* A reader: one query, or several under one lock.                          *)

\* (mutant) the files are read without the lock
HoldNothing(r) == UNCHANGED sharers

HoldShared(r) == sharers' = sharers \cup {r}

Ask(r, series) ==
    /\ asked[r] = {} /\ series # {}
    /\ writer = None /\ marker = "none"
    /\ HoldShared(r)
    /\ asked' = [asked EXCEPT ![r] = series]
    /\ got' = [got EXCEPT ![r] = Nothing]
    /\ UNCHANGED <<files, writer, job, answers, whole, faults>>

Read(r, s) ==
    /\ s \in asked[r] \ DOMAIN got[r]
    /\ got' = [got EXCEPT ![r] = [t \in DOMAIN got[r] \cup {s} |->
                                   IF t = s THEN disk[s] ELSE got[r][t]]]
    /\ UNCHANGED <<files, writer, sharers, job, asked, answers, whole, faults>>

Answer(r) ==
    /\ asked[r] # {} /\ DOMAIN got[r] = asked[r]
    /\ answers' = [answers EXCEPT ![r] = got[r]]
    /\ asked' = [asked EXCEPT ![r] = {}]
    /\ sharers' = sharers \ {r}
    /\ UNCHANGED <<files, writer, job, got, whole, faults>>

Next ==
    \/ \E w \in Writers, mode \in {"replace", "append"}, group \in SUBSET Series :
          Begin(w, mode, group)
    \/ \E s \in Series : Delete(s) \/ Write(s) \/ CallFails(s) \/ Undo(s) \/ UndoFails(s)
    \/ GiveUp \/ Leave \/ Kill
    \/ \E r \in Readers :
          \/ \E series \in SUBSET Series : Ask(r, series)
          \/ \E s \in Series : Read(r, s)
          \/ Answer(r)

Spec == Init /\ [][Next]_vars

\* The same with somebody pressing Ctrl-C.
InterruptedSpec == Init /\ [][Next \/ Interrupt]_vars

-----------------------------------------------------------------------------
(* Properties.                                                              *)

FilesOK ==
    /\ disk \in [Series -> SUBSET (Writers \cup {None, Torn})]
    /\ whole \in [Series -> SUBSET (Writers \cup {None, Torn})]
    /\ marker \in {"none", "progress", "failed"}
    /\ writer \in Writers \cup {None} /\ sharers \subseteq Readers
    /\ faults \in 0..MaxFaults

JobOK ==
    /\ job \in [step : {"none", "delete", "write", "undo", "leave"},
                mode : {"none", "replace", "append"},
                group : SUBSET Series, todo : SUBSET Series,
                old : [Series -> SUBSET (Writers \cup {None, Torn})]]
    /\ job.todo \subseteq job.group
    /\ job.step = "leave" => job.todo = {}

QueriesOK ==
    /\ asked \in [Readers -> SUBSET Series]
    /\ \A r \in Readers : DOMAIN got[r] \subseteq Series
    /\ DOMAIN got = Readers /\ DOMAIN answers = Readers

\* Every variable keeps the shape the code gives it.
TypeOK == FilesOK /\ JobOK /\ QueriesOK

\* A Catalog that nobody writes and no marker blocks holds complete series only: none
\* deleted, none half written, whatever call failed and whoever was killed.  "A writer
\* that ends abnormally leaves .catalog-writing behind" (docs/reference/
\* factor-integration.md:332).
HealthyIsWhole ==
    writer = None /\ marker = "none"
        => \A s \in Series : disk[s] # {} /\ Torn \notin disk[s]

\* Readers see publications as wholes, or nothing: no group of series half replaced, no
\* series between its deletion and its restoration, no answer out of two publications.
Promise == INSTANCE CatalogPromise WITH
    content <- whole,
    blocked <- writer = None /\ marker # "none"

CatalogSpec == Promise!Spec
================================================================================
