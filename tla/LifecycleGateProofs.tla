------------------------ MODULE LifecycleGateProofs ------------------------
(***************************************************************************)
(* Proofs about the lifecycle gate and about the removal of data that runs *)
(* under it: the gate keeps work and quiescence apart, loses no wake-up    *)
(* and admits one Quiescer at a time, for any finite number of Workers and *)
(* any number of Quiescers; and data is deleted only when no daemon serves *)
(* from it, for any directories, requests, reservations and restarts,      *)
(* whatever fails and whoever dies.                                        *)
(***************************************************************************)
EXTENDS DataRemoval, FiniteSetTheorems, TLAPS

(* The Workers whose increment of `activities' is outstanding.             *)
Counted == {w \in Workers : worker[w] \in {"counted", "leaving", "active"}}

(* The inductive invariant: the counter counts, the flag is set exactly    *)
(* while a Quiescer is past Close, and a Quiescer that found the counter   *)
(* at zero can meet only Workers that have still to read the flag again.   *)
CounterCounts == activities = Cardinality(Counted)

FlagMeansQuiescer == quiescing <=> Holders # {}

Inv == /\ TypeOK
       /\ CounterCounts
       /\ FlagMeansQuiescer
       /\ OneQuiescer
       /\ Exclusion
       /\ NoLostWakeup

(* The counted Workers are a finite set, so the counter is a number, and   *)
(* it is zero exactly when there is none.                                  *)
LEMMA CountedIsFinite ==
    /\ IsFiniteSet(Counted)
    /\ Cardinality(Counted) \in Nat
    /\ Cardinality(Counted) = 0 <=> Counted = {}
<1>1. IsFiniteSet(Counted)
  BY WorkersAssumption, FS_Subset DEF Counted
<1> QED BY <1>1, FS_CardinalityType, FS_EmptySet

(* A step that counts one Worker more adds one to the cardinality.         *)
LEMMA CountOneMore ==
    ASSUME NEW w \in Workers, TypeOK, worker[w] = "admitted",
           worker' = [worker EXCEPT ![w] = "counted"]
    PROVE  Cardinality(Counted') = Cardinality(Counted) + 1
<1>1. Counted' = Counted \cup {w} /\ w \notin Counted
  BY DEF Counted, TypeOK
<1> QED BY <1>1, CountedIsFinite, FS_AddElement

(* A step that takes one Worker back subtracts one.                        *)
LEMMA CountOneLess ==
    ASSUME NEW w \in Workers, NEW to \in {"notifying", "idle"}, TypeOK,
           worker[w] \in {"leaving", "active"},
           worker' = [worker EXCEPT ![w] = to]
    PROVE  Cardinality(Counted') = Cardinality(Counted) - 1
<1>1. Counted' = Counted \ {w} /\ w \in Counted
  BY DEF Counted, TypeOK
<1> QED BY <1>1, CountedIsFinite, FS_RemoveElement

(* Before the first step the gate is open and nobody is counted.           *)
LEMMA InitEstablishes == Init => Inv
<1> SUFFICES ASSUME Init PROVE Inv
  OBVIOUS
<1>1. TypeOK BY DEF Init, TypeOK
<1>2. Counted = {} BY DEF Init, Counted
<1>3. CounterCounts BY <1>2, FS_EmptySet DEF Init, CounterCounts
<1> QED BY <1>1, <1>3
  DEF Init, Inv, FlagMeansQuiescer, Holders, OneQuiescer, Exclusion, NoLostWakeup

(* No step of a Worker disturbs the invariant.                             *)
LEMMA WorkerPreserves ==
    ASSUME Inv, NEW w \in Workers, WorkerStep(w)
    PROVE  Inv'
<1> USE DEF Inv, MoveWorker, Holders
<1>1. CASE Begin(w)
  <2>1. TypeOK' BY <1>1 DEF Begin, TypeOK
  <2>2. Counted' = Counted BY <1>1 DEF Begin, Counted, TypeOK
  <2>3. CounterCounts' BY <1>1, <2>2 DEF Begin, CounterCounts
  <2>4. NoLostWakeup' BY <1>1 DEF Begin, NoLostWakeup, TypeOK
  <2> QED BY <1>1, <2>1, <2>3, <2>4
    DEF Begin, FlagMeansQuiescer, OneQuiescer, Exclusion, TypeOK
<1>2. CASE Count(w)
  <2>1. TypeOK' BY <1>2 DEF Count, TypeOK
  <2>2. CounterCounts' BY <1>2, CountOneMore DEF Count, CounterCounts
  <2>3. NoLostWakeup' BY <1>2 DEF Count, NoLostWakeup, TypeOK
  <2> QED BY <1>2, <2>1, <2>2, <2>3
    DEF Count, FlagMeansQuiescer, OneQuiescer, Exclusion, TypeOK
<1>3. CASE Recheck(w)
  <2>1. TypeOK' BY <1>3 DEF Recheck, TypeOK
  <2>2. Counted' = Counted BY <1>3 DEF Recheck, Counted, TypeOK
  <2>3. CounterCounts' BY <1>3, <2>2 DEF Recheck, CounterCounts
  <2>4. NoLostWakeup' BY <1>3 DEF Recheck, NoLostWakeup, TypeOK
  <2>5. Exclusion'
    BY <1>3 DEF Recheck, Exclusion, FlagMeansQuiescer, TypeOK
  <2> QED BY <1>3, <2>1, <2>3, <2>4, <2>5
    DEF Recheck, FlagMeansQuiescer, OneQuiescer
<1>4. CASE Leave(w)
  <2> DEFINE to == IF activities = 1 THEN "notifying" ELSE "idle"
  <2>1. /\ worker[w] \in {"leaving", "active"}
        /\ worker' = [worker EXCEPT ![w] = to]
        /\ activities' = activities - 1
        /\ UNCHANGED <<quiescing, quiescer, heard>>
    BY <1>4 DEF Leave
  <2>2. to \in {"notifying", "idle"} OBVIOUS
  <2> HIDE DEF to
  <2>3. CounterCounts' BY <2>1, <2>2, CountOneLess DEF CounterCounts
  <2>4. activities # 0 BY <2>1, CountedIsFinite DEF CounterCounts, Counted
  <2>5. TypeOK' BY <2>1, <2>2, <2>4 DEF TypeOK
  <2>6. NoLostWakeup' BY <2>1, <2>4 DEF NoLostWakeup, TypeOK, to
  <2> QED BY <2>1, <2>2, <2>3, <2>5, <2>6
    DEF FlagMeansQuiescer, OneQuiescer, Exclusion, TypeOK
<1>5. CASE Notify(w)
  <2>1. TypeOK' BY <1>5 DEF Notify, TypeOK
  <2>2. Counted' = Counted BY <1>5 DEF Notify, Counted, TypeOK
  <2>3. CounterCounts' BY <1>5, <2>2 DEF Notify, CounterCounts
  <2>4. NoLostWakeup' BY <1>5 DEF Notify, NoLostWakeup, TypeOK
  <2> QED BY <1>5, <2>1, <2>3, <2>4
    DEF Notify, FlagMeansQuiescer, OneQuiescer, Exclusion, TypeOK
<1> QED BY <1>1, <1>2, <1>3, <1>4, <1>5 DEF WorkerStep

(* No step of a Quiescer disturbs the invariant.                           *)
LEMMA QuiescerPreserves ==
    ASSUME Inv, NEW q \in Quiescers, QuiescerStep(q)
    PROVE  Inv'
<1> USE DEF Inv, MoveQuiescer, Holders
<1>1. CASE Close(q)
  <2>1. TypeOK' BY <1>1 DEF Close, TypeOK
  <2>2. Counted' = Counted BY <1>1 DEF Close, Counted
  <2>3. CounterCounts' BY <1>1, <2>2 DEF Close, CounterCounts
  <2> QED BY <1>1, <2>1, <2>3
    DEF Close, FlagMeansQuiescer, OneQuiescer, Exclusion, NoLostWakeup, TypeOK
<1>2. CASE Listen(q)
  <2>1. TypeOK' BY <1>2 DEF Listen, TypeOK
  <2>2. Counted' = Counted BY <1>2 DEF Listen, Counted
  <2>3. CounterCounts' BY <1>2, <2>2 DEF Listen, CounterCounts
  <2> QED BY <1>2, <2>1, <2>3
    DEF Listen, FlagMeansQuiescer, OneQuiescer, Exclusion, NoLostWakeup, TypeOK
<1>3. CASE Check(q)
  <2>1. TypeOK' BY <1>3 DEF Check, TypeOK
  <2>2. Counted' = Counted BY <1>3 DEF Check, Counted
  <2>3. CounterCounts' BY <1>3, <2>2 DEF Check, CounterCounts
  <2>4. activities = 0 => \A w \in Workers : worker[w] # "active"
    BY CountedIsFinite DEF CounterCounts, Counted
  <2>5. Exclusion' BY <1>3, <2>4 DEF Check, Exclusion, TypeOK
  <2>6. NoLostWakeup' BY <1>3 DEF Check, NoLostWakeup, TypeOK
  <2> QED BY <1>3, <2>1, <2>3, <2>5, <2>6
    DEF Check, FlagMeansQuiescer, OneQuiescer, TypeOK
<1>4. CASE Wake(q)
  <2>1. TypeOK' BY <1>4 DEF Wake, TypeOK
  <2>2. Counted' = Counted BY <1>4 DEF Wake, Counted
  <2>3. CounterCounts' BY <1>4, <2>2 DEF Wake, CounterCounts
  <2> QED BY <1>4, <2>1, <2>3
    DEF Wake, FlagMeansQuiescer, OneQuiescer, Exclusion, NoLostWakeup, TypeOK
<1>5. CASE Reopen(q)
  <2>1. TypeOK' BY <1>5 DEF Reopen, TypeOK
  <2>2. Counted' = Counted BY <1>5 DEF Reopen, Counted
  <2>3. CounterCounts' BY <1>5, <2>2 DEF Reopen, CounterCounts
  <2>4. FlagMeansQuiescer'
    BY <1>5 DEF Reopen, FlagMeansQuiescer, OneQuiescer, TypeOK
  <2> QED BY <1>5, <2>1, <2>3, <2>4
    DEF Reopen, OneQuiescer, Exclusion, NoLostWakeup, TypeOK
<1>6. CASE Commit(q)
  <2>1. TypeOK' BY <1>6 DEF Commit, TypeOK
  <2>2. Counted' = Counted BY <1>6 DEF Commit, Counted
  <2>3. CounterCounts' BY <1>6, <2>2 DEF Commit, CounterCounts
  <2> QED BY <1>6, <2>1, <2>3
    DEF Commit, FlagMeansQuiescer, OneQuiescer, Exclusion, NoLostWakeup, TypeOK
<1>7. CASE Announce(q)
  <2>1. TypeOK' BY <1>7 DEF Announce, TypeOK
  <2>2. Counted' = Counted BY <1>7 DEF Announce, Counted
  <2>3. CounterCounts' BY <1>7, <2>2 DEF Announce, CounterCounts
  <2>4. Holders' = Holders BY <1>7 DEF Announce, TypeOK
  <2> QED BY <1>7, <2>1, <2>3, <2>4
    DEF Announce, FlagMeansQuiescer, OneQuiescer, Exclusion, NoLostWakeup, TypeOK
<1> QED BY <1>1, <1>2, <1>3, <1>4, <1>5, <1>6, <1>7 DEF QuiescerStep

(* Nor does a step of anybody else.                                        *)
LEMMA GateRests ==
    ASSUME Inv, UNCHANGED vars
    PROVE  Inv'
<1>1. Counted' = Counted BY DEF Counted, vars
<1> QED BY <1>1
  DEF vars, Inv, TypeOK, CounterCounts, FlagMeansQuiescer, Holders,
      OneQuiescer, Exclusion, NoLostWakeup

(* The invariant is inductive.                                             *)
THEOREM GateInvariance == Spec => []Inv
<1>1. Init => Inv BY InitEstablishes
<1>2. Inv /\ [Next]_vars => Inv'
  <2> SUFFICES ASSUME Inv, [Next]_vars PROVE Inv'
    OBVIOUS
  <2>1. CASE Next BY <2>1, WorkerPreserves, QuiescerPreserves DEF Next
  <2>2. CASE UNCHANGED vars BY <2>2, GateRests
  <2> QED BY <2>1, <2>2
<1> QED BY <1>1, <1>2, PTL DEF Spec

(* While an upgrade or a data removal holds the gate, no request is at     *)
(* work, however many requests race with it.                               *)
THEOREM GateExcludes == Spec => []Exclusion
<1>1. Inv => Exclusion BY DEF Inv
<1> QED BY <1>1, GateInvariance, PTL

(* The last activity to end always wakes the Quiescer that waits for it.   *)
THEOREM GateWakes == Spec => []NoLostWakeup
<1>1. Inv => NoLostWakeup BY DEF Inv
<1> QED BY <1>1, GateInvariance, PTL

(* At most one request holds or is acquiring the closed gate.              *)
THEOREM GateHasOneQuiescer == Spec => []OneQuiescer
<1>1. Inv => OneQuiescer BY DEF Inv
<1> QED BY <1>1, GateInvariance, PTL
----------------------------------------------------------------------------
(* The removal of data.  First, what its invariant speaks of.              *)

(* Where a process removes, past the wait for the daemon, and where it has *)
(* taken the markers of a directory away.                                  *)
Armed == Working \ {"waiting"}
Freeing == {"disown", "rmdir"}
Handling == {"unreserve"} \cup Freeing
Visiting == {"empty"} \cup Handling
Serving == {"up", "stopping"}

(* A directory that the removal is through with, and one it has to visit.  *)
Done(r) == ~Exists(r) \/ (disk[r].checkout /\ disk[r].reserved = 0)
Pending(r) == Exists(r) /\ disk[r].reserved # 0

Entries == [id : Nat, owned : BOOLEAN, reserved : Nat, data : SUBSET Nat,
            audit : BOOLEAN, checkout : BOOLEAN]

Removals == [at : {"none", "starting"} \cup Working, token : Nat, pid : Nat,
             root : Nat, saved : Nat, ids : [RootSet -> Nat]]

RemovalTypeOK ==
    /\ daemon \in {"up", "stopping", "released", "gone", "starting"}
    /\ boots \in Nat \ {0}
    /\ token \in BOOLEAN /\ session \in BOOLEAN
    /\ disk \in [RootSet -> Entries]
    /\ reservations \in 0 .. MaxReservations
    /\ prep \in [Quiescers -> 0 .. HelperStage + 1]
    /\ remover \in [Removers -> Removals]
    /\ \A p \in Removers :
         /\ remover[p].at = "starting" => remover[p].token = p
         /\ remover[p].at \in Visiting => remover[p].root \in DOMAIN Roots
    /\ lease \in [HandoffTokens -> Removers \cup {0}]

(* The token and the Sessions are those of a daemon that serves, and so is *)
(* a request that holds the gate; a reservation is made by one.            *)
BelongsToDaemon ==
    /\ daemon \in Serving => token
    /\ daemon = "released" => ~token
    /\ session => daemon \in Serving
    /\ \A q \in Quiescers :
         /\ quiescer[q] \notin {"idle", "committed"} => daemon \in Serving
         /\ prep[q] > 0 => quiescer[q] = "quiesced" /\ reservations > 0
         /\ quiescer[q] \in {"closing", "checking", "waiting", "quiesced"}
              /\ prep[q] = 0 => reservations < MaxReservations

(* Only the newest reservation is on the disk.                             *)
OneReservation ==
    /\ \A r \in RootSet : disk[r].reserved \in {0, reservations}
    /\ \A r \in RootSet : ~Exists(r) => disk[r].reserved = 0

(* While a daemon serves, the directories are there, and those that its    *)
(* request has come to are reserved.                                       *)
ReservedByRequest ==
    daemon \in Serving =>
        /\ \A r \in RootSet : Exists(r)
        /\ Reserved # {} =>
             \E q \in Quiescers : prep[q] > 1 \/ quiescer[q] = "committed"
        /\ \A q \in Quiescers :
             /\ \A i \in DOMAIN Roots :
                   i < prep[q] => disk[Roots[i]].reserved = reservations
             /\ quiescer[q] = "committed" =>
                   /\ reservations > 0
                   /\ \A r \in RootSet : disk[r].reserved = reservations

(* Whoever removes has the lease of the newest reservation, and it is on   *)
(* the disk unless he is about to remove the directory that had it.        *)
RemoversHold ==
    \A p \in Removers :
        remover[p].at \in Working =>
            /\ reservations > 0
            /\ remover[p].token = reservations
            /\ lease[reservations] = p
            /\ remover[p].at \notin Freeing => Reserved # {}
            /\ remover[p].at \in Armed => ~token

(* The directories are visited in turn.                                    *)
Turns ==
    \A i, j \in DOMAIN Roots : i < j => Done(Roots[i]) \/ Pending(Roots[j])

InTurn ==
    ~token /\ (Reserved # {} \/ \E p \in Removers : remover[p].at \in Working)
        => Turns

(* Where a visit is.                                                       *)
Visits(x) ==
    /\ x.at \in Visiting =>
         /\ x.root \in DOMAIN Roots
         /\ \A i \in DOMAIN Roots : i < x.root => Done(Roots[i])
         /\ \A r \in RootSet : disk[r].id \in {0, x.ids[r]}
    /\ x.at \in Handling =>
         Exists(Roots[x.root]) /\ ~disk[Roots[x.root]].checkout
    /\ x.at \in Freeing =>
         /\ x.saved \in {0, reservations}
         /\ x.saved = 0 => Reserved # {}

VisitsFit == \A p \in Removers : Visits(remover[p])

(* A daemon starts when no removal is under way.                           *)
StartsAlone ==
    daemon = "starting" =>
        /\ Reserved = {}
        /\ \A p \in Removers : remover[p].at \notin Working

(* A removal without old helpers.                                          *)
Orderly ==
    /\ OneReservation /\ ReservedByRequest /\ RemoversHold /\ InTurn
    /\ VisitsFit /\ StartsAlone

(* The inductive invariant.                                                *)
RemovalInv ==
    /\ Inv /\ RemovalTypeOK /\ BelongsToDaemon
    /\ OldHelper \/ Orderly

----------------------------------------------------------------------------
(* What the constants are.                                                 *)
LEMMA RootsAreDistinct ==
    /\ Len(Roots) \in Nat /\ DOMAIN Roots = 1 .. Len(Roots)
    /\ \A i \in DOMAIN Roots : Roots[i] \in RootSet
    /\ \A r \in RootSet : \E i \in DOMAIN Roots : r = Roots[i]
    /\ \A i, j \in DOMAIN Roots : Roots[i] = Roots[j] => i = j
    /\ HandoffTokens = 1 .. MaxReservations
    /\ MaxReservations \in Nat
    /\ 0 \notin Removers
    /\ HandoffTokens \subseteq Removers /\ Quiescers \subseteq Removers
BY RootsAssumption DEF RootSet, Range, IsInjective, HandoffTokens, Removers

(* The writes of a request are counted.                                    *)
LEMMA Writes ==
    /\ HelperStage \in Nat \ {0}
    /\ 0 \in 0 .. HelperStage + 1 /\ 1 \in 0 .. HelperStage + 1
    /\ RemovalTypeOK => \A q \in Quiescers : prep[q] \in Nat
<1>1. HelperStage \in Nat \ {0}
  BY RootsAreDistinct DEF HelperStage
<1> QED BY <1>1 DEF RemovalTypeOK

(* A process that removes nothing.                                         *)
LEMMA IdleIsARemoval ==
    /\ Idle \in Removals /\ Idle.at = "none" /\ Idle.ids \in [RootSet -> Nat]
    /\ Idle.saved = 0
BY DEF Removals, Idle

(* What reservation is found on the disk.                                  *)
LEMMA ReservationFound ==
    /\ Reserved # {} <=> \E r \in RootSet : Pending(r)
    /\ Reserved = {} => Reservation = 0
    /\ OneReservation /\ Reserved # {} =>
         Reservation = reservations /\ reservations # 0
<1>1. Reserved # {} <=> \E r \in RootSet : Pending(r)
  BY DEF Reserved, Pending, Exists
<1>2. OneReservation => Reserved \subseteq {reservations}
  BY DEF OneReservation, Reserved
<1>3. 0 \notin Reserved
  BY DEF Reserved
<1>4. Reserved # {} => Reservation \in Reserved
  BY DEF Reservation
<1> QED BY <1>1, <1>2, <1>3, <1>4 DEF Reservation

(* One process removes at a time, and only when no daemon serves.          *)
LEMMA OneRemover ==
    ASSUME RemovalInv, ~OldHelper, NEW p \in Removers,
           remover[p].at \in Working
    PROVE  /\ Orderly
           /\ \A o \in Removers : remover[o].at \in Working => o = p
           /\ remover[p].at \in Armed =>
                daemon \notin Serving /\ daemon # "starting" /\ ~session
BY DEF RemovalInv, Orderly, RemoversHold, StartsAlone, BelongsToDaemon

(* A directory that is looked at is what it was: nobody wrote into it.     *)
LEMMA SameDisk ==
    ASSUME UNCHANGED disk
    PROVE  /\ Reserved' = Reserved
           /\ \A r \in RootSet : /\ Exists(r)' = Exists(r)
                                 /\ Done(r)' = Done(r)
                                 /\ Pending(r)' = Pending(r)
BY DEF Reserved, Exists, Done, Pending

(* A request holds the gate alone.                                         *)
LEMMA OneRequest ==
    ASSUME RemovalInv, NEW q \in Quiescers,
           quiescer[q] \notin {"idle", "reopened"}
    PROVE  \A o \in Quiescers : o # q =>
             quiescer[o] \in {"idle", "reopened"} /\ prep[o] = 0
BY DEF RemovalInv, Inv, OneQuiescer, Holders, BelongsToDaemon, RemovalTypeOK

----------------------------------------------------------------------------
(* Steps of the daemon and of the gate.                                    *)

(* A step that leaves the removal itself alone.                            *)
LEMMA RemovalRests ==
    ASSUME RemovalInv, hits \subseteq hits',
           UNCHANGED <<token, disk, reservations, remover, lease>>,
           daemon' = "starting" => daemon = "starting",
           daemon' \in Serving =>
              /\ daemon \in Serving /\ prep' = prep
              /\ \A q \in Quiescers :
                    quiescer'[q] = "committed" <=> quiescer[q] = "committed"
    PROVE  OldHelper' \/ Orderly'
<1> SUFFICES ASSUME ~OldHelper' PROVE Orderly'
  OBVIOUS
<1>1. Orderly
  BY DEF OldHelper, RemovalInv
<1>2. OneReservation'
  BY <1>1, SameDisk DEF Orderly, OneReservation
<1>3. ReservedByRequest'
  BY <1>1, SameDisk DEF Orderly, ReservedByRequest
<1>4. RemoversHold'
  BY <1>1, SameDisk DEF Orderly, RemoversHold
<1>5. InTurn'
  BY <1>1, SameDisk, RootsAreDistinct DEF Orderly, InTurn, Turns
<1>6. VisitsFit'
  <2> SUFFICES ASSUME NEW p \in Removers PROVE Visits(remover[p])'
    BY DEF VisitsFit
  <2>1. Visits(remover[p])
    BY <1>1 DEF Orderly, VisitsFit
  <2>2. remover[p].at \in Visiting => Roots[remover[p].root] \in RootSet
    BY <2>1, RootsAreDistinct DEF Visits
  <2> QED BY <2>1, <2>2, SameDisk, RootsAreDistinct DEF Visits, Visiting, Handling
<1>7. StartsAlone'
  BY <1>1, SameDisk DEF Orderly, StartsAlone
<1> QED BY <1>2, <1>3, <1>4, <1>5, <1>6, <1>7 DEF Orderly

(* A step of nothing that matters here.                                    *)
LEMMA NothingHappens ==
    ASSUME RemovalInv, hits \subseteq hits',
           UNCHANGED <<vars, daemon, boots, token, session, disk, reservations,
                       prep, remover, lease>>
    PROVE  RemovalInv'
<1>1. Inv'
  BY GateRests DEF RemovalInv
<1>2. RemovalTypeOK'
  BY DEF RemovalInv, RemovalTypeOK
<1>3. BelongsToDaemon'
  BY DEF RemovalInv, BelongsToDaemon, vars
<1>4. OldHelper' \/ Orderly'
  BY RemovalRests DEF vars
<1> QED BY <1>1, <1>2, <1>3, <1>4 DEF RemovalInv

(* The steps of the gate itself.                                           *)
LEMMA GateStepKeeps ==
    ASSUME RemovalInv, GateStep
    PROVE  RemovalInv'
<1>1. UNCHANGED removal /\ daemon \in Serving
  BY DEF GateStep, Serving
<1>2. Inv'
  BY WorkerPreserves, QuiescerPreserves
     DEF RemovalInv, GateStep, WorkerStep, QuiescerStep
<1>3. RemovalTypeOK'
  BY <1>1 DEF RemovalInv, RemovalTypeOK, removal
<1>4. \A q \in Quiescers :
        /\ quiescer'[q] = "committed" <=> quiescer[q] = "committed"
        /\ quiescer'[q] \in {"closing", "checking", "waiting", "quiesced"} =>
             quiescer[q] \in {"closing", "checking", "waiting", "quiesced"}
        /\ quiescer[q] = "quiesced" => quiescer'[q] = "quiesced"
  BY DEF GateStep, RemovalInv, Inv, TypeOK, Begin, Count, Recheck, Leave, Notify,
         Listen, Check, Wake, Announce, MoveQuiescer
<1>5. BelongsToDaemon'
  BY <1>1, <1>4 DEF RemovalInv, BelongsToDaemon, removal
<1>6. OldHelper' \/ Orderly'
  BY <1>1, <1>4, RemovalRests DEF removal
<1> QED BY <1>2, <1>3, <1>5, <1>6 DEF RemovalInv

(* Sessions come and go, the daemon comes to its end.                      *)
LEMMA DaemonGoesOn ==
    ASSUME RemovalInv,
           \/ \E w \in Workers : LaunchSession(w)
           \/ SessionEnds \/ ShutdownDaemon \/ DaemonExits
    PROVE  RemovalInv'
<1>1. /\ UNCHANGED <<vars, boots, token, disk, prep, reservations, remover,
                     lease, hits>>
      /\ session' \in BOOLEAN
      /\ session' => session \/ daemon' \in Serving
      /\ \/ daemon' = daemon
         \/ daemon = "up" /\ daemon' = "stopping"
         \/ daemon = "released" /\ daemon' = "gone"
  <2>1. CASE \E w \in Workers : LaunchSession(w)
    BY <2>1 DEF LaunchSession, Serving
  <2>2. CASE SessionEnds
    BY <2>2 DEF SessionEnds
  <2>3. CASE ShutdownDaemon
    BY <2>3 DEF ShutdownDaemon, RemovalInv, RemovalTypeOK
  <2>4. CASE DaemonExits
    BY <2>4 DEF DaemonExits, RemovalInv, RemovalTypeOK
  <2> QED BY <2>1, <2>2, <2>3, <2>4
<1>2. Inv'
  BY <1>1, GateRests DEF RemovalInv
<1>3. RemovalTypeOK'
  BY <1>1 DEF RemovalInv, RemovalTypeOK
<1>4. BelongsToDaemon'
  BY <1>1 DEF RemovalInv, BelongsToDaemon, vars, Serving
<1>5. OldHelper' \/ Orderly'
  BY <1>1, RemovalRests DEF vars, Serving
<1> QED BY <1>2, <1>3, <1>4, <1>5 DEF RemovalInv

(* At the end of a daemon every directory is reserved or none.             *)
LEMMA RemoveTokenKeeps ==
    ASSUME RemovalInv, RemoveToken
    PROVE  RemovalInv'
<1>1. /\ UNCHANGED <<vars, boots, disk, prep, reservations, remover, lease, hits>>
      /\ daemon = "stopping" /\ daemon' = "released"
      /\ token' = FALSE /\ session' = FALSE
      /\ \A q \in Quiescers : quiescer[q] \in {"idle", "committed"}
  BY DEF RemoveToken, GateIdle
<1>2. Inv'
  BY <1>1, GateRests DEF RemovalInv
<1>3. RemovalTypeOK'
  BY <1>1 DEF RemovalInv, RemovalTypeOK
<1>4. BelongsToDaemon'
  BY <1>1 DEF RemovalInv, BelongsToDaemon, vars, Serving
<1>5. SUFFICES ASSUME ~OldHelper' PROVE Orderly'
  BY <1>2, <1>3, <1>4 DEF RemovalInv
<1>6. Orderly /\ daemon \in Serving /\ token
  BY <1>1, <1>5 DEF RemovalInv, OldHelper, BelongsToDaemon, Serving
<1>7. OneReservation'
  BY <1>1, <1>6, SameDisk DEF Orderly, OneReservation
<1>8. ReservedByRequest' /\ StartsAlone'
  BY <1>1 DEF ReservedByRequest, StartsAlone, Serving
<1>9. RemoversHold'
  BY <1>1, <1>6, SameDisk DEF Orderly, RemoversHold
<1>10. InTurn'
  <2> SUFFICES ASSUME Reserved # {} \/ \E p \in Removers : remover[p].at \in Working
               PROVE  Turns'
    BY <1>1, SameDisk DEF InTurn
  <2>1. Reserved # {}
    BY <1>6 DEF Orderly, RemoversHold, Working, Armed, Freeing
  <2>2. PICK q \in Quiescers : quiescer[q] = "committed"
    BY <1>1, <1>6, <2>1 DEF Orderly, ReservedByRequest, RemovalInv, RemovalTypeOK,
       BelongsToDaemon
  <2>3. \A r \in RootSet : Pending(r)
    BY <1>6, <2>2 DEF Orderly, ReservedByRequest, Pending, RemovalInv, RemovalTypeOK
  <2> QED BY <1>1, <2>3, SameDisk, RootsAreDistinct DEF Turns
<1>11. VisitsFit'
  BY <1>1, <1>6, RootsAreDistinct DEF Orderly, VisitsFit, Visits, Exists, Done,
     Reserved, RemoversHold, Working, Armed, Visiting, Handling, Freeing
<1> QED BY <1>7, <1>8, <1>9, <1>10, <1>11 DEF Orderly

(* A daemon that is killed forgets its requests.                           *)
LEMMA GateIsForgotten ==
    ASSUME Inv, quiescing' = FALSE, activities' = 0, heard' = heard,
           worker' = [w \in Workers |-> "idle"],
           quiescer' = [q \in Quiescers |-> "idle"]
    PROVE  Inv'
<1>1. Counted' = {}
  BY DEF Counted
<1>2. CounterCounts'
  BY <1>1, FS_EmptySet DEF CounterCounts
<1>3. TypeOK'
  BY DEF Inv, TypeOK
<1> QED BY <1>2, <1>3
  DEF Inv, FlagMeansQuiescer, Holders, OneQuiescer, Exclusion, NoLostWakeup

(* So the invariant survives it.                                           *)
LEMMA KillDaemonKeeps ==
    ASSUME RemovalInv, KillDaemon
    PROVE  RemovalInv'
<1>1. /\ UNCHANGED <<boots, token, disk, reservations, remover, lease>>
      /\ daemon \in Serving /\ daemon' = "gone" /\ session' = FALSE
      /\ prep' = [q \in Quiescers |-> 0]
      /\ quiescer' = [q \in Quiescers |-> "idle"]
      /\ hits \subseteq hits'
  BY DEF KillDaemon, Fault, Serving
<1>2. Inv'
  BY GateIsForgotten DEF KillDaemon, RemovalInv
<1>3. RemovalTypeOK'
  BY <1>1, Writes DEF RemovalInv, RemovalTypeOK, HelperStage
<1>4. BelongsToDaemon'
  BY <1>1 DEF RemovalInv, BelongsToDaemon, Serving
<1>5. OldHelper' \/ Orderly'
  BY <1>1, RemovalRests DEF Serving
<1> QED BY <1>2, <1>3, <1>4, <1>5 DEF RemovalInv

(* Without a reservation nobody removes but who has taken the last one     *)
(* away.                                                                   *)
LEMMA StartDaemonKeeps ==
    ASSUME RemovalInv, StartDaemon
    PROVE  RemovalInv'
<1>1. /\ UNCHANGED <<vars, token, session, disk, prep, reservations, remover, lease>>
      /\ daemon = "gone" /\ daemon' = "starting" /\ boots' = boots + 1
      /\ Reserved = {} /\ hits \subseteq hits'
      /\ (\E p \in Removers : remover[p].at \in Freeing) => "overtaken" \in hits'
  BY DEF StartDaemon, Freeing
<1>2. Inv'
  BY <1>1, GateRests DEF RemovalInv
<1>3. RemovalTypeOK'
  BY <1>1 DEF RemovalInv, RemovalTypeOK
<1>4. BelongsToDaemon'
  BY <1>1 DEF RemovalInv, BelongsToDaemon, vars, Serving
<1>5. SUFFICES ASSUME ~OldHelper' PROVE Orderly'
  BY <1>2, <1>3, <1>4 DEF RemovalInv
<1>6. Orderly
  BY <1>1, <1>5 DEF RemovalInv, OldHelper
<1>7. \A p \in Removers : remover[p].at \notin Working
  BY <1>1, <1>5, <1>6 DEF OldHelper, Orderly, RemoversHold
<1>8. OneReservation'
  BY <1>1, <1>6, SameDisk DEF Orderly, OneReservation
<1>9. ReservedByRequest'
  BY <1>1 DEF ReservedByRequest, Serving
<1>10. RemoversHold' /\ InTurn' /\ StartsAlone'
  BY <1>1, <1>7, SameDisk DEF RemoversHold, InTurn, StartsAlone
<1>11. VisitsFit'
  BY <1>1, <1>7 DEF VisitsFit, Visits, Working, Visiting, Handling, Freeing
<1> QED BY <1>8, <1>9, <1>10, <1>11 DEF Orderly

(* A daemon that serves finds nothing reserved, and makes the directories. *)
LEMMA ServeKeeps ==
    ASSUME RemovalInv, Serve
    PROVE  RemovalInv'
<1>1. /\ UNCHANGED <<boots, session, prep, reservations, remover, lease, hits>>
      /\ daemon = "starting" /\ daemon' = "up" /\ token' = TRUE
      /\ quiescer' = [q \in Quiescers |-> "idle"]
      /\ \A q \in Quiescers : prep[q] = 0
  <2>1. daemon = "starting"
    BY DEF Serve
  <2>2. \A q \in Quiescers : prep[q] = 0
    BY <2>1, Writes DEF RemovalInv, BelongsToDaemon, Serving
  <2> QED BY <2>2 DEF Serve
<1>2. Inv'
  BY GateIsForgotten DEF Serve, RemovalInv
<1>3. /\ disk' \in [RootSet -> Entries]
      /\ \A r \in RootSet : disk'[r].id # 0 /\ disk'[r].reserved = disk[r].reserved
  BY ZenonT(60) DEF Serve, RemovalInv, RemovalTypeOK, Entries
<1>4. RemovalTypeOK'
  BY <1>1, <1>3 DEF RemovalInv, RemovalTypeOK
<1>5. BelongsToDaemon'
  BY <1>1 DEF RemovalInv, BelongsToDaemon, Serving
<1>6. SUFFICES ASSUME ~OldHelper' PROVE Orderly'
  BY <1>2, <1>4, <1>5 DEF RemovalInv
<1>7. Orderly
  BY <1>1, <1>6 DEF RemovalInv, OldHelper
<1>8. /\ \A p \in Removers : remover[p].at \notin Working
      /\ \A r \in RootSet : disk[r].reserved = 0
  BY <1>1, <1>7, ReservationFound DEF Orderly, StartsAlone, OneReservation, Pending
<1>9. Reserved' = {}
  BY <1>3, <1>8 DEF Reserved
<1>10. /\ OneReservation' /\ StartsAlone'
       /\ \A r \in RootSet : Exists(r)'
  BY <1>1, <1>3, <1>8 DEF OneReservation, Exists, StartsAlone
<1>13. ReservedByRequest'
  <2>1. \A q \in Quiescers : \A i \in DOMAIN Roots : ~(i < prep'[q])
    BY <1>1, RootsAreDistinct
  <2> QED BY <1>1, <1>9, <1>10, <2>1 DEF ReservedByRequest
<1>11. RemoversHold' /\ InTurn'
  BY <1>1, <1>8, <1>9 DEF RemoversHold, InTurn
<1>12. VisitsFit'
  BY <1>1, <1>8 DEF VisitsFit, Visits, Working, Visiting, Handling, Freeing
<1> QED BY <1>10, <1>11, <1>12, <1>13 DEF Orderly

----------------------------------------------------------------------------
(* The request.                                                            *)

(* Before a request reserves, nothing is reserved and nobody removes.      *)
LEMMA ValidateKeeps ==
    ASSUME RemovalInv, NEW q \in Quiescers, Validate(q)
    PROVE  RemovalInv'
<1>1. /\ UNCHANGED <<vars, daemon, boots, token, session, disk, remover, lease, hits>>
      /\ quiescer[q] = "quiesced" /\ prep[q] = 0
      /\ reservations' = reservations + 1
      /\ prep' = [prep EXCEPT ![q] = 1]
  BY DEF Validate, Preparing, Advance
<1>2. /\ daemon \in Serving /\ token /\ reservations < MaxReservations
      /\ \A o \in Quiescers : prep[o] = 0 /\ quiescer[o] # "committed"
      /\ \A o \in Quiescers : o # q => quiescer[o] \in {"idle", "reopened"}
  BY <1>1, OneRequest DEF RemovalInv, BelongsToDaemon
<1>3. Inv'
  BY <1>1, GateRests DEF RemovalInv
<1>4. RemovalTypeOK'
  BY <1>1, <1>2, RootsAreDistinct DEF RemovalInv, RemovalTypeOK, HelperStage
<1>5. BelongsToDaemon'
  BY <1>1, <1>2 DEF RemovalInv, RemovalTypeOK, BelongsToDaemon, vars
<1>6. SUFFICES ASSUME ~OldHelper' PROVE Orderly'
  BY <1>3, <1>4, <1>5 DEF RemovalInv
<1>7. Orderly
  BY <1>1, <1>6 DEF RemovalInv, OldHelper
<1>8. Reserved = {}
  BY <1>2, <1>7 DEF Orderly, ReservedByRequest
<1>9. \A p \in Removers : remover[p].at \notin Working
  BY <1>2, <1>7, <1>8 DEF Orderly, RemoversHold, Armed, Freeing
<1>10. \A r \in RootSet : disk[r].reserved = 0
  BY <1>7, <1>8, ReservationFound DEF Orderly, OneReservation, Pending
<1>11. OneReservation' /\ RemoversHold' /\ InTurn' /\ StartsAlone'
  BY <1>1, <1>2, <1>8, <1>9, <1>10, SameDisk
     DEF OneReservation, RemoversHold, InTurn, StartsAlone, Serving
<1>12. ReservedByRequest'
  <2>1. \A o \in Quiescers : \A i \in DOMAIN Roots : ~(i < prep'[o])
    BY <1>1, <1>2, RootsAreDistinct DEF RemovalInv, RemovalTypeOK
  <2> QED BY <1>1, <1>2, <1>7, <1>8, <2>1, SameDisk
          DEF Orderly, ReservedByRequest, vars
<1>13. VisitsFit'
  BY <1>1, <1>9 DEF VisitsFit, Visits, Working, Visiting, Handling, Freeing
<1> QED BY <1>11, <1>12, <1>13 DEF Orderly

(* The gate opens again before anything was reserved.                      *)
LEMMA RefuseEarlyKeeps ==
    ASSUME RemovalInv, NEW q \in Quiescers, RefuseEarly(q)
    PROVE  RemovalInv'
<1>1. /\ UNCHANGED <<daemon, boots, token, session, disk, reservations, remover,
                     lease, hits>>
      /\ quiescer[q] \in {"waiting", "quiesced"}
      /\ quiescer' = [quiescer EXCEPT ![q] = "reopened"]
      /\ prep' = prep
  BY DEF RefuseEarly, Refuse, Reopen, MoveQuiescer, RemovalInv, RemovalTypeOK
<1>2. Inv'
  BY QuiescerPreserves DEF RefuseEarly, Refuse, QuiescerStep, RemovalInv
<1>3. RemovalTypeOK'
  BY <1>1 DEF RemovalInv, RemovalTypeOK
<1>4. prep[q] = 0
  BY DEF RefuseEarly
<1>5. BelongsToDaemon'
  BY <1>1, <1>4 DEF RemovalInv, BelongsToDaemon, Inv, TypeOK
<1>6. OldHelper' \/ Orderly'
  BY <1>1, RemovalRests DEF RemovalInv, Inv, TypeOK
<1> QED BY <1>2, <1>3, <1>5, <1>6 DEF RemovalInv

(* A marker more is written.                                               *)
LEMMA WriteMarkerKeeps ==
    ASSUME RemovalInv, NEW q \in Quiescers, WriteMarker(q)
    PROVE  RemovalInv'
<1> DEFINE i == prep[q]
<1>1. /\ UNCHANGED <<vars, daemon, boots, token, session, reservations, remover,
                     lease, hits>>
      /\ i \in 1 .. Len(Roots) /\ quiescer[q] = "quiesced"
      /\ disk' = [disk EXCEPT ![Roots[i]].reserved = reservations]
      /\ prep' = [prep EXCEPT ![q] = i + 1]
  BY DEF WriteMarker, Preparing, Advance
<1>2. /\ daemon \in Serving /\ token
      /\ reservations > 0 /\ reservations \in Nat
      /\ \A o \in Quiescers : o # q =>
            prep[o] = 0 /\ quiescer[o] \in {"idle", "reopened"}
      /\ i \in DOMAIN Roots /\ Roots[i] \in RootSet /\ i \in Nat
  BY <1>1, OneRequest, RootsAreDistinct DEF RemovalInv, BelongsToDaemon, RemovalTypeOK
<1>3. /\ disk' \in [RootSet -> Entries]
      /\ \A r \in RootSet :
            /\ disk'[r].id = disk[r].id /\ disk'[r].checkout = disk[r].checkout
            /\ disk'[r].reserved = IF r = Roots[i] THEN reservations
                                                 ELSE disk[r].reserved
  BY <1>1, <1>2, ZenonT(60) DEF RemovalInv, RemovalTypeOK, Entries
<1> HIDE DEF i
<1>4. Inv'
  BY <1>1, GateRests DEF RemovalInv
<1>5. prep' \in [Quiescers -> 0 .. HelperStage + 1] /\ prep'[q] = i + 1
  BY <1>1, <1>2, RootsAreDistinct DEF RemovalInv, RemovalTypeOK, HelperStage
<1>6. RemovalTypeOK'
  BY <1>1, <1>3, <1>5 DEF RemovalInv, RemovalTypeOK
<1>7. BelongsToDaemon'
  BY <1>1, <1>2, <1>5 DEF RemovalInv, BelongsToDaemon, vars, RemovalTypeOK
<1>8. SUFFICES ASSUME ~OldHelper' PROVE Orderly'
  BY <1>4, <1>6, <1>7 DEF RemovalInv
<1>9. Orderly
  BY <1>1, <1>8 DEF RemovalInv, OldHelper
<1>10. Reserved' # {}
  <2>1. disk'[Roots[i]].id # 0 /\ disk'[Roots[i]].reserved # 0
    BY <1>2, <1>3, <1>9 DEF Orderly, ReservedByRequest, Exists
  <2> QED BY <1>2, <2>1 DEF Reserved, Exists
<1>11. OneReservation'
  BY <1>1, <1>2, <1>3, <1>9 DEF Orderly, OneReservation, ReservedByRequest, Exists
<1>12. ReservedByRequest'
  <2>1. \A r \in RootSet : Exists(r)'
    BY <1>2, <1>3, <1>9 DEF Orderly, ReservedByRequest, Exists
  <2>2. \E o \in Quiescers : prep'[o] > 1
    BY <1>2, <1>5, <1>1
  <2>3. ASSUME NEW o \in Quiescers, NEW j \in DOMAIN Roots, j < prep'[o]
        PROVE  disk'[Roots[j]].reserved = reservations
    <3>1. CASE o = q /\ j = i
      BY <1>2, <1>3, <3>1
    <3>2. CASE o = q /\ j # i
      <4>1. j < prep[q]
        BY <1>2, <1>5, <2>3, <3>2, RootsAreDistinct DEF i
      <4> QED BY <1>2, <1>3, <1>9, <4>1, RootsAreDistinct
              DEF Orderly, ReservedByRequest
    <3>3. CASE o # q
      BY <1>1, <1>2, <2>3, <3>3, RootsAreDistinct DEF RemovalInv, RemovalTypeOK
    <3> QED BY <3>1, <3>2, <3>3
  <2>4. \A o \in Quiescers : quiescer'[o] # "committed"
    BY <1>1, <1>2 DEF vars
  <2> QED BY <1>1, <2>1, <2>2, <2>3, <2>4 DEF ReservedByRequest
<1>13. RemoversHold'
  BY <1>1, <1>9, <1>10 DEF Orderly, RemoversHold
<1>14. InTurn' /\ StartsAlone'
  BY <1>1, <1>2 DEF InTurn, StartsAlone, Serving
<1>15. VisitsFit'
  BY <1>1, <1>2, <1>9
     DEF Orderly, VisitsFit, Visits, RemoversHold, Armed, Working, Visiting,
         Handling, Freeing
<1> QED BY <1>11, <1>12, <1>13, <1>14, <1>15 DEF Orderly

(* The helper starts beside a daemon that serves.                          *)
LEMMA LaunchHelperKeeps ==
    ASSUME RemovalInv, NEW q \in Quiescers, LaunchHelper(q)
    PROVE  RemovalInv'
<1> DEFINE x == [Idle EXCEPT !.at = "starting", !.token = reservations,
                             !.pid = boots]
<1>1. /\ UNCHANGED <<vars, daemon, boots, token, session, disk, reservations, lease,
                     hits>>
      /\ quiescer[q] = "quiesced" /\ prep[q] = HelperStage
      /\ remover' = [remover EXCEPT ![reservations] = x]
      /\ prep' = [prep EXCEPT ![q] = HelperStage + 1]
  BY DEF LaunchHelper, Preparing, Advance
<1>2. x \in Removals /\ x.at = "starting" /\ x.token = reservations
  <2>1. reservations \in Nat /\ boots \in Nat
    BY RootsAreDistinct DEF RemovalInv, RemovalTypeOK
  <2> QED BY <2>1, IdleIsARemoval DEF Removals
<1> HIDE DEF x
<1>3. /\ daemon \in Serving /\ token
      /\ reservations \in HandoffTokens /\ reservations \in Removers
      /\ \A o \in Quiescers : o # q =>
            prep[o] = 0 /\ quiescer[o] \in {"idle", "reopened"}
  BY <1>1, OneRequest, RootsAreDistinct, Writes, SMTT(30)
     DEF RemovalInv, BelongsToDaemon, RemovalTypeOK
<1>4. /\ remover' \in [Removers -> Removals]
      /\ \A p \in Removers : remover'[p].at \in Working =>
            remover'[p] = remover[p] /\ p # reservations
      /\ \A p \in Removers :
            remover'[p].at = "starting" => remover'[p].token = p
  BY <1>1, <1>2, <1>3 DEF RemovalInv, RemovalTypeOK, Working
<1>5. Inv'
  BY <1>1, GateRests DEF RemovalInv
<1>6. prep' \in [Quiescers -> 0 .. HelperStage + 1] /\ prep'[q] = HelperStage + 1
  BY <1>1, Writes DEF RemovalInv, RemovalTypeOK
<1>7. RemovalTypeOK'
  BY <1>1, <1>4, <1>6
     DEF RemovalInv, RemovalTypeOK, Working, Visiting, Handling, Freeing
<1>8. BelongsToDaemon'
  BY <1>1, <1>3, <1>6, Writes DEF RemovalInv, BelongsToDaemon, vars, RemovalTypeOK
<1>9. SUFFICES ASSUME ~OldHelper' PROVE Orderly'
  BY <1>5, <1>7, <1>8 DEF RemovalInv
<1>10. Orderly
  BY <1>1, <1>9 DEF RemovalInv, OldHelper
<1>11. OneReservation'
  BY <1>1, <1>10, SameDisk DEF Orderly, OneReservation
<1>12. ReservedByRequest'
  <2>1. \A o \in Quiescers : prep[o] > 1 => prep'[o] > 1
    BY <1>1, <1>6, Writes DEF RemovalInv, RemovalTypeOK
  <2>2. \A i \in DOMAIN Roots : i < prep'[q] => i < prep[q]
    BY <1>1, <1>6, RootsAreDistinct DEF HelperStage
  <2>3. \A o \in Quiescers : o # q => prep'[o] = prep[o]
    BY <1>1 DEF RemovalInv, RemovalTypeOK
  <2>4. quiescer' = quiescer
    BY <1>1 DEF vars
  <2> QED BY <1>1, <1>10, <2>1, <2>2, <2>3, <2>4, SameDisk
          DEF Orderly, ReservedByRequest
<1>13. RemoversHold' /\ InTurn' /\ StartsAlone'
  BY <1>1, <1>3, <1>4, <1>10, SameDisk
     DEF Orderly, RemoversHold, InTurn, StartsAlone, Serving
<1>14. VisitsFit'
  BY <1>1, <1>3, <1>4, <1>10
     DEF Orderly, VisitsFit, Visits, RemoversHold, Armed, Working, Visiting,
         Handling, Freeing
<1> QED BY <1>11, <1>12, <1>13, <1>14 DEF Orderly

(* The reservation is taken back before anybody removes, or is remembered  *)
(* as withdrawn.                                                           *)
LEMMA WithdrawKeeps ==
    ASSUME RemovalInv, NEW q \in Quiescers, Withdraw(q)
    PROVE  RemovalInv'
<1>1. /\ UNCHANGED <<daemon, boots, token, session, reservations, remover, lease>>
      /\ quiescer[q] = "quiesced"
      /\ quiescer' = [quiescer EXCEPT ![q] = "reopened"]
      /\ prep' = [prep EXCEPT ![q] = 0]
      /\ disk' = ClearReservation(disk)
      /\ hits \subseteq hits'
      /\ (\E p \in Removers : remover[p].token = reservations) => "withdrawn" \in hits'
  BY DEF Withdraw, Refuse, Reopen, MoveQuiescer, Fault, RemovalInv, BelongsToDaemon
<1>2. /\ daemon \in Serving /\ token
      /\ \A o \in Quiescers : o # q =>
            prep[o] = 0 /\ quiescer[o] \in {"idle", "reopened"}
  BY <1>1, OneRequest DEF RemovalInv, BelongsToDaemon
<1>3. Inv'
  BY QuiescerPreserves DEF Withdraw, Refuse, QuiescerStep, RemovalInv
<1>4. /\ disk' \in [RootSet -> Entries]
      /\ \A r \in RootSet : disk'[r].id = disk[r].id /\ disk'[r].reserved = 0
  BY <1>1 DEF ClearReservation, RemovalInv, RemovalTypeOK, Entries
<1>5. \A o \in Quiescers : prep'[o] = 0 /\ quiescer'[o] \in {"idle", "reopened"}
  BY <1>1, <1>2 DEF RemovalInv, RemovalTypeOK, Inv, TypeOK
<1>6. RemovalTypeOK'
  BY <1>1, <1>4, Writes DEF RemovalInv, RemovalTypeOK
<1>7. BelongsToDaemon'
  BY <1>1, <1>2, <1>5 DEF RemovalInv, BelongsToDaemon
<1>8. SUFFICES ASSUME ~OldHelper' PROVE Orderly'
  BY <1>3, <1>6, <1>7 DEF RemovalInv
<1>9. Orderly
  BY <1>1, <1>8 DEF RemovalInv, OldHelper
<1>10. \A p \in Removers : remover[p].at \notin Working
  BY <1>1, <1>8, <1>9 DEF OldHelper, Orderly, RemoversHold
<1>11. Reserved' = {}
  BY <1>4 DEF Reserved
<1>12. OneReservation' /\ StartsAlone' /\ RemoversHold' /\ InTurn'
  BY <1>1, <1>2, <1>4, <1>10
     DEF OneReservation, StartsAlone, RemoversHold, InTurn, Serving
<1>13. ReservedByRequest'
  <2>1. \A o \in Quiescers : \A i \in DOMAIN Roots : ~(i < prep'[o])
    BY <1>5, RootsAreDistinct
  <2>2. \A r \in RootSet : Exists(r)'
    BY <1>2, <1>4, <1>9 DEF Orderly, ReservedByRequest, Exists
  <2> QED BY <1>5, <1>11, <2>1, <2>2 DEF ReservedByRequest
<1>14. VisitsFit'
  BY <1>1, <1>10 DEF VisitsFit, Visits, Working, Visiting, Handling, Freeing
<1> QED BY <1>12, <1>13, <1>14 DEF Orderly

(* The daemon is going to stop, with every directory reserved.             *)
LEMMA RespondKeeps ==
    ASSUME RemovalInv, NEW q \in Quiescers, Respond(q)
    PROVE  RemovalInv'
<1>1. /\ UNCHANGED <<boots, token, session, disk, reservations, remover, lease, hits>>
      /\ quiescer[q] = "quiesced" /\ prep[q] = HelperStage + 1
      /\ quiescer' = [quiescer EXCEPT ![q] = "committed"]
      /\ prep' = [prep EXCEPT ![q] = 0]
      /\ daemon' = IF daemon = "up" THEN "stopping" ELSE daemon
  BY DEF Respond, Preparing, Commit, MoveQuiescer
<1>2. /\ daemon \in Serving /\ daemon' \in Serving /\ token /\ reservations > 0
      /\ \A o \in Quiescers : o # q =>
            prep[o] = 0 /\ quiescer[o] \in {"idle", "reopened"}
  BY <1>1, OneRequest, Writes DEF RemovalInv, BelongsToDaemon, Serving
<1>3. Inv'
  BY QuiescerPreserves DEF Respond, QuiescerStep, RemovalInv
<1>4. /\ quiescer'[q] = "committed"
      /\ \A o \in Quiescers : /\ prep'[o] = 0
                              /\ o # q => quiescer'[o] \in {"idle", "reopened"}
  BY <1>1, <1>2 DEF RemovalInv, RemovalTypeOK, Inv, TypeOK
<1>5. RemovalTypeOK'
  BY <1>1, Writes DEF RemovalInv, RemovalTypeOK
<1>6. BelongsToDaemon'
  BY <1>1, <1>2, <1>4 DEF RemovalInv, BelongsToDaemon, Serving
<1>7. SUFFICES ASSUME ~OldHelper' PROVE Orderly'
  BY <1>3, <1>5, <1>6 DEF RemovalInv
<1>8. Orderly
  BY <1>1, <1>7 DEF RemovalInv, OldHelper
<1>9. \A r \in RootSet : Exists(r) /\ disk[r].reserved = reservations
  <2> SUFFICES ASSUME NEW r \in RootSet
               PROVE  Exists(r) /\ disk[r].reserved = reservations
    OBVIOUS
  <2>1. PICK i \in DOMAIN Roots : r = Roots[i]
    BY RootsAreDistinct
  <2>2. i < prep[q]
    BY <1>1, RootsAreDistinct DEF HelperStage
  <2> QED BY <1>2, <1>8, <2>1, <2>2 DEF Orderly, ReservedByRequest
<1>10. OneReservation' /\ StartsAlone' /\ RemoversHold' /\ InTurn'
  BY <1>1, <1>2, <1>8, SameDisk
     DEF Orderly, OneReservation, StartsAlone, RemoversHold, InTurn, Serving
<1>11. ReservedByRequest'
  <2>1. \A o \in Quiescers : \A i \in DOMAIN Roots : ~(i < prep'[o])
    BY <1>4, RootsAreDistinct
  <2> QED BY <1>1, <1>2, <1>4, <1>9, <2>1, SameDisk DEF ReservedByRequest
<1>12. VisitsFit'
  BY <1>1, <1>2, <1>8
     DEF Orderly, VisitsFit, Visits, RemoversHold, Armed, Working, Visiting,
         Handling, Freeing
<1> QED BY <1>10, <1>11, <1>12 DEF Orderly

----------------------------------------------------------------------------
(* The processes that remove.                                              *)

(* Somebody takes the lease of the reservation on the disk.                *)
LEMMA LeaseTaken ==
    ASSUME RemovalInv, NEW p \in Removers,
           UNCHANGED <<vars, daemon, boots, token, session, disk, reservations, prep>>,
           hits \subseteq hits',
           ~OldHelper' => /\ Reserved # {} /\ lease[reservations] = 0
                          /\ lease' = [lease EXCEPT ![reservations] = p],
           lease' \in [HandoffTokens -> Removers \cup {0}],
           NEW x \in Removals, x.at = "waiting",
           ~OldHelper' => x.token = reservations,
           remover' = [remover EXCEPT ![p] = x]
    PROVE  RemovalInv'
<1>1. Inv'
  BY GateRests DEF RemovalInv
<1>2. /\ remover' \in [Removers -> Removals] /\ remover'[p] = x
      /\ \A o \in Removers : o # p => remover'[o] = remover[o]
  BY DEF RemovalInv, RemovalTypeOK
<1>3. RemovalTypeOK'
  BY <1>2 DEF RemovalInv, RemovalTypeOK, Working, Visiting, Handling, Freeing
<1>4. BelongsToDaemon'
  BY DEF RemovalInv, BelongsToDaemon, vars
<1>5. SUFFICES ASSUME ~OldHelper' PROVE Orderly'
  BY <1>1, <1>3, <1>4 DEF RemovalInv
<1>6. Orderly
  BY <1>5 DEF RemovalInv, OldHelper
<1>7. /\ reservations > 0 /\ reservations \in HandoffTokens
      /\ lease'[reservations] = p
      /\ \A o \in Removers : remover[o].at \notin Working
  <2>1. reservations > 0 /\ reservations \in HandoffTokens
    BY <1>5, <1>6, ReservationFound, RootsAreDistinct
       DEF Orderly, RemovalInv, RemovalTypeOK
  <2> QED BY <1>5, <1>6, <2>1, RootsAreDistinct
          DEF Orderly, RemoversHold, RemovalInv, RemovalTypeOK
<1>8. OneReservation'
  BY <1>6, SameDisk DEF Orderly, OneReservation
<1>9. ReservedByRequest'
  BY <1>6, SameDisk DEF Orderly, ReservedByRequest, vars
<1>10. StartsAlone'
  BY <1>5, <1>6 DEF Orderly, StartsAlone
<1>11. RemoversHold'
  BY <1>2, <1>5, <1>7, SameDisk DEF RemoversHold, Working, Freeing, Armed
<1>12. InTurn'
  BY <1>5, <1>6, SameDisk, RootsAreDistinct DEF Orderly, InTurn, Turns
<1>13. VisitsFit'
  BY <1>2, <1>7 DEF VisitsFit, Visits, Working, Visiting, Handling, Freeing
<1> QED BY <1>8, <1>9, <1>10, <1>11, <1>12, <1>13 DEF Orderly

(* A step of whoever removes: no daemon serves meanwhile, and nobody else  *)
(* removes.                                                                *)
LEMMA RemoverMoves ==
    ASSUME RemovalInv, NEW p \in Removers, remover[p].at \in Working,
           OnlyRemoval, hits \subseteq hits',
           NEW x \in Removals,
           remover' = [remover EXCEPT ![p] = x],
           disk' \in [RootSet -> Entries],
           lease' \in [HandoffTokens -> Removers \cup {0}],
           x.at \in {"none"} \cup Working,
           x.at \in Visiting => x.root \in DOMAIN Roots,
           ~OldHelper' =>
             /\ \A r \in RootSet : Exists(r)' => Exists(r)
             /\ daemon \in Serving => UNCHANGED disk
             /\ OneReservation'
             /\ InTurn'
             /\ x.at \in Working =>
                  /\ lease' = lease /\ x.token = remover[p].token
                  /\ x.at \notin Freeing => Reserved' # {}
                  /\ x.at \in Armed => ~token
             /\ Visits(x)'
    PROVE  RemovalInv'
<1>1. UNCHANGED <<vars, daemon, boots, token, session, reservations, prep>>
  BY DEF OnlyRemoval
<1>2. Inv'
  BY <1>1, GateRests DEF RemovalInv
<1>3. /\ remover' \in [Removers -> Removals] /\ remover'[p] = x
      /\ \A o \in Removers : o # p => remover'[o] = remover[o]
  BY DEF RemovalInv, RemovalTypeOK
<1>4. RemovalTypeOK'
  BY <1>1, <1>3 DEF RemovalInv, RemovalTypeOK, Working
<1>5. BelongsToDaemon'
  BY <1>1 DEF RemovalInv, BelongsToDaemon, vars
<1>6. SUFFICES ASSUME ~OldHelper' PROVE Orderly'
  BY <1>2, <1>4, <1>5 DEF RemovalInv
<1>7. /\ ~OldHelper /\ Orderly
      /\ \A o \in Removers : o # p => remover[o].at \notin Working
  BY <1>6, OneRemover DEF RemovalInv, OldHelper
<1>8. ReservedByRequest'
  BY <1>1, <1>6, <1>7, SameDisk DEF Orderly, ReservedByRequest, vars
<1>9. RemoversHold'
  BY <1>1, <1>3, <1>6, <1>7 DEF Orderly, RemoversHold
<1>10. StartsAlone'
  BY <1>1, <1>7 DEF Orderly, StartsAlone
<1>11. VisitsFit'
  BY <1>3, <1>6, <1>7 DEF VisitsFit, Visits, Working, Visiting, Handling, Freeing
<1> QED BY <1>6, <1>8, <1>9, <1>10, <1>11 DEF Orderly

(* What directories there are and what they hold, apart from data, owner   *)
(* and audit, is the same in two disks.                                    *)
SameMarks(d, e) ==
    \A r \in RootSet : /\ d[r].id = e[r].id
                       /\ d[r].reserved = e[r].reserved
                       /\ d[r].checkout = e[r].checkout

(* Then nothing that the invariant says of the disk changes.               *)
LEMMA MarksStay ==
    ASSUME SameMarks(disk', disk), UNCHANGED reservations
    PROVE  /\ Reserved' = Reserved
           /\ \A r \in RootSet : /\ Exists(r)' <=> Exists(r)
                                 /\ Done(r)' <=> Done(r)
                                 /\ Pending(r)' <=> Pending(r)
           /\ OneReservation => OneReservation'
           /\ Turns => Turns'
           /\ \A x \in Removals : Visits(x) => Visits(x)'
<1>1. \A r \in RootSet : /\ Exists(r)' <=> Exists(r)
                         /\ Done(r)' <=> Done(r)
                         /\ Pending(r)' <=> Pending(r)
  BY DEF SameMarks, Exists, Done, Pending
<1>2. Reserved' = Reserved
  BY <1>1 DEF SameMarks, Reserved
<1>3. OneReservation => OneReservation'
  BY <1>1 DEF SameMarks, OneReservation
<1>4. Turns => Turns'
  BY <1>1, RootsAreDistinct DEF Turns
<1>5. ASSUME NEW x \in Removals, Visits(x) PROVE Visits(x)'
  <2>1. x.at \in Handling => Roots[x.root] \in RootSet
    BY <1>5, RootsAreDistinct DEF Visits, Visiting
  <2> QED BY <1>1, <1>2, <1>5, <2>1, RootsAreDistinct DEF Visits, SameMarks
<1> QED BY <1>1, <1>2, <1>3, <1>4, <1>5

(* A process ends: nobody else's lease is released.                        *)
LEMMA EndMeans ==
    ASSUME RemovalInv, NEW p \in Removers, NEW outcome, Ends(p, outcome)
    PROVE  /\ remover' = [remover EXCEPT ![p] = Idle]
           /\ lease' \in [HandoffTokens -> Removers \cup {0}]
           /\ \A n \in HandoffTokens : lease[n] # p => lease'[n] = lease[n]
BY DEF Ends, Release, RemovalInv, RemovalTypeOK

(* A process that fails writes audits.                                     *)
LEMMA FailureMeans ==
    ASSUME NEW p \in Removers, NEW d \in [RootSet -> Entries], Fails(p, d)
    PROVE  /\ Ends(p, "failed")
           /\ disk' \in [RootSet -> Entries]
           /\ SameMarks(disk', d)
<1>1. /\ Ends(p, "failed")
      /\ disk' = [r \in RootSet |->
                    IF d[r].id # 0 /\ d[r].owned THEN [d[r] EXCEPT !.audit = TRUE]
                                                 ELSE d[r]]
  BY DEF Fails
<1>2. \A r \in RootSet : [d[r] EXCEPT !.audit = TRUE] \in Entries
  BY DEF Entries
<1> QED BY <1>1, <1>2 DEF SameMarks, Entries

(* A process may end anywhere.                                             *)
LEMMA EndKeeps ==
    ASSUME RemovalInv, NEW p \in Removers, NEW outcome, Ends(p, outcome),
           OnlyRemoval, hits \subseteq hits',
           disk' \in [RootSet -> Entries], SameMarks(disk', disk)
    PROVE  RemovalInv'
<1>1. UNCHANGED <<vars, daemon, boots, token, session, reservations, prep>>
  BY DEF OnlyRemoval
<1>2. /\ remover' \in [Removers -> Removals] /\ remover'[p] = Idle
      /\ \A o \in Removers : o # p => remover'[o] = remover[o]
      /\ Idle.at \notin Working
  BY EndMeans, IdleIsARemoval DEF RemovalInv, RemovalTypeOK, Working
<1>3. Inv'
  BY <1>1, GateRests DEF RemovalInv
<1>4. RemovalTypeOK'
  BY <1>1, <1>2, EndMeans, IdleIsARemoval
     DEF RemovalInv, RemovalTypeOK, Visiting, Handling, Freeing
<1>5. BelongsToDaemon'
  BY <1>1 DEF RemovalInv, BelongsToDaemon, vars
<1>6. SUFFICES ASSUME ~OldHelper' PROVE Orderly'
  BY <1>3, <1>4, <1>5 DEF RemovalInv
<1>7. Orderly
  BY <1>6 DEF RemovalInv, OldHelper
<1>8. OneReservation'
  BY <1>1, <1>7, MarksStay DEF Orderly
<1>9. ReservedByRequest'
  BY <1>1, <1>7, MarksStay, RootsAreDistinct
     DEF Orderly, ReservedByRequest, vars, SameMarks
<1>10. RemoversHold'
  <2> SUFFICES ASSUME NEW o \in Removers, o # p, remover[o].at \in Working
               PROVE  lease'[reservations] = o
    BY <1>1, <1>2, <1>7, MarksStay DEF Orderly, RemoversHold
  <2>1. reservations \in HandoffTokens
    BY <1>7, RootsAreDistinct DEF Orderly, RemoversHold, RemovalInv, RemovalTypeOK
  <2> QED BY <1>7, <2>1, EndMeans DEF Orderly, RemoversHold
<1>11. InTurn'
  BY <1>1, <1>2, <1>7, MarksStay DEF Orderly, InTurn
<1>12. StartsAlone'
  BY <1>1, <1>2, <1>7, MarksStay DEF Orderly, StartsAlone
<1>13. VisitsFit'
  <2> SUFFICES ASSUME NEW o \in Removers PROVE Visits(remover[o])'
    BY DEF VisitsFit
  <2>1. CASE o = p
    BY <1>2, <2>1 DEF Visits, Working, Visiting, Handling, Freeing
  <2>2. CASE o # p
    <3> DEFINE x == remover[o]
    <3>1. x \in Removals /\ Visits(x) /\ remover'[o] = x
      BY <1>2, <1>7, <2>2 DEF Orderly, VisitsFit, RemovalInv, RemovalTypeOK
    <3> HIDE DEF x
    <3>2. Visits(x) => (Visits(remover[o]))'
      BY <1>1, <3>1, MarksStay DEF Visits
    <3> QED BY <3>1, <3>2
  <2> QED BY <2>1, <2>2
<1> QED BY <1>8, <1>9, <1>10, <1>11, <1>12, <1>13 DEF Orderly

(* A helper starts: it takes the lease, or ends.                           *)
LEMMA StartHelperKeeps ==
    ASSUME RemovalInv, NEW n \in HandoffTokens, StartHelper(n)
    PROVE  RemovalInv'
<1>1. n \in Removers /\ OnlyRemoval /\ hits' = hits
  BY RootsAreDistinct DEF StartHelper, NoFault
<1>2. disk \in [RootSet -> Entries] /\ SameMarks(disk, disk)
  BY DEF RemovalInv, RemovalTypeOK, SameMarks
<1>3. CASE Ends(n, "failed") /\ UNCHANGED disk
  BY <1>1, <1>2, <1>3, EndKeeps
<1>4. CASE Fails(n, disk)
  BY <1>1, <1>2, <1>4, FailureMeans, EndKeeps
<1>5. CASE /\ Reservation = n /\ lease[n] = 0
           /\ remover' = [remover EXCEPT ![n].at = "waiting"]
           /\ lease' = [lease EXCEPT ![n] = n]
           /\ UNCHANGED disk
  <2> DEFINE x == [remover[n] EXCEPT !.at = "waiting"]
  <2>1. x \in Removals /\ x.at = "waiting" /\ x.token = remover[n].token
    BY <1>1 DEF RemovalInv, RemovalTypeOK, Removals, Working
  <2>2. remover' = [remover EXCEPT ![n] = x]
    BY <1>1, <1>5 DEF RemovalInv, RemovalTypeOK
  <2>3. Reserved # {} /\ n \in Nat
    BY <1>5, ReservationFound, RootsAreDistinct
  <2>4. ~OldHelper => n = reservations
    BY <1>5, <2>3, ReservationFound DEF RemovalInv, Orderly
  <2>5. remover[n].token = n
    BY <1>1 DEF StartHelper, At, RemovalInv, RemovalTypeOK
  <2>6. lease' \in [HandoffTokens -> Removers \cup {0}]
    BY <1>1, <1>5 DEF RemovalInv, RemovalTypeOK
  <2> HIDE DEF x
  <2> QED BY <1>1, <1>5, <2>1, <2>2, <2>3, <2>4, <2>5, <2>6, LeaseTaken
          DEF OnlyRemoval, OldHelper
<1> QED BY <1>3, <1>4, <1>5 DEF StartHelper

(* A client that recovers does the same, or gives up.                      *)
LEMMA RecoverKeeps ==
    ASSUME RemovalInv, NEW q \in Quiescers, RecoverPreparedRemoval(q)
    PROVE  RemovalInv'
<1>1. /\ UNCHANGED <<vars, daemon, boots, token, session, disk, reservations, prep,
                     hits>>
      /\ q \in Removers
  BY RootsAreDistinct DEF RecoverPreparedRemoval, OnlyClient, NoFault
<1>2. CASE UNCHANGED <<remover, lease>>
  BY <1>1, <1>2, NothingHappens
<1>3. CASE /\ Reserved # {} /\ lease[Reservation] = 0
           /\ remover' = [remover EXCEPT ![q] =
                            [Idle EXCEPT !.at = "waiting", !.token = Reservation]]
           /\ lease' = [lease EXCEPT ![Reservation] = q]
  <2> DEFINE x == [Idle EXCEPT !.at = "waiting", !.token = Reservation]
  <2>1. Reservation \in Nat
    BY <1>3 DEF Reservation, Reserved, RemovalInv, RemovalTypeOK, Entries
  <2>2. x \in Removals /\ x.at = "waiting" /\ x.token = Reservation
    BY <2>1, IdleIsARemoval DEF Removals, Working
  <2>3. ~OldHelper => Reservation = reservations
    BY <1>3, ReservationFound DEF RemovalInv, Orderly
  <2>4. lease' \in [HandoffTokens -> Removers \cup {0}]
    BY <1>1, <1>3 DEF RemovalInv, RemovalTypeOK
  <2> HIDE DEF x
  <2>5. remover' = [remover EXCEPT ![q] = x]
    BY <1>3 DEF x
  <2> QED BY <1>1, <1>3, <2>2, <2>3, <2>4, <2>5, LeaseTaken DEF OldHelper
<1> QED BY <1>2, <1>3 DEF RecoverPreparedRemoval

(* The daemon has stopped: whoever waited may go on.                       *)
LEMMA DaemonStoppedKeeps ==
    ASSUME RemovalInv, NEW p \in Removers, DaemonStopped(p)
    PROVE  RemovalInv'
<1>1. /\ OnlyRemoval /\ UNCHANGED <<hits, disk, lease>>
      /\ UNCHANGED reservations
  BY DEF DaemonStopped, NoFault, OnlyRemoval
<1>2. PICK stage \in {"exiting", "completing"} :
         remover' = [remover EXCEPT ![p].at = stage]
  BY DEF DaemonStopped
<1>3. /\ remover[p].at \in {"waiting", "exiting"}
      /\ remover[p].at = "waiting" => ~token
  BY DEF DaemonStopped, At
<1>4. PICK x \in Removals :
         /\ x.at = stage /\ x.token = remover[p].token
         /\ remover' = [remover EXCEPT ![p] = x]
  <2>1. [remover[p] EXCEPT !.at = stage] \in Removals
    BY DEF RemovalInv, RemovalTypeOK, Removals, Working
  <2> QED BY <1>2, <2>1 DEF RemovalInv, RemovalTypeOK, Removals
<1>5. /\ disk' \in [RootSet -> Entries] /\ SameMarks(disk', disk)
      /\ lease' \in [HandoffTokens -> Removers \cup {0}]
      /\ remover[p].at \in Working /\ x.at \in {"none"} \cup Working
      /\ x.at \notin Visiting
  BY <1>1, <1>3, <1>4 DEF RemovalInv, RemovalTypeOK, SameMarks, Working, Visiting,
     Handling, Freeing
<1>6. ASSUME ~OldHelper'
      PROVE  /\ \A r \in RootSet : Exists(r)' => Exists(r)
             /\ daemon \in Serving => UNCHANGED disk
             /\ OneReservation'
             /\ InTurn'
             /\ lease' = lease /\ x.token = remover[p].token
             /\ Reserved' # {}
             /\ ~token
             /\ Visits(x)'
  <2>1. Orderly
    BY <1>1, <1>6 DEF RemovalInv, OldHelper
  <2>2. Reserved # {} /\ ~token
    BY <1>3, <1>5, <2>1 DEF Orderly, RemoversHold, Armed, Working, Freeing
  <2>3. Turns
    BY <2>1, <2>2 DEF Orderly, InTurn
  <2>4. Visits(x)'
    BY <1>4 DEF Visits, Visiting, Handling, Freeing
  <2> QED BY <1>1, <1>4, <1>5, <2>1, <2>2, <2>3, <2>4, MarksStay
          DEF Orderly, InTurn
<1> QED BY <1>1, <1>4, <1>5, <1>6, RemoverMoves

(* It gives up, or is killed.                                              *)
LEMMA GivingUpKeeps ==
    ASSUME RemovalInv, NEW p \in Removers,
           DaemonDidNotStop(p) \/ KillRemover(p)
    PROVE  RemovalInv'
<1>1. disk \in [RootSet -> Entries] /\ SameMarks(disk, disk)
  BY DEF RemovalInv, RemovalTypeOK, SameMarks
<1>2. CASE DaemonDidNotStop(p)
  BY <1>1, <1>2, FailureMeans, EndKeeps DEF DaemonDidNotStop, NoFault
<1>3. CASE KillRemover(p)
  <2>1. hits \subseteq hits' /\ OnlyRemoval /\ UNCHANGED disk /\ Ends(p, "failed")
    BY <1>3 DEF KillRemover, Fault
  <2> QED BY <1>1, <2>1, EndKeeps
<1> QED BY <1>2, <1>3

(* A removal begins when it finds its reservation.                         *)
LEMMA CompletePreparedKeeps ==
    ASSUME RemovalInv, NEW p \in Removers, CompletePrepared(p)
    PROVE  RemovalInv'
<1>1. /\ OnlyRemoval /\ UNCHANGED <<hits, reservations>>
      /\ remover[p].at = "completing"
  BY DEF CompletePrepared, NoFault, OnlyRemoval, At
<1>2. disk \in [RootSet -> Entries] /\ SameMarks(disk, disk)
  BY DEF RemovalInv, RemovalTypeOK, SameMarks
<1>3. CASE Completes(p) /\ UNCHANGED disk
  BY <1>1, <1>2, <1>3, EndKeeps DEF Completes
<1>4. CASE Fails(p, disk)
  BY <1>1, <1>2, <1>4, FailureMeans, EndKeeps
<1>5. CASE /\ Reserved # {}
           /\ remover' = [remover EXCEPT ![p].at = "empty", ![p].root = 1,
                                         ![p].ids = [r \in RootSet |-> disk[r].id]]
           /\ UNCHANGED <<disk, lease>>
  <2>1. PICK x \in Removals :
           /\ x.at = "empty" /\ x.root = 1 /\ x.token = remover[p].token
           /\ \A r \in RootSet : x.ids[r] = disk[r].id
           /\ remover' = [remover EXCEPT ![p] = x]
    <3> DEFINE y == [remover[p] EXCEPT !.at = "empty", !.root = 1,
                                       !.ids = [r \in RootSet |-> disk[r].id]]
    <3>1. [r \in RootSet |-> disk[r].id] \in [RootSet -> Nat]
      BY <1>2 DEF Entries
    <3>2. y \in Removals
      BY <3>1, ZenonT(60) DEF RemovalInv, RemovalTypeOK, Removals, Working
    <3>3. y.at = "empty" /\ y.root = 1 /\ y.token = remover[p].token
            /\ \A r \in RootSet : y.ids[r] = disk[r].id
      BY DEF RemovalInv, RemovalTypeOK, Removals
    <3>4. remover' = [remover EXCEPT ![p] = y]
      BY <1>5 DEF RemovalInv, RemovalTypeOK, Removals
    <3> QED BY <3>2, <3>3, <3>4
  <2>2. /\ disk' \in [RootSet -> Entries] /\ SameMarks(disk', disk)
        /\ lease' \in [HandoffTokens -> Removers \cup {0}]
        /\ remover[p].at \in Working /\ x.at \in {"none"} \cup Working
        /\ x.root \in DOMAIN Roots
    <3>1. PICK r \in RootSet : Pending(r)
      BY <1>5, ReservationFound
    <3>2. 1 \in DOMAIN Roots
      BY <3>1, RootsAreDistinct
    <3> QED BY <1>1, <1>2, <1>5, <2>1, <3>2 DEF RemovalInv, RemovalTypeOK, Working
  <2>3. ASSUME ~OldHelper'
        PROVE  /\ \A r \in RootSet : Exists(r)' => Exists(r)
               /\ daemon \in Serving => UNCHANGED disk
               /\ OneReservation'
               /\ InTurn'
               /\ lease' = lease /\ x.token = remover[p].token
               /\ Reserved' # {}
               /\ ~token
               /\ Visits(x)'
    <3>1. Orderly
      BY <1>1, <2>3 DEF RemovalInv, OldHelper
    <3>2. ~token
      BY <1>1, <3>1 DEF Orderly, RemoversHold, Armed, Working
    <3>3. Turns
      BY <1>5, <3>1, <3>2 DEF Orderly, InTurn
    <3>4. Visits(x)'
      BY <1>5, <2>1, <2>2, RootsAreDistinct DEF Visits, Visiting, Handling, Freeing
    <3> QED BY <1>1, <1>5, <2>1, <2>2, <3>1, <3>2, <3>3, <3>4, MarksStay
            DEF Orderly, InTurn
  <2> QED BY <1>1, <2>1, <2>2, <2>3, RemoverMoves
<1> QED BY <1>3, <1>4, <1>5 DEF CompletePrepared

(* What a change of the directory that is visited leaves true.             *)
LEMMA RootVisited ==
    ASSUME RemovalInv, ~OldHelper, NEW p \in Removers,
           remover[p].at \in Visiting,
           NEW r \in RootSet, r = Here(p),
           disk' \in [RootSet -> Entries],
           \A s \in RootSet : s # r =>
              /\ disk'[s].id = disk[s].id
              /\ disk'[s].reserved = disk[s].reserved
              /\ disk'[s].checkout = disk[s].checkout,
           disk'[r].id \in {0, disk[r].id},
           disk'[r].reserved \in {0, reservations},
           disk'[r].id = 0 => disk'[r].reserved = 0,
           Done(r) => Done(r)',
           UNCHANGED reservations
    PROVE  /\ ~token /\ lease[reservations] = p
           /\ daemon \notin Serving
           /\ remover[p].root \in DOMAIN Roots
           /\ \A s \in RootSet : Exists(s)' => Exists(s)
           /\ OneReservation'
           /\ Turns'
           /\ \A i \in DOMAIN Roots : i < remover[p].root => Done(Roots[i])'
           /\ \A s \in RootSet : disk'[s].id \in {0, remover[p].ids[s]}
           /\ ~Done(r) /\ remover[p].root + 1 \in DOMAIN Roots => Reserved' # {}
<1>1. /\ Orderly /\ ~token /\ daemon \notin Serving
      /\ lease[reservations] = p
      /\ Turns
  BY OneRemover DEF Orderly, RemoversHold, InTurn, Working, Armed, Visiting, Handling,
     Freeing
<1>2. PICK k \in DOMAIN Roots :
         /\ k = remover[p].root /\ r = Roots[k]
         /\ \A i \in DOMAIN Roots : i < k => Done(Roots[i])
         /\ \A s \in RootSet : disk[s].id \in {0, remover[p].ids[s]}
  BY <1>1 DEF Orderly, VisitsFit, Visits, Here
<1>3. \A s \in RootSet : s # r => /\ Done(s)' <=> Done(s)
                                  /\ Pending(s)' <=> Pending(s)
                                  /\ Exists(s)' <=> Exists(s)
  BY DEF Done, Pending, Exists
<1>4. \A i \in DOMAIN Roots : /\ Roots[i] \in RootSet
                              /\ i # k => Roots[i] # r
  BY <1>2, RootsAreDistinct
<1>5. \A i \in DOMAIN Roots : i < k => Done(Roots[i])'
  BY <1>2, <1>3, <1>4, RootsAreDistinct
<1>6. Turns'
  <2> SUFFICES ASSUME NEW i \in DOMAIN Roots, NEW j \in DOMAIN Roots, i < j
               PROVE  Done(Roots[i])' \/ Pending(Roots[j])'
    BY DEF Turns
  <2>1. CASE j = k
    BY <1>5, <2>1
  <2>2. CASE i = k
    <3>1. j # k
      BY <2>2, RootsAreDistinct
    <3> QED BY <1>1, <1>2, <1>3, <1>4, <2>2, <3>1 DEF Turns
  <2>3. CASE i # k /\ j # k
    BY <1>1, <1>3, <1>4, <2>3 DEF Turns
  <2> QED BY <2>1, <2>2, <2>3
<1>7. OneReservation'
  BY <1>1, <1>3 DEF Orderly, OneReservation, Exists
<1>8. ASSUME ~Done(r), k + 1 \in DOMAIN Roots
      PROVE  Reserved' # {}
  <2>1. k < k + 1 /\ k + 1 # k
    BY <1>2, RootsAreDistinct
  <2>2. Pending(Roots[k + 1])'
    BY <1>1, <1>2, <1>3, <1>4, <1>8, <2>1 DEF Turns
  <2> QED BY <1>4, <1>8, <2>2 DEF Pending, Reserved, Exists
<1>9. \A s \in RootSet : Exists(s)' => Exists(s)
  BY <1>3 DEF Exists
<1>10. \A s \in RootSet : disk'[s].id \in {0, remover[p].ids[s]}
  BY <1>2
<1> QED BY <1>1, <1>2, <1>5, <1>6, <1>7, <1>8, <1>9, <1>10

(* The visit of a directory is over.                                       *)
LEMMA NextRootKeeps ==
    ASSUME RemovalInv, NEW p \in Removers,
           remover[p].at \in {"empty", "rmdir"},
           OnlyRemoval, hits \subseteq hits', NextRoot(p),
           disk' \in [RootSet -> Entries],
           ~OldHelper =>
             /\ ~token
             /\ \A s \in RootSet : Exists(s)' => Exists(s)
             /\ OneReservation'
             /\ Turns'
             /\ remover[p].root \in DOMAIN Roots
             /\ \A i \in DOMAIN Roots : i <= remover[p].root => Done(Roots[i])'
             /\ \A s \in RootSet : disk'[s].id \in {0, remover[p].ids[s]}
             /\ remover[p].root + 1 \in DOMAIN Roots => Reserved' # {}
    PROVE  RemovalInv'
<1>1. remover[p].at \in Working /\ UNCHANGED <<token, reservations, daemon>>
  BY DEF Working, OnlyRemoval
<1>2. ~OldHelper' => ~OldHelper /\ daemon \notin Serving
  BY <1>1, OneRemover DEF OldHelper, Armed, Working
<1>3. CASE /\ remover[p].root < Len(Roots)
           /\ remover' = [remover EXCEPT ![p].at = "empty", ![p].root = @ + 1,
                                         ![p].saved = 0]
           /\ UNCHANGED lease
  <2>1. PICK x \in Removals :
           /\ x.at = "empty" /\ x.root = remover[p].root + 1
           /\ x.token = remover[p].token /\ x.ids = remover[p].ids
           /\ remover' = [remover EXCEPT ![p] = x]
    <3> DEFINE y == [remover[p] EXCEPT !.at = "empty", !.root = @ + 1, !.saved = 0]
    <3>0. remover[p] \in Removals /\ remover[p].root + 1 \in Nat
      BY DEF RemovalInv, RemovalTypeOK, Removals
    <3>1. y \in Removals
      BY <3>0 DEF Removals, Working
    <3>3. /\ y.at = "empty" /\ y.root = remover[p].root + 1
          /\ y.token = remover[p].token /\ y.ids = remover[p].ids
      BY <3>0 DEF Removals
    <3>2. remover' = [remover EXCEPT ![p] = y]
      BY <1>3 DEF RemovalInv, RemovalTypeOK, Removals
    <3> QED BY <3>1, <3>2, <3>3
  <2>2. ASSUME ~OldHelper'
        PROVE  remover[p].root + 1 \in DOMAIN Roots /\ Visits(x)' /\ Reserved' # {}
    <3>1. remover[p].root + 1 \in DOMAIN Roots
      BY <1>2, <1>3, <2>2, RootsAreDistinct
    <3>2. \A i \in DOMAIN Roots : i < x.root => Done(Roots[i])'
      BY <1>2, <2>1, <2>2, RootsAreDistinct
    <3> QED BY <1>2, <2>1, <2>2, <3>1, <3>2 DEF Visits, Visiting, Handling, Freeing
  <2>3. /\ lease' \in [HandoffTokens -> Removers \cup {0}]
        /\ x.at \in {"none"} \cup Working /\ x.root \in DOMAIN Roots
    <3>1. remover[p].root \in Nat
      BY DEF RemovalInv, RemovalTypeOK, Removals
    <3> QED BY <1>3, <2>1, <3>1, RootsAreDistinct DEF RemovalInv, RemovalTypeOK, Working
  <2> QED BY <1>1, <1>2, <1>3, <2>1, <2>2, <2>3, RemoverMoves DEF InTurn
<1>4. CASE Completes(p)
  <2>1. /\ remover' = [remover EXCEPT ![p] = Idle]
        /\ lease' \in [HandoffTokens -> Removers \cup {0}]
    BY <1>4, EndMeans DEF Completes
  <2>2. PICK x \in Removals : x = Idle /\ x.at = "none"
    BY IdleIsARemoval
  <2>3. /\ Visits(x)' /\ x.at \notin Working /\ x.at \in {"none"} \cup Working
        /\ x.at \notin Visiting
    BY <2>2 DEF Visits, Working, Visiting, Handling, Freeing
  <2>4. remover' = [remover EXCEPT ![p] = x]
    BY <2>1, <2>2
  <2> QED BY <1>1, <1>2, <2>1, <2>3, <2>4, RemoverMoves DEF InTurn
<1> QED BY <1>3, <1>4 DEF NextRoot

(* A step failed: the loop starts again, or it is given up.                *)
LEMMA TryAgainKeeps ==
    ASSUME RemovalInv, NEW p \in Removers,
           remover[p].at \in {"empty", "rmdir"},
           OnlyRemoval, hits \subseteq hits',
           NEW d \in [RootSet -> Entries], TryAgain(p, d),
           ~OldHelper =>
             \A e \in [RootSet -> Entries] : e = disk' /\ SameMarks(e, d) =>
               /\ ~token
               /\ \A s \in RootSet : Exists(s)' => Exists(s)
               /\ OneReservation'
               /\ Turns'
               /\ Reserved' # {}
    PROVE  RemovalInv'
<1>1. remover[p].at \in Working /\ UNCHANGED <<token, reservations, daemon>>
  BY DEF Working, OnlyRemoval
<1>2. ~OldHelper' => ~OldHelper /\ daemon \notin Serving
  BY <1>1, OneRemover DEF OldHelper, Armed, Working
<1>3. CASE /\ remover' = [remover EXCEPT ![p].at = "completing", ![p].root = 0,
                                         ![p].ids = Idle.ids, ![p].saved = 0]
           /\ disk' = d /\ UNCHANGED lease
  <2>1. PICK x \in Removals :
           /\ x.at = "completing" /\ x.token = remover[p].token
           /\ remover' = [remover EXCEPT ![p] = x]
    <3> DEFINE y == [remover[p] EXCEPT !.at = "completing", !.root = 0,
                                       !.ids = Idle.ids, !.saved = 0]
    <3>1. y \in Removals /\ y.at = "completing" /\ y.token = remover[p].token
      BY IdleIsARemoval DEF RemovalInv, RemovalTypeOK, Removals, Working
    <3>2. remover' = [remover EXCEPT ![p] = y]
      BY <1>3 DEF RemovalInv, RemovalTypeOK, Removals
    <3> QED BY <3>1, <3>2
  <2>2. /\ Visits(x)' /\ x.at \in {"none"} \cup Working /\ x.at \notin Visiting
        /\ lease' \in [HandoffTokens -> Removers \cup {0}]
        /\ disk' \in [RootSet -> Entries] /\ SameMarks(disk', d)
    BY <1>3, <2>1 DEF Visits, Working, Visiting, Handling, Freeing, RemovalInv,
       RemovalTypeOK, SameMarks
  <2> QED BY <1>1, <1>2, <1>3, <2>1, <2>2, RemoverMoves DEF InTurn
<1>4. CASE Fails(p, d)
  <2>1. /\ remover' = [remover EXCEPT ![p] = Idle]
        /\ lease' \in [HandoffTokens -> Removers \cup {0}]
        /\ disk' \in [RootSet -> Entries] /\ SameMarks(disk', d)
    BY <1>4, FailureMeans, EndMeans
  <2>2. PICK x \in Removals : x = Idle /\ x.at = "none"
    BY IdleIsARemoval
  <2>3. /\ Visits(x)' /\ x.at \notin Working /\ x.at \in {"none"} \cup Working
        /\ x.at \notin Visiting
    BY <2>2 DEF Visits, Working, Visiting, Handling, Freeing
  <2>4. remover' = [remover EXCEPT ![p] = x]
    BY <2>1, <2>2
  <2> QED BY <1>1, <1>2, <2>1, <2>3, <2>4, RemoverMoves DEF InTurn
<1> QED BY <1>3, <1>4 DEF TryAgain

(* A directory is emptied.                                                 *)
LEMMA EmptyRootKeeps ==
    ASSUME RemovalInv, NEW p \in Removers, EmptyRoot(p)
    PROVE  RemovalInv' 
<1>1. /\ OnlyRemoval /\ UNCHANGED <<hits, reservations>>
      /\ remover[p].at = "empty" /\ remover[p].at \in Working
      /\ OldHelper' = OldHelper
  BY DEF EmptyRoot, NoFault, OnlyRemoval, At, Working, OldHelper
<1>2. PICK r : r = Here(p)
  OBVIOUS
<1>3. disk \in [RootSet -> Entries] /\ SameMarks(disk, disk)
  BY DEF RemovalInv, RemovalTypeOK, SameMarks
<1>4. ~OldHelper =>
        /\ Orderly /\ ~token /\ r \in RootSet
        /\ remover[p].root \in DOMAIN Roots /\ r = Roots[remover[p].root]
        /\ \A i \in DOMAIN Roots : i < remover[p].root => Done(Roots[i])
        /\ \A s \in RootSet : disk[s].id \in {0, remover[p].ids[s]}
        /\ Reserved # {} /\ Turns
  BY <1>1, <1>2, RootsAreDistinct
     DEF RemovalInv, Orderly, VisitsFit, Visits, RemoversHold, Armed, Visiting, Freeing,
         InTurn, Here
<1>5. CASE (remover[p].ids[r] = 0 \/ ~Exists(r)) /\ NextRoot(p) /\ UNCHANGED disk
  <2>1. ~OldHelper =>
          \A i \in DOMAIN Roots : i <= remover[p].root => Done(Roots[i])
    BY <1>4, <1>5, RootsAreDistinct DEF Done, Exists
  <2> QED BY <1>1, <1>3, <1>4, <1>5, <2>1, SameDisk, MarksStay, NextRootKeeps,
             RootsAreDistinct DEF Orderly
<1>6. CASE Fails(p, disk)
  BY <1>1, <1>3, <1>6, FailureMeans, EndKeeps
<1>7. CASE /\ remover[p].ids[r] # 0 /\ disk[r].id = remover[p].ids[r]
           /\ disk' = [disk EXCEPT ![r] = Emptied(@)]
           /\ IF disk[r].checkout
              THEN NextRoot(p)
              ELSE /\ remover' = [remover EXCEPT ![p].at = "unreserve"]
                   /\ UNCHANGED lease
  <2>1. /\ disk' \in [RootSet -> Entries]
        /\ r \in RootSet =>
             /\ disk'[r].id = disk[r].id
             /\ disk'[r].checkout = disk[r].checkout
             /\ disk'[r].reserved = IF disk[r].checkout THEN 0 ELSE disk[r].reserved
        /\ \A s \in RootSet : s # r => disk'[s] = disk[s]
    <3>1. r \in RootSet => Emptied(disk[r]) \in Entries
      BY <1>3 DEF Entries, Emptied
    <3>2. CASE r \in RootSet
      BY <1>3, <1>7, <3>1, <3>2 DEF Emptied, Entries
    <3>3. CASE r \notin RootSet
      BY <1>3, <1>7, <3>3
    <3> QED BY <3>2, <3>3
  <2>2. CASE disk[r].checkout /\ NextRoot(p)
    <3> SUFFICES ASSUME ~OldHelper
                 PROVE  /\ ~token
                        /\ \A s \in RootSet : Exists(s)' => Exists(s)
                        /\ OneReservation'
                        /\ Turns'
                        /\ remover[p].root \in DOMAIN Roots
                        /\ \A i \in DOMAIN Roots :
                              i <= remover[p].root => Done(Roots[i])'
                        /\ \A s \in RootSet : disk'[s].id \in {0, remover[p].ids[s]}
                        /\ remover[p].root + 1 \in DOMAIN Roots => Reserved' # {}
      BY <1>1, <2>1, <2>2, NextRootKeeps
    <3>1. Done(r)' /\ disk'[r].reserved = 0 /\ disk'[r].id # 0
      BY <1>4, <1>7, <2>1, <2>2 DEF Done
    <3>2. /\ \A s \in RootSet : Exists(s)' => Exists(s)
          /\ OneReservation' /\ Turns'
          /\ \A i \in DOMAIN Roots : i < remover[p].root => Done(Roots[i])'
          /\ \A s \in RootSet : disk'[s].id \in {0, remover[p].ids[s]}
          /\ ~Done(r) /\ remover[p].root + 1 \in DOMAIN Roots => Reserved' # {}
      BY <1>1, <1>2, <1>4, <2>1, <3>1, RootVisited DEF Done, Visiting
    <3>3. \A i \in DOMAIN Roots : i <= remover[p].root => Done(Roots[i])'
      BY <1>4, <3>1, <3>2, RootsAreDistinct
    <3>4. Done(r) => Reserved' = Reserved
      <4>1. Done(r) => SameMarks(disk', disk)
        BY <1>4, <2>1, <2>2 DEF Done, SameMarks, Exists, Orderly, OneReservation
      <4> QED BY <1>1, <4>1, MarksStay
    <3> QED BY <1>4, <3>2, <3>3, <3>4
  <2>3. CASE /\ ~disk[r].checkout
             /\ remover' = [remover EXCEPT ![p].at = "unreserve"]
             /\ UNCHANGED lease
    <3>1. PICK x \in Removals :
             /\ x.at = "unreserve" /\ x.token = remover[p].token
             /\ x.root = remover[p].root /\ x.ids = remover[p].ids
             /\ remover' = [remover EXCEPT ![p] = x]
      <4> DEFINE y == [remover[p] EXCEPT !.at = "unreserve"]
      <4>1. y \in Removals
        BY DEF RemovalInv, RemovalTypeOK, Removals, Working
      <4>2. /\ y.at = "unreserve" /\ y.token = remover[p].token
            /\ y.root = remover[p].root /\ y.ids = remover[p].ids
        BY DEF RemovalInv, RemovalTypeOK, Removals
      <4>3. remover' = [remover EXCEPT ![p] = y]
        BY <2>3 DEF RemovalInv, RemovalTypeOK, Removals
      <4> QED BY <4>1, <4>2, <4>3
    <3>2. /\ lease' \in [HandoffTokens -> Removers \cup {0}]
          /\ x.at \in {"none"} \cup Working /\ x.root \in DOMAIN Roots
      BY <1>1, <2>3, <3>1 DEF RemovalInv, RemovalTypeOK, Working, Visiting
    <3>3. ASSUME ~OldHelper
          PROVE  /\ \A s \in RootSet : Exists(s)' => Exists(s)
                 /\ daemon \notin Serving
                 /\ OneReservation' /\ Turns' /\ Reserved' # {}
                 /\ Visits(x)'
      <4>1. SameMarks(disk', disk)
        BY <1>4, <2>1, <2>3, <3>3 DEF SameMarks
      <4>2. Exists(r) /\ ~disk[r].checkout
        BY <1>7, <2>3 DEF Exists
      <4>3. Visits(x)
        BY <1>4, <3>1, <3>3, <4>2 DEF Visits, Visiting, Handling, Freeing
      <4>4. daemon \notin Serving
        BY <1>1, <3>3, OneRemover DEF Armed, Working
      <4> QED BY <1>1, <1>4, <3>1, <3>3, <4>1, <4>3, <4>4, MarksStay DEF Orderly
    <3> QED BY <1>1, <1>4, <2>1, <2>3, <3>1, <3>2, <3>3, RemoverMoves DEF InTurn
  <2> QED BY <1>7, <2>2, <2>3
<1> QED BY <1>2, <1>5, <1>6, <1>7 DEF EmptyRoot, Exists

(* It could not be emptied.                                                *)
LEMMA EmptyRootFailsKeeps ==
    ASSUME RemovalInv, NEW p \in Removers, EmptyRootFails(p)
    PROVE  RemovalInv'
<1>1. /\ OnlyRemoval /\ UNCHANGED reservations /\ hits \subseteq hits'
      /\ remover[p].at = "empty" /\ remover[p].at \in Working
  BY DEF EmptyRootFails, OnlyRemoval, Fault, At, Working
<1>2. disk \in [RootSet -> Entries]
  BY DEF RemovalInv, RemovalTypeOK
<1>3. PICK d : /\ d \in {disk, [disk EXCEPT ![Here(p)].data = {}]}
               /\ TryAgain(p, d)
  BY DEF EmptyRootFails
<1>4. d \in [RootSet -> Entries] /\ SameMarks(d, disk)
  BY <1>2, <1>3 DEF Entries, SameMarks
<1>5. ASSUME ~OldHelper, SameMarks(disk', d)
      PROVE  /\ ~token
             /\ \A s \in RootSet : Exists(s)' => Exists(s)
             /\ OneReservation'
             /\ Turns'
             /\ Reserved' # {}
  <2>1. Orderly /\ ~token /\ Turns /\ Reserved # {}
    BY <1>1, <1>5
       DEF RemovalInv, Orderly, RemoversHold, InTurn, Armed, Freeing, Working
  <2>2. SameMarks(disk', disk)
    BY <1>4, <1>5 DEF SameMarks
  <2> QED BY <1>1, <2>1, <2>2, MarksStay DEF Orderly
<1> QED BY <1>1, <1>3, <1>4, <1>5, TryAgainKeeps

(* The reservation of a directory is taken away: there is another one, or  *)
(* it is remembered.                                                       *)
LEMMA UnreserveKeeps ==
    ASSUME RemovalInv, NEW p \in Removers, Unreserve(p)
    PROVE  RemovalInv'
<1>1. /\ OnlyRemoval /\ UNCHANGED <<hits, lease, reservations>>
      /\ remover[p].at = "unreserve" /\ remover[p].at \in Working
      /\ OldHelper' = OldHelper
  BY DEF Unreserve, NoFault, OnlyRemoval, At, Working, OldHelper
<1>2. PICK r : r = Here(p)
  OBVIOUS
<1>3. disk \in [RootSet -> Entries]
  BY DEF RemovalInv, RemovalTypeOK
<1>4. PICK saved :
        /\ saved = IF SameDirectory(p) THEN disk[r].reserved ELSE 0
        /\ remover' = [remover EXCEPT ![p].at = "disown", ![p].saved = saved]
        /\ disk' = IF SameDirectory(p) THEN [disk EXCEPT ![r].reserved = 0] ELSE disk
  BY <1>2 DEF Unreserve
<1>5. ~OldHelper =>
        /\ Orderly /\ ~token /\ r \in RootSet /\ daemon \notin Serving
        /\ remover[p].root \in DOMAIN Roots /\ r = Roots[remover[p].root]
        /\ Exists(r) /\ ~disk[r].checkout /\ SameDirectory(p)
        /\ Reserved # {}
  BY <1>1, <1>2, RootsAreDistinct, OneRemover
     DEF RemovalInv, Orderly, VisitsFit, Visits, RemoversHold, Armed, Freeing, Visiting,
         Handling, Working, Here, SameDirectory, Exists
<1>6. /\ disk' \in [RootSet -> Entries]
      /\ \A s \in RootSet : s # r => disk'[s] = disk[s]
      /\ r \in RootSet => /\ disk'[r].id = disk[r].id
                          /\ disk'[r].checkout = disk[r].checkout
                          /\ disk'[r].reserved \in {0, disk[r].reserved}
  BY <1>3, <1>4 DEF Entries
<1>7. PICK x \in Removals :
         /\ x.at = "disown" /\ x.token = remover[p].token
         /\ x.root = remover[p].root /\ x.ids = remover[p].ids
         /\ ~OldHelper => x.saved = saved
         /\ remover' = [remover EXCEPT ![p] = x]
  <2>1. CASE saved \in Nat
    <3> DEFINE y == [remover[p] EXCEPT !.at = "disown", !.saved = saved]
    <3>1. y \in Removals
      BY <2>1 DEF RemovalInv, RemovalTypeOK, Removals, Working
    <3>2. /\ y.at = "disown" /\ y.token = remover[p].token /\ y.saved = saved
          /\ y.root = remover[p].root /\ y.ids = remover[p].ids
      BY DEF RemovalInv, RemovalTypeOK, Removals
    <3>3. remover' = [remover EXCEPT ![p] = y]
      BY <1>4 DEF RemovalInv, RemovalTypeOK, Removals
    <3> QED BY <3>1, <3>2, <3>3
  <2>2. r \in RootSet
    BY <1>1, <1>2, RootsAreDistinct
       DEF RemovalInv, RemovalTypeOK, Visiting, Handling, Here
  <2> QED BY <1>3, <1>4, <2>1, <2>2 DEF Entries
<1>8. /\ lease' \in [HandoffTokens -> Removers \cup {0}]
      /\ x.at \in {"none"} \cup Working /\ x.root \in DOMAIN Roots
  BY <1>1, <1>7 DEF RemovalInv, RemovalTypeOK, Working, Visiting, Handling
<1>9. ASSUME ~OldHelper
      PROVE  /\ \A s \in RootSet : Exists(s)' => Exists(s)
             /\ OneReservation' /\ Turns'
             /\ Visits(x)'
  <2>1. /\ disk'[r].reserved = 0 /\ disk'[r].id = disk[r].id
        /\ disk'[r].checkout = disk[r].checkout
        /\ ~Done(r) /\ x.saved = disk[r].reserved /\ x.saved \in {0, reservations}
    BY <1>3, <1>4, <1>5, <1>6, <1>7, <1>9 DEF Done, Orderly, OneReservation, Entries
  <2>2. /\ \A s \in RootSet : Exists(s)' => Exists(s)
        /\ OneReservation' /\ Turns'
        /\ \A i \in DOMAIN Roots : i < remover[p].root => Done(Roots[i])'
        /\ \A s \in RootSet : disk'[s].id \in {0, remover[p].ids[s]}
    BY <1>1, <1>2, <1>5, <1>6, <1>9, <2>1, RootVisited DEF Visiting, Handling, Exists
  <2>3. x.saved = 0 => Reserved' # {}
    <3>1. x.saved = 0 => SameMarks(disk', disk)
      BY <1>5, <1>6, <1>9, <2>1 DEF SameMarks
    <3> QED BY <1>1, <1>5, <1>9, <3>1, MarksStay
  <2>4. Exists(r)' /\ ~disk'[r].checkout
    BY <1>5, <1>9, <2>1 DEF Exists
  <2> QED BY <1>1, <1>5, <1>7, <1>9, <2>1, <2>2, <2>3, <2>4
          DEF Visits, Visiting, Handling, Freeing
<1> QED BY <1>1, <1>5, <1>6, <1>7, <1>8, <1>9, RemoverMoves DEF InTurn, Freeing

(* Its ownership marker is taken away.                                     *)
LEMMA DisownKeeps ==
    ASSUME RemovalInv, NEW p \in Removers, Disown(p)
    PROVE  RemovalInv'
<1>1. /\ OnlyRemoval /\ UNCHANGED <<hits, lease, reservations>>
      /\ remover[p].at = "disown" /\ remover[p].at \in Working
      /\ OldHelper' = OldHelper
  BY DEF Disown, NoFault, OnlyRemoval, At, Working, OldHelper
<1>2. disk' \in [RootSet -> Entries] /\ SameMarks(disk', disk)
  <2>1. disk \in [RootSet -> Entries]
    BY DEF RemovalInv, RemovalTypeOK
  <2> QED BY <2>1 DEF Disown, Entries, SameMarks
<1>3. PICK x \in Removals :
         /\ x.at = "rmdir" /\ x.token = remover[p].token /\ x.saved = remover[p].saved
         /\ x.root = remover[p].root /\ x.ids = remover[p].ids
         /\ remover' = [remover EXCEPT ![p] = x]
  <2> DEFINE y == [remover[p] EXCEPT !.at = "rmdir"]
  <2>1. y \in Removals
    BY DEF RemovalInv, RemovalTypeOK, Removals, Working
  <2>2. /\ y.at = "rmdir" /\ y.token = remover[p].token /\ y.saved = remover[p].saved
        /\ y.root = remover[p].root /\ y.ids = remover[p].ids
    BY DEF RemovalInv, RemovalTypeOK, Removals
  <2>3. remover' = [remover EXCEPT ![p] = y]
    BY DEF Disown, RemovalInv, RemovalTypeOK, Removals
  <2> QED BY <2>1, <2>2, <2>3
<1>4. /\ lease' \in [HandoffTokens -> Removers \cup {0}]
      /\ x.at \in {"none"} \cup Working /\ x.root \in DOMAIN Roots
  BY <1>1, <1>3 DEF RemovalInv, RemovalTypeOK, Working, Visiting, Handling, Freeing
<1>5. ASSUME ~OldHelper
      PROVE  /\ ~token /\ daemon \notin Serving
             /\ \A s \in RootSet : Exists(s)' => Exists(s)
             /\ OneReservation' /\ Turns'
             /\ Visits(x)'
  <2>1. Orderly /\ ~token /\ Turns /\ daemon \notin Serving
    BY <1>1, <1>5, OneRemover
       DEF RemovalInv, Orderly, RemoversHold, InTurn, Armed, Working
  <2>2. Visits(x)
    BY <1>1, <1>3, <2>1 DEF Orderly, VisitsFit, Visits, Visiting, Handling, Freeing
  <2> QED BY <1>1, <1>2, <2>1, <2>2, MarksStay DEF Orderly
<1> QED BY <1>1, <1>2, <1>3, <1>4, <1>5, RemoverMoves DEF InTurn, Freeing

(* The directory is removed, or gets its markers back.                     *)
LEMMA RemoveDirectoryKeeps ==
    ASSUME RemovalInv, NEW p \in Removers, RemoveDirectory(p)
    PROVE  RemovalInv'
<1>1. /\ OnlyRemoval /\ hits \subseteq hits' /\ UNCHANGED reservations
      /\ remover[p].at = "rmdir" /\ remover[p].at \in Working
  BY DEF RemoveDirectory, NoFault, Fault, OnlyRemoval, At, Working
<1>2. PICK r : r = Here(p)
  OBVIOUS
<1>3. disk \in [RootSet -> Entries] /\ SameMarks(disk, disk)
  BY DEF RemovalInv, RemovalTypeOK, SameMarks
<1>4. ~OldHelper =>
        /\ Orderly /\ ~token /\ r \in RootSet
        /\ remover[p].root \in DOMAIN Roots /\ r = Roots[remover[p].root]
        /\ Exists(r) /\ ~disk[r].checkout /\ SameDirectory(p) /\ ~Done(r)
        /\ remover[p].saved \in {0, reservations} /\ reservations > 0
        /\ remover[p].saved = 0 => Reserved # {}
  <2> SUFFICES ASSUME ~OldHelper
               PROVE  /\ Orderly /\ ~token /\ r \in RootSet
                      /\ remover[p].root \in DOMAIN Roots /\ r = Roots[remover[p].root]
                      /\ Exists(r) /\ ~disk[r].checkout /\ SameDirectory(p) /\ ~Done(r)
                      /\ remover[p].saved \in {0, reservations} /\ reservations > 0
                      /\ remover[p].saved = 0 => Reserved # {}
    OBVIOUS
  <2>1. Orderly
    BY DEF RemovalInv
  <2>2. remover[p].at \in Visiting /\ remover[p].at \in Handling /\ remover[p].at \in Freeing
        /\ remover[p].at \in Armed
    BY <1>1 DEF Visiting, Handling, Freeing, Armed, Working
  <2>3. ~token /\ reservations > 0
    BY <1>1, <2>1, <2>2 DEF Orderly, RemoversHold
  <2>4. Visits(remover[p])
    BY <2>1 DEF Orderly, VisitsFit
  <2>5. r = Roots[remover[p].root]
    BY <1>2 DEF Here
  <2>6. /\ remover[p].root \in DOMAIN Roots
        /\ Exists(r) /\ ~disk[r].checkout
        /\ \A s \in RootSet : disk[s].id \in {0, remover[p].ids[s]}
        /\ remover[p].saved \in {0, reservations}
        /\ remover[p].saved = 0 => Reserved # {}
    BY <2>2, <2>4, <2>5 DEF Visits
  <2>7. r \in RootSet
    BY <2>5, <2>6, RootsAreDistinct
  <2>8. SameDirectory(p) /\ ~Done(r)
    BY <1>2, <2>6, <2>7 DEF SameDirectory, Exists, Done
  <2> QED BY <2>1, <2>3, <2>5, <2>6, <2>7, <2>8
<1>5. CASE disk' = [disk EXCEPT ![r] = Nothing] /\ NextRoot(p)
  <2>1. Nothing \in Entries /\ Nothing.id = 0 /\ Nothing.reserved = 0
    BY DEF Nothing, Entries
  <2>2. disk' \in [RootSet -> Entries]
    BY <1>3, <1>5, <2>1
  <2> SUFFICES ASSUME ~OldHelper
               PROVE  /\ ~token
                      /\ \A s \in RootSet : Exists(s)' => Exists(s)
                      /\ OneReservation'
                      /\ Turns'
                      /\ remover[p].root \in DOMAIN Roots
                      /\ \A i \in DOMAIN Roots :
                            i <= remover[p].root => Done(Roots[i])'
                      /\ \A s \in RootSet : disk'[s].id \in {0, remover[p].ids[s]}
                      /\ remover[p].root + 1 \in DOMAIN Roots => Reserved' # {}
    BY <1>1, <1>5, <2>2, NextRootKeeps
  <2>3. /\ disk'[r] = Nothing /\ Done(r)'
        /\ \A s \in RootSet : s # r => disk'[s] = disk[s]
    BY <1>3, <1>4, <1>5, <2>1 DEF Done, Exists
  <2>4. /\ \A s \in RootSet : Exists(s)' => Exists(s)
        /\ OneReservation' /\ Turns'
        /\ \A i \in DOMAIN Roots : i < remover[p].root => Done(Roots[i])'
        /\ \A s \in RootSet : disk'[s].id \in {0, remover[p].ids[s]}
        /\ remover[p].root + 1 \in DOMAIN Roots => Reserved' # {}
    BY <1>1, <1>2, <1>4, <2>1, <2>2, <2>3, RootVisited DEF Visiting, Handling, Freeing
  <2>5. \A i \in DOMAIN Roots : i <= remover[p].root => Done(Roots[i])'
    BY <1>4, <2>3, <2>4, RootsAreDistinct
  <2> QED BY <1>4, <2>4, <2>5
<1>6. CASE TryAgain(p, MarkersRestored(p))
  <2>1. PICK d : d = MarkersRestored(p)
    OBVIOUS
  <2>2. d \in [RootSet -> Entries]
    <3>1. remover[p].saved \in Nat
      BY DEF RemovalInv, RemovalTypeOK, Removals
    <3> QED BY <1>2, <1>3, <2>1, <3>1, ZenonT(60) DEF MarkersRestored, Entries
  <2>3. ASSUME ~OldHelper, disk' \in [RootSet -> Entries], SameMarks(disk', d)
        PROVE  /\ ~token
               /\ \A s \in RootSet : Exists(s)' => Exists(s)
               /\ OneReservation'
               /\ Turns'
               /\ Reserved' # {}
    <3>1. /\ disk'[r].id = disk[r].id /\ disk'[r].checkout = disk[r].checkout
          /\ disk'[r].reserved = IF remover[p].saved = 0 THEN disk[r].reserved
                                                       ELSE remover[p].saved
          /\ \A s \in RootSet : s # r =>
               /\ disk'[s].id = disk[s].id
               /\ disk'[s].reserved = disk[s].reserved
               /\ disk'[s].checkout = disk[s].checkout
      BY <1>2, <1>3, <1>4, <2>1, <2>3 DEF MarkersRestored, Entries, SameMarks
    <3>2. disk'[r].reserved \in {0, reservations} /\ disk'[r].id # 0
      BY <1>4, <2>3, <3>1 DEF Orderly, OneReservation, Exists
    <3>3. /\ \A s \in RootSet : Exists(s)' => Exists(s)
          /\ OneReservation' /\ Turns'
      BY <1>1, <1>2, <1>4, <2>3, <3>1, <3>2, RootVisited DEF Visiting, Handling, Freeing
    <3>4. Reserved' # {}
      <4>1. CASE remover[p].saved = 0
        <5>1. SameMarks(disk', disk)
          BY <3>1, <4>1 DEF SameMarks
        <5> QED BY <1>1, <1>4, <2>3, <4>1, <5>1, MarksStay
      <4>2. CASE remover[p].saved # 0
        <5>1. disk'[r].reserved # 0
          BY <3>1, <4>2
        <5> QED BY <1>4, <2>3, <3>2, <5>1 DEF Reserved, Exists
      <4> QED BY <4>1, <4>2
    <3> QED BY <1>4, <2>3, <3>3, <3>4
  <2> QED BY <1>1, <1>6, <2>1, <2>2, <2>3, TryAgainKeeps
<1>7. CASE Fails(p, disk)
  BY <1>1, <1>3, <1>7, FailureMeans, EndKeeps
<1>8. CASE ~SameDirectory(p) /\ TryAgain(p, disk)
  BY <1>1, <1>3, <1>4, <1>8, TryAgainKeeps
<1> QED BY <1>2, <1>5, <1>6, <1>7, <1>8 DEF RemoveDirectory

----------------------------------------------------------------------------
(* The command of a client.                                                *)
LEMMA RemoveUserDataKeeps ==
    ASSUME RemovalInv, NEW q \in Quiescers, RemoveUserData(q)
    PROVE  RemovalInv'
<1>1. UNCHANGED <<daemon, boots, token, session, disk, reservations, prep, remover,
                  lease, hits>>
  BY DEF RemoveUserData, OnlyClient, NoFault
<1>2. CASE UNCHANGED vars
  BY <1>1, <1>2, NothingHappens
<1>3. CASE daemon = "up" /\ reservations < MaxReservations /\ Close(q)
  <2>1. Inv'
    BY <1>3, QuiescerPreserves DEF QuiescerStep, RemovalInv
  <2>2. RemovalTypeOK'
    BY <1>1 DEF RemovalInv, RemovalTypeOK
  <2>3. quiescer[q] = "idle" /\ quiescer' = [quiescer EXCEPT ![q] = "closing"]
    BY <1>3 DEF Close, MoveQuiescer
  <2>4. prep[q] = 0
    BY <2>3, Writes DEF RemovalInv, BelongsToDaemon
  <2>5. BelongsToDaemon'
    BY <1>1, <1>3, <2>3, <2>4, Writes
       DEF RemovalInv, BelongsToDaemon, Inv, TypeOK, Serving
  <2>6. OldHelper' \/ Orderly'
    BY <1>1, <2>3, RemovalRests DEF RemovalInv, Inv, TypeOK
  <2> QED BY <2>1, <2>2, <2>5, <2>6 DEF RemovalInv
<1> QED BY <1>2, <1>3 DEF RemoveUserData

(* No step of a client or of its request disturbs the invariant.           *)
LEMMA ClientKeeps ==
    ASSUME RemovalInv, NEW q \in Quiescers, PrepareStep(q) \/ ClientStep(q)
    PROVE  RemovalInv'
<1>1. CASE PrepareStep(q)
  BY <1>1, ValidateKeeps, RefuseEarlyKeeps, WriteMarkerKeeps, LaunchHelperKeeps,
     WithdrawKeeps, RespondKeeps DEF PrepareStep
<1>2. CASE Observe(q) \/ RunAgain(q)
  BY <1>2, NothingHappens DEF Observe, RunAgain, OnlyClient, NoFault
<1>3. CASE RemoveUserData(q) \/ RecoverPreparedRemoval(q)
  BY <1>3, RemoveUserDataKeeps, RecoverKeeps
<1> QED BY <1>1, <1>2, <1>3 DEF ClientStep

(* Nor does a step of the daemon.                                          *)
LEMMA DaemonKeeps ==
    ASSUME RemovalInv, DaemonStep
    PROVE  RemovalInv'
BY GateStepKeeps, DaemonGoesOn, RemoveTokenKeeps, KillDaemonKeeps,
   StartDaemonKeeps, ServeKeeps DEF DaemonStep

(* Nor does a step of whoever removes.                                     *)
LEMMA RemoverKeeps ==
    ASSUME RemovalInv, NEW p \in Removers,
           RemoverStep(p) \/ EmptyRootFails(p) \/ KillRemover(p)
    PROVE  RemovalInv'
BY DaemonStoppedKeeps, GivingUpKeeps, CompletePreparedKeeps, EmptyRootKeeps,
   EmptyRootFailsKeeps, UnreserveKeeps, DisownKeeps, RemoveDirectoryKeeps
   DEF RemoverStep

(* Before the first step nothing is reserved and nobody removes.           *)
LEMMA RemovalInitEstablishes == RemovalInit => RemovalInv
<1> SUFFICES ASSUME RemovalInit PROVE RemovalInv
  OBVIOUS
<1>1. Inv
  BY InitEstablishes DEF RemovalInit
<1>2. disk \in [RootSet -> Entries]
      /\ \A r \in RootSet : disk[r].id = 1 /\ disk[r].reserved = 0
  BY DEF RemovalInit, Entries
<1>3. \A p \in Removers : remover[p] = Idle
  BY DEF RemovalInit
<1>4. Reserved = {}
  BY <1>2 DEF Reserved
<1>5. RemovalTypeOK
  <2>1. /\ daemon = "up" /\ boots = 1 /\ token = TRUE /\ session = FALSE
        /\ reservations = 0
        /\ prep = [q \in Quiescers |-> 0]
        /\ remover = [p \in Removers |-> Idle]
        /\ lease = [n \in HandoffTokens |-> 0]
    BY DEF RemovalInit
  <2>2. Idle.at # "starting" /\ Idle.at \notin Visiting
    BY IdleIsARemoval DEF Visiting, Handling, Freeing
  <2>3. 0 \in 0 .. MaxReservations
    BY RootsAreDistinct
  <2>4. prep \in [Quiescers -> 0 .. HelperStage + 1]
    BY <2>1, Writes
  <2>5. /\ remover \in [Removers -> Removals]
        /\ \A p \in Removers :
             /\ remover[p].at = "starting" => remover[p].token = p
             /\ remover[p].at \in Visiting => remover[p].root \in DOMAIN Roots
    BY <2>1, <2>2, IdleIsARemoval
  <2>6. lease \in [HandoffTokens -> Removers \cup {0}]
    BY <2>1
  <2>7. token \in BOOLEAN /\ session \in BOOLEAN
    BY <2>1
  <2>8. /\ daemon \in {"up", "stopping", "released", "gone", "starting"}
        /\ boots \in Nat \ {0} /\ reservations \in 0 .. MaxReservations
    BY <2>1, <2>3
  <2> QED BY <1>2, <2>4, <2>5, <2>6, <2>7, <2>8 DEF RemovalTypeOK
<1>6. BelongsToDaemon
  BY DEF RemovalInit, Init, BelongsToDaemon, Serving
<1>7. OneReservation /\ RemoversHold /\ InTurn /\ StartsAlone
  BY <1>2, <1>3, <1>4, IdleIsARemoval
     DEF RemovalInit, OneReservation, RemoversHold, InTurn, StartsAlone, Working
<1>8. ReservedByRequest
  <2>1. \A q \in Quiescers : \A i \in DOMAIN Roots : ~(i < prep[q])
    BY RootsAreDistinct DEF RemovalInit
  <2>2. \A q \in Quiescers : quiescer[q] = "idle"
    BY DEF RemovalInit, Init
  <2> QED BY <1>2, <1>4, <2>1, <2>2 DEF ReservedByRequest, Exists
<1>9. VisitsFit
  BY <1>3, IdleIsARemoval DEF VisitsFit, Visits, Visiting, Handling, Freeing
<1> QED BY <1>1, <1>5, <1>6, <1>7, <1>8, <1>9 DEF RemovalInv, Orderly

(* The invariant is inductive.                                             *)
LEMMA RemovalStepKeeps ==
    ASSUME RemovalInv, [RemovalNext]_rvars
    PROVE  RemovalInv'
<1>1. CASE RemovalNext
  BY <1>1, DaemonKeeps, ClientKeeps, StartHelperKeeps, RemoverKeeps DEF RemovalNext
<1>2. CASE UNCHANGED rvars
  BY <1>2, NothingHappens DEF rvars, removal
<1> QED BY <1>1, <1>2

(* Unless a helper outlived its reservation: one process removes at a      *)
(* time, with the lease of the only reservation and after the daemon has   *)
(* given up its token; it visits the directories in turn, so that every    *)
(* one it has still to visit keeps the reservation that bars a new daemon. *)
THEOREM RemovalInvariance == RemovalSpec => []RemovalInv
<1>1. RemovalInit => RemovalInv
  BY RemovalInitEstablishes
<1>2. RemovalInv /\ [RemovalNext]_rvars => RemovalInv'
  BY RemovalStepKeeps
<1> QED BY <1>1, <1>2, PTL DEF RemovalSpec

(* The gate is as good when a request deletes data and the daemon is       *)
(* killed and started again: no request is at work while it is held, the   *)
(* last one to end wakes whoever waits, and one request holds it.          *)
THEOREM GateHoldsDuringRemoval ==
    RemovalSpec => []Exclusion /\ []NoLostWakeup /\ []OneQuiescer
<1>1. RemovalInv => Exclusion /\ NoLostWakeup /\ OneQuiescer
  BY DEF RemovalInv, Inv
<1> QED BY <1>1, RemovalInvariance, PTL

(* What a process that fails leaves of the data.                           *)
LEMMA FailureKeepsData ==
    ASSUME RemovalInv, NEW p, NEW r \in RootSet, Fails(p, disk)
    PROVE  disk'[r].data = disk[r].data
<1>1. disk[r] \in Entries
  BY DEF RemovalInv, RemovalTypeOK
<1> QED BY <1>1 DEF Fails, Entries

(* Data is lost to nobody but a process that removes, past its wait.       *)
LEMMA DataStays ==
    ASSUME RemovalInv, [RemovalNext]_rvars, NEW r \in RootSet,
           \A p \in Removers : remover[p].at \notin Armed
    PROVE  disk[r].data \subseteq disk'[r].data
<1>1. disk \in [RootSet -> Entries]
  BY DEF RemovalInv, RemovalTypeOK
<1>2. CASE UNCHANGED disk
  BY <1>2
<1>3. CASE Serve
  BY <1>1, <1>3 DEF Serve, Entries
<1>4. ASSUME NEW q \in Quiescers, WriteMarker(q) \/ Withdraw(q)
      PROVE  disk'[r].data = disk[r].data
  <2>1. CASE WriteMarker(q)
    BY <1>1, <2>1 DEF WriteMarker, Entries
  <2>2. CASE Withdraw(q)
    BY <1>1, <2>2 DEF Withdraw, ClearReservation, Entries
  <2> QED BY <1>4, <2>1, <2>2
<1>5. ASSUME NEW p, Fails(p, disk)
      PROVE  disk'[r].data = disk[r].data
  BY <1>5, FailureKeepsData
<1>6. CASE UNCHANGED rvars
  BY <1>2, <1>6 DEF rvars, removal
<1>7. CASE DaemonStep
  <2>1. DaemonStep => Serve \/ UNCHANGED disk
    BY DEF DaemonStep, GateStep, removal, LaunchSession, SessionEnds, ShutdownDaemon,
       RemoveToken, DaemonExits, KillDaemon, StartDaemon
  <2> QED BY <1>2, <1>3, <1>7, <2>1
<1>8. ASSUME NEW q \in Quiescers, PrepareStep(q) \/ ClientStep(q)
      PROVE  disk[r].data \subseteq disk'[r].data
  <2>1. WriteMarker(q) \/ Withdraw(q) \/ UNCHANGED disk
    BY <1>8 DEF PrepareStep, Validate, RefuseEarly, LaunchHelper, Respond, ClientStep,
       RemoveUserData, Observe, RecoverPreparedRemoval, RunAgain, OnlyClient
  <2> QED BY <1>2, <1>4, <1>8, <2>1
<1>9. ASSUME NEW n \in HandoffTokens, StartHelper(n)
      PROVE  disk[r].data \subseteq disk'[r].data
  BY <1>2, <1>5, <1>9 DEF StartHelper
<1>10. ASSUME NEW p \in Removers, RemoverStep(p) \/ EmptyRootFails(p) \/ KillRemover(p)
       PROVE  disk[r].data \subseteq disk'[r].data
  <2>1. DaemonStopped(p) \/ DaemonDidNotStop(p) \/ KillRemover(p)
    BY <1>10 DEF RemoverStep, EmptyRootFails, CompletePrepared, EmptyRoot, Unreserve,
       Disown, RemoveDirectory, At, Armed, Working
  <2> QED BY <1>2, <1>5, <2>1 DEF DaemonStopped, DaemonDidNotStop, KillRemover
<1> QED BY <1>6, <1>7, <1>8, <1>9, <1>10 DEF RemovalNext

(* Data disappears only when no daemon serves from it and no Session runs, *)
(* an old helper apart: whatever is asked of the daemon in the meantime,   *)
(* and whoever dies.                                                       *)
THEOREM DataIsQuiet == RemovalSpec => DataIsQuietWhenDeleted
<1> DEFINE Quiet == \A r \in RootSet :
                      disk[r].data \ disk'[r].data # {} =>
                        OldHelper \/ (daemon \notin {"up", "stopping"} /\ ~session)
<1>1. ASSUME RemovalInv, [RemovalNext]_rvars
      PROVE  Quiet
  <2> SUFFICES ASSUME NEW r \in RootSet, disk[r].data \ disk'[r].data # {}, ~OldHelper
               PROVE  daemon \notin {"up", "stopping"} /\ ~session
    OBVIOUS
  <2>1. PICK p \in Removers : remover[p].at \in Armed
    BY <1>1, DataStays
  <2> QED BY <1>1, <2>1, OneRemover DEF Armed, Serving
<1>2. RemovalSpec => [][Quiet]_rvars
  BY <1>1, RemovalInvariance, PTL DEF RemovalSpec
<1> QED BY <1>2 DEF DataIsQuietWhenDeleted
============================================================================
