---------------------------- MODULE RoomsProofs ----------------------------
(* Theorems about Rooms, for every number of players, tabs, rooms, jobs,     *)
(* matches, failures and restarts.                                           *)
EXTENDS Rooms, FiniteSetTheorems, TLAPS

USE UserAssumption, RoomBoundAssumption

-----------------------------------------------------------------------------
(* The inductive invariant                                                  *)

\* The frame of a call.
Frame == [pc: CallPC, room: RoomIds \cup {NoId}, seen: Room \cup {NoRoom},
          job: JobIds \cup {NoId}]

\* The awaits at which a call knows its room, and at which it has read it to
\* answer ready; and those that follow the answer of both players.
Roomed == {"addJob", "takeSeat", "stop", "writeReady", "removeJob", "removeRoom",
           "createMatch"}
Reading == {"writeReady", "removeJob", "removeRoom", "createMatch"}
Going == {"removeJob", "removeRoom", "createMatch"}

\* A flag of document d of room r is the answer of a player in the seat.
Answers(d, r) ==
  /\ d.player1Ready => <<d.player1, r>> \in answered
  /\ d.player2Ready => d.player2 # Nobody /\ <<d.player2, r>> \in answered

\* Nobody has left his seat since d was read.
SameSeats(now, d) ==
  now.player1 = d.player1 /\ (d.player2 # Nobody => now.player2 = d.player2)

\* A document of room r, or a snapshot of it.
SeenOK(d, r) ==
  /\ d.timeoutJobId <= issued.job
  /\ d.timeoutJobId \in DOMAIN jobs => jobs[d.timeoutJobId].room = r
  /\ r \notin contended =>
       Answers(d, r) /\ (r \in DOMAIN rooms => SameSeats(rooms[r], d))

\* The call that is about to take a seat has queued a timeout that nobody knows.
SeatOK(f) ==
  /\ f.job # NoId
  /\ \A r \in DOMAIN rooms : rooms[r].timeoutJobId # f.job
  /\ f.room \in DOMAIN rooms =>
       /\ f.job \in DOMAIN jobs /\ jobs[f.job].room = f.room
       /\ jobs[f.job].state # "failed" \/ f.room \in stranded

\* A call knows its room and its timeout; the document it has read stays in order;
\* one that saw both flags knows that both players answered.
FrameOK(f) ==
  /\ f \in Frame
  /\ f.room <= issued.room /\ f.job <= issued.job
  /\ f.pc \in Roomed => f.room # NoId
  /\ f.pc \in Reading => f.seen \in Room /\ SeenOK(f.seen, f.room)
  /\ f.pc \in Going /\ f.room \notin contended =>
       <<f.seen.player1, f.room>> \in answered /\ <<f.seen.player2, f.room>> \in answered
  /\ f.pc = "takeSeat" => SeatOK(f)

\* All calls are in order.
FramesOK == calls \in [Slots -> Frame] /\ \A s \in Slots : FrameOK(calls[s])

\* The documents are in order, under ids that were given out.
RoomsOK ==
  \A r \in DOMAIN rooms : rooms[r] \in Room /\ r <= issued.room /\ SeenOK(rooms[r], r)

\* The jobs belong to rooms, under ids that were given out.
JobsOK ==
  \A j \in DOMAIN jobs :
    jobs[j] \in [room: RoomIds, state: JobState] /\ j <= issued.job /\ jobs[j].room <= issued.room

\* No two calls are to write the same timeout, and none knows what another is to write.
Own(f, g) ==
  f.pc = "takeSeat" =>
    /\ g.pc = "takeSeat" => g.job # f.job
    /\ g.pc \in Reading => g.seen.timeoutJobId # f.job

\* The timeout that a call has queued is its own until it has taken the seat.
OwnJobs == \A s, t \in Slots : s # t => Own(calls[s], calls[t])

\* The inductive invariant.
Inv ==
  TypeOK /\ FramesOK /\ RoomsOK /\ JobsOK /\ OwnJobs /\ ReadyConsent /\ FullRoomGuarded

-----------------------------------------------------------------------------
(* What every step keeps                                                    *)

\* Ids are given out once, jobs keep their rooms, seats change hands in contended
\* rooms only, and what history holds stays.
Grows ==
  /\ issued' \in [room: 0..MaxRooms, job: 0..MaxJobs, match: 0..MaxMatches, fault: 0..MaxFaults]
  /\ issued.room <= issued'.room /\ issued.job <= issued'.job
  /\ answered \subseteq answered' /\ contended \subseteq contended' /\ stranded \subseteq stranded'
  /\ \A r \in DOMAIN rooms' :
       \/ r > issued.room
       \/ r \in DOMAIN rooms /\ (r \notin contended' => SameSeats(rooms'[r], rooms[r]))
  /\ \A j \in DOMAIN jobs' :
       \/ j > issued.job
       \/ j \in DOMAIN jobs /\ jobs'[j].room = jobs[j].room

\* The timeouts that a call has queued, or has read of, have been given out.
LEMMA FrameIds ==
  ASSUME NEW f, FrameOK(f)
  PROVE  /\ f.job \in Int /\ f.job <= issued.job
         /\ f.pc \in Reading =>
              f.seen.timeoutJobId \in Int /\ f.seen.timeoutJobId <= issued.job
<1>1. f.job \in Int /\ f.job <= issued.job
  BY DEF FrameOK, Frame, JobIds, NoId
<1>2. f.pc \in Reading =>
        f.seen.timeoutJobId \in Int /\ f.seen.timeoutJobId <= issued.job
  BY DEF FrameOK, SeenOK, Room, JobIds, NoId
<1> QED
  BY <1>1, <1>2

\* A snapshot stays in order.
LEMMA SeenKept ==
  ASSUME TypeOK, Grows, NEW d \in Room, NEW r \in RoomIds, SeenOK(d, r), r <= issued.room
  PROVE  SeenOK(d, r)'
<1>1. /\ d.timeoutJobId \in Int /\ issued.job \in Int /\ issued'.job \in Int
      /\ issued.room \in Int /\ r \in Int
  BY DEF Room, JobIds, NoId, RoomIds, TypeOK, Grows
<1>2. d.timeoutJobId <= issued'.job
  BY <1>1 DEF SeenOK, Grows
<1>3. d.timeoutJobId \in DOMAIN jobs' => jobs'[d.timeoutJobId].room = r
  BY <1>1 DEF SeenOK, Grows
<1>4. r \notin contended' => Answers(d, r)'
  BY DEF SeenOK, Answers, Grows
<1>5. r \notin contended' /\ r \in DOMAIN rooms' => SameSeats(rooms'[r], d)
  BY <1>1 DEF SeenOK, SameSeats, Grows
<1> QED
  BY <1>2, <1>3, <1>4, <1>5 DEF SeenOK

\* A call stays in order; one that is to take a seat while its timeout waits.
LEMMA FrameKept ==
  ASSUME TypeOK, Grows, NEW f, FrameOK(f), f.pc = "takeSeat" => SeatOK(f)'
  PROVE  FrameOK(f)'
<1>1. /\ f.room \in Int /\ f.job \in Int /\ issued.room \in Int /\ issued.job \in Int
      /\ issued'.room \in Int /\ issued'.job \in Int /\ f \in Frame
  BY DEF FrameOK, Frame, RoomIds, JobIds, NoId, TypeOK, Grows
<1>2. f.room <= issued'.room /\ f.job <= issued'.job
  BY <1>1 DEF FrameOK, Grows
<1>3. f.pc \in Reading => f.seen \in Room /\ SeenOK(f.seen, f.room)'
  <2>1. Reading \subseteq Roomed
    BY DEF Reading, Roomed
  <2>2. f.pc \in Reading => f.seen \in Room /\ f.room \in RoomIds
    BY <1>1, <2>1 DEF FrameOK, Frame
  <2> QED
    BY <2>2, SeenKept DEF FrameOK
<1>4. f.pc \in Going /\ f.room \notin contended' =>
        <<f.seen.player1, f.room>> \in answered' /\ <<f.seen.player2, f.room>> \in answered'
  BY DEF FrameOK, Grows
<1> QED
  BY <1>1, <1>2, <1>3, <1>4 DEF FrameOK

\* A call that is to take a seat stays in order while its timeout waits for it and
\* no room knows it.
LEMMA SeatKept ==
  ASSUME TypeOK, Grows, NEW f, FrameOK(f), f.pc = "takeSeat",
         \A r \in DOMAIN rooms' : rooms'[r].timeoutJobId # f.job,
         f.room \in DOMAIN rooms \cap DOMAIN rooms' =>
           /\ f.job \in DOMAIN jobs'
           /\ jobs'[f.job].state # "failed" \/ f.room \in stranded'
  PROVE  SeatOK(f)'
<1>1. /\ f.room \in Int /\ f.job \in Int /\ issued.room \in Int /\ issued.job \in Int
      /\ f.room <= issued.room /\ f.job <= issued.job /\ SeatOK(f)
  BY DEF FrameOK, Frame, RoomIds, JobIds, NoId, TypeOK
<1>2. f.room \in DOMAIN rooms' => f.room \in DOMAIN rooms
  BY <1>1 DEF Grows
<1>3. f.job \in DOMAIN jobs' => f.job \in DOMAIN jobs /\ jobs'[f.job].room = jobs[f.job].room
  BY <1>1 DEF Grows
<1> QED
  BY <1>1, <1>2, <1>3 DEF SeatOK

\* The parts of the types that the rest of the invariant does not say.
Bounds ==
  /\ DOMAIN rooms \subseteq RoomIds /\ DOMAIN jobs \subseteq JobIds
  /\ DOMAIN matches \subseteq MatchIds
  /\ \A m \in DOMAIN matches : matches[m] \in [room: RoomIds, players: SUBSET Users]
  /\ answered \subseteq Users \X RoomIds /\ repeated \subseteq RoomIds
  /\ contended \subseteq RoomIds /\ stranded \subseteq RoomIds /\ slipped \subseteq Users

\* The types follow from the parts.
LEMMA TypesAgain ==
  ASSUME Grows, Bounds', RoomsOK', JobsOK', FramesOK'
  PROVE  TypeOK'
  BY DEF Grows, Bounds, RoomsOK, JobsOK, FramesOK, TypeOK, Frame

\* Rooms that stay, while others may go or come.
LEMMA RoomsStay ==
  ASSUME TypeOK, RoomsOK, Grows,
         \A r \in DOMAIN rooms' :
           \/ r \in DOMAIN rooms /\ rooms'[r] = rooms[r]
           \/ \A d : d = rooms'[r] => d \in Room /\ r <= issued'.room /\ SeenOK(d, r)'
  PROVE  RoomsOK'
<1> SUFFICES ASSUME NEW r \in DOMAIN rooms', NEW d, d = rooms'[r]
             PROVE  d \in Room /\ r <= issued'.room /\ SeenOK(d, r)'
  BY DEF RoomsOK
<1>1. CASE r \in DOMAIN rooms /\ rooms'[r] = rooms[r]
  <2>1. d \in Room /\ r \in RoomIds /\ r <= issued.room /\ SeenOK(d, r)
    BY <1>1 DEF RoomsOK, TypeOK
  <2>2. SeenOK(d, r)'
    BY <2>1, SeenKept
  <2>3. r <= issued'.room
    BY <2>1 DEF Grows, TypeOK, RoomIds
  <2> QED
    BY <2>1, <2>2, <2>3
<1> QED
  BY <1>1

\* Jobs that stay, in whatever state, while others may go.
LEMMA JobsStay ==
  ASSUME TypeOK, JobsOK, Grows,
         \A j \in DOMAIN jobs' : j \in DOMAIN jobs /\ jobs'[j].room = jobs[j].room
                                 /\ jobs'[j] \in [room: RoomIds, state: JobState]
  PROVE  JobsOK'
<1> SUFFICES ASSUME NEW j \in DOMAIN jobs'
             PROVE  j <= issued'.job /\ jobs'[j].room <= issued'.room
  BY DEF JobsOK
<1>1. j \in Int /\ jobs[j].room \in Int /\ j <= issued.job /\ jobs[j].room <= issued.room
  BY DEF JobsOK, TypeOK, JobIds, RoomIds
<1> QED
  BY <1>1 DEF Grows, TypeOK

\* The calls but one stay as they are; those that are to take a seat still may.
LEMMA OneCall ==
  ASSUME Inv, Grows, NEW s \in Slots, NEW f, calls' = [calls EXCEPT ![s] = f], FrameOK(f)',
         \A t \in Slots \ {s} : calls[t].pc = "takeSeat" =>
           /\ \A r \in DOMAIN rooms' : rooms'[r].timeoutJobId # calls[t].job
           /\ calls[t].room \in DOMAIN rooms \cap DOMAIN rooms' =>
                /\ calls[t].job \in DOMAIN jobs'
                /\ jobs'[calls[t].job].state # "failed" \/ calls[t].room \in stranded',
         \A t \in Slots \ {s} : Own(f, calls[t]) /\ Own(calls[t], f)
  PROVE  FramesOK' /\ OwnJobs' /\ calls'[s] = f /\ \A t \in Slots \ {s} : calls'[t] = calls[t]
<1>1. /\ calls' \in [Slots -> Frame] /\ calls'[s] = f
      /\ \A t \in Slots \ {s} : calls'[t] = calls[t]
  BY DEF Inv, FramesOK, FrameOK
<1>2. ASSUME NEW t \in Slots, NEW g, g = calls'[t] PROVE FrameOK(g)'
  <2>1. CASE t = s
    BY <1>1, <1>2, <2>1
  <2>2. CASE t # s
    <3>1. FrameOK(g) /\ g = calls[t]
      BY <1>1, <1>2, <2>2 DEF Inv, FramesOK
    <3>2. g.pc = "takeSeat" => SeatOK(g)'
      BY <2>2, <3>1, SeatKept DEF Inv
    <3> QED
      BY <3>1, <3>2, FrameKept DEF Inv
  <2> QED
    BY <2>1, <2>2
<1>3. OwnJobs'
  BY <1>1 DEF Inv, OwnJobs, Own
<1> QED
  BY <1>1, <1>2, <1>3 DEF FramesOK

\* A call that has not begun, or has returned.
LEMMA IdleOK ==
  ASSUME TypeOK
  PROVE  FrameOK(IdleFrame) /\ IdleFrame.pc = "idle"
<1>1. IdleFrame \in Frame
  BY DEF IdleFrame, Frame, CallPC
<1>2. issued.room \in Nat /\ issued.job \in Nat
  BY DEF TypeOK
<1> QED
  BY <1>1, <1>2 DEF FrameOK, IdleFrame, Roomed, Reading, Going, NoId

\* While rooms and jobs stay, nothing is given out that others have.
LEMMA SameGrows ==
  ASSUME TypeOK, UNCHANGED <<rooms, jobs, answered>>,
         contended \subseteq contended', stranded \subseteq stranded',
         issued' = issued \/ Fault \/ \E n \in 0..MaxMatches : issued' = [issued EXCEPT !.match = n]
  PROVE  Grows
<1>1. /\ issued' \in [room: 0..MaxRooms, job: 0..MaxJobs, match: 0..MaxMatches, fault: 0..MaxFaults]
      /\ issued'.room = issued.room /\ issued'.job = issued.job
      /\ issued.room \in Nat /\ issued.job \in Nat
  BY DEF TypeOK, Fault
<1> QED
  BY <1>1 DEF Grows, SameSeats

\* A call past the search of its room knows it.
LEMMA RoomKnown ==
  ASSUME Inv
  PROVE  \A s \in Slots : calls[s].pc \in Roomed => calls[s].room \in RoomIds
  BY DEF Inv, FramesOK, FrameOK, Frame

\* A step of one call that leaves rooms and jobs as they are.
LEMMA QuietStep ==
  ASSUME Inv, Grows, Bounds', NEW s \in Slots, NEW f, FrameOK(f),
         calls' = [calls EXCEPT ![s] = f], UNCHANGED <<rooms, jobs>>, ReadyConsent',
         f.pc # "takeSeat",
         \A t \in Slots \ {s} : Own(calls[t], f),
         calls[s].pc = "removeRoom" => calls[s].room \in stranded'
  PROVE  Inv'
<1>1. RoomsOK' /\ JobsOK'
  BY RoomsStay, JobsStay DEF Inv, JobsOK
<1>2. FrameOK(f)' /\ \A t \in Slots \ {s} : Own(f, calls[t])
  BY FrameKept DEF Inv, Own
<1>3. \A t \in Slots \ {s} : calls[t].pc = "takeSeat" =>
        /\ \A r \in DOMAIN rooms' : rooms'[r].timeoutJobId # calls[t].job
        /\ calls[t].room \in DOMAIN rooms \cap DOMAIN rooms' =>
             /\ calls[t].job \in DOMAIN jobs'
             /\ jobs'[calls[t].job].state # "failed" \/ calls[t].room \in stranded'
  BY DEF Inv, FramesOK, FrameOK, SeatOK, Grows
<1>4. FramesOK' /\ OwnJobs' /\ \A t \in Slots \ {s} : calls'[t] = calls[t]
  BY <1>2, <1>3, OneCall
<1>5. FullRoomGuarded'
  BY <1>4 DEF Inv, FullRoomGuarded, Grows
<1>6. TypeOK'
  BY <1>1, <1>4, TypesAgain
<1> QED
  BY <1>1, <1>4, <1>5, <1>6 DEF Inv

-----------------------------------------------------------------------------
(* The invariant is inductive                                               *)

\* No rooms, no jobs and no calls satisfy the invariant.
LEMMA InvInit == Init => Inv
<1> SUFFICES ASSUME Init PROVE Inv
  OBVIOUS
<1>1. TypeOK
  <2>1. IdleFrame \in Frame
    BY DEF IdleFrame, Frame, CallPC
  <2> QED
    BY <2>1 DEF Init, TypeOK, Frame
<1>2. FramesOK /\ OwnJobs
  BY <1>1, IdleOK DEF Init, FramesOK, FrameOK, OwnJobs, Own
<1>3. RoomsOK /\ JobsOK
  BY DEF Init, RoomsOK, JobsOK
<1>4. ReadyConsent /\ FullRoomGuarded
  BY DEF Init, ReadyConsent, FullRoomGuarded
<1> QED
  BY <1>1, <1>2, <1>3, <1>4 DEF Inv

\* A search looks for a match and for rooms.
LEMMA SearchStep ==
  ASSUME Inv, NEW s \in Slots, FindMatch(s) \/ CheckRoom(s)
  PROVE  Inv'
<1>1. /\ UNCHANGED <<rooms, jobs, matches, issued, answered, repeated, contended, stranded>>
      /\ slipped' \subseteq Users /\ s[1] \in Users
      /\ calls[s].pc # "removeRoom"
  BY DEF FindMatch, CheckRoom, history, Inv, TypeOK, Slots
<1>2. Grows /\ Bounds'
  BY <1>1, SameGrows DEF Inv, TypeOK, Bounds
<1>3. ReadyConsent'
  BY <1>1 DEF Inv, ReadyConsent
<1>4. PICK f : /\ calls' = [calls EXCEPT ![s] = f]
               /\ FrameOK(f) /\ f.pc \in {"idle", "checkRoom", "checkWaiting"}
  <2>1. ASSUME NEW pc \in {"checkRoom", "checkWaiting"}, Goto(s, pc)
        PROVE  \E f : /\ calls' = [calls EXCEPT ![s] = f]
                      /\ FrameOK(f) /\ f.pc \in {"idle", "checkRoom", "checkWaiting"}
    <3>1. PICK f : f = [calls[s] EXCEPT !.pc = pc]
      OBVIOUS
    <3>2. FrameOK(calls[s]) /\ calls[s] \in Frame
      BY DEF Inv, FramesOK
    <3>3. /\ f \in Frame /\ f.pc = pc /\ f.room = calls[s].room /\ f.job = calls[s].job
      BY <3>1, <3>2 DEF Frame, CallPC
    <3>4. FrameOK(f)
      BY <3>2, <3>3 DEF FrameOK, Roomed, Reading, Going
    <3> QED
      BY <2>1, <3>1, <3>3, <3>4 DEF Goto
  <2>2. CASE Return(s)
    BY <2>2, IdleOK DEF Inv, Return
  <2> QED
    BY <2>1, <2>2 DEF FindMatch, CheckRoom
<1>5. \A t \in Slots \ {s} : Own(calls[t], f)
  BY <1>4 DEF Own, Reading
<1> QED
  BY <1>1, <1>2, <1>3, <1>4, <1>5, QuietStep

\* A search that found no room of the player chooses one to join, or creates one.
LEMMA CheckWaitingStep ==
  ASSUME Inv, NEW s \in Slots, CheckWaiting(s) \/ StopFindMatch(s)
  PROVE  Inv'
<1>1. /\ UNCHANGED <<rooms, jobs, matches, issued, answered, repeated, contended, stranded, slipped>>
      /\ calls[s].pc # "removeRoom"
  BY DEF CheckWaiting, StopFindMatch, history
<1>2. Grows /\ Bounds'
  BY <1>1, SameGrows DEF Inv, TypeOK, Bounds
<1>3. ReadyConsent'
  BY <1>1 DEF Inv, ReadyConsent
<1>4. FrameOK(calls[s]) /\ calls[s] \in Frame
  BY DEF Inv, FramesOK
<1>5. PICK f : /\ calls' = [calls EXCEPT ![s] = f]
               /\ FrameOK(f) /\ f.pc \in {"createRoom", "addJob", "stop"}
  <2>1. CASE Goto(s, "createRoom")
    <3>1. PICK f : f = [calls[s] EXCEPT !.pc = "createRoom"]
      OBVIOUS
    <3>2. f \in Frame /\ f.pc = "createRoom" /\ f.room = calls[s].room /\ f.job = calls[s].job
      BY <1>4, <3>1 DEF Frame, CallPC
    <3>3. FrameOK(f)
      BY <1>4, <3>2 DEF FrameOK, Roomed, Reading, Going
    <3> QED
      BY <2>1, <3>1, <3>2, <3>3 DEF Goto
  <2>2. CASE \E r \in DOMAIN rooms, pc \in {"addJob", "stop"} :
               calls' = [calls EXCEPT ![s].pc = pc, ![s].room = r]
    <3>1. PICK r \in DOMAIN rooms, pc \in {"addJob", "stop"} :
            calls' = [calls EXCEPT ![s].pc = pc, ![s].room = r]
      BY <2>2
    <3>2. PICK f : f = [calls[s] EXCEPT !.pc = pc, !.room = r]
      OBVIOUS
    <3>3. /\ f \in Frame /\ f.pc = pc /\ f.room = r /\ f.job = calls[s].job
          /\ r \in RoomIds /\ r <= issued.room
      BY <1>4, <3>2 DEF Frame, CallPC, Inv, TypeOK, RoomsOK
    <3>4. FrameOK(f)
      BY <1>4, <3>3 DEF FrameOK, Roomed, Reading, Going, RoomIds, NoId
    <3> QED
      BY <1>4, <3>1, <3>2, <3>3, <3>4
  <2> QED
    BY <2>1, <2>2 DEF CheckWaiting, StopFindMatch, WaitingRooms, JoinedRooms
<1>6. \A t \in Slots \ {s} : Own(calls[t], f)
  BY <1>5 DEF Own, Reading
<1> QED
  BY <1>1, <1>2, <1>3, <1>5, <1>6, QuietStep

\* A player answers ready: his call has read a room of his.
LEMMA ReadyReadStep ==
  ASSUME Inv, NEW s \in Slots, ReadyRead(s)
  PROVE  Inv'
<1>1. /\ UNCHANGED <<rooms, jobs, matches, issued, answered, repeated, contended, stranded, slipped>>
      /\ calls[s].pc # "removeRoom"
  BY DEF ReadyRead, history
<1>2. Grows /\ Bounds'
  BY <1>1, SameGrows DEF Inv, TypeOK, Bounds
<1>3. ReadyConsent'
  BY <1>1 DEF Inv, ReadyConsent
<1>4. PICK r \in DOMAIN rooms :
        calls' = [calls EXCEPT ![s].pc = "writeReady", ![s].room = r, ![s].seen = rooms[r]]
  BY DEF ReadyRead, JoinedRooms
<1>5. PICK f : f = [calls[s] EXCEPT !.pc = "writeReady", !.room = r, !.seen = rooms[r]]
  OBVIOUS
<1>6. calls[s] \in Frame /\ FrameOK(calls[s]) /\ calls' = [calls EXCEPT ![s] = f]
  BY <1>4, <1>5 DEF Inv, FramesOK
<1>7. rooms[r] \in Room /\ r \in RoomIds /\ r <= issued.room /\ SeenOK(rooms[r], r)
  BY DEF Inv, TypeOK, RoomsOK
<1>8. /\ f \in Frame /\ f.pc = "writeReady" /\ f.room = r /\ f.job = calls[s].job
      /\ f.seen = rooms[r]
  BY <1>5, <1>6, <1>7 DEF Frame, CallPC
<1>9. FrameOK(f)
  BY <1>6, <1>7, <1>8 DEF FrameOK, Roomed, Reading, Going, RoomIds, NoId
<1>10. \A t \in Slots \ {s} : Own(calls[t], f)
  BY <1>8 DEF Own, Inv, FramesOK, FrameOK, SeatOK
<1> QED
  BY <1>1, <1>2, <1>3, <1>6, <1>8, <1>9, <1>10, QuietStep

\* An await rejects: its call is gone, and a room whose timeout it has removed is
\* left behind.
LEMMA RejectStep ==
  ASSUME Inv, NEW s \in Slots, Reject(s)
  PROVE  Inv'
<1>1. /\ UNCHANGED <<rooms, jobs, matches, answered, repeated, contended, slipped>>
      /\ stranded \subseteq stranded' /\ Fault
      /\ calls[s].pc = "removeRoom" => calls[s].room \in stranded'
      /\ calls' = [calls EXCEPT ![s] = IdleFrame]
  BY DEF Reject, LeftBehind, Return
<1>2. stranded' \subseteq RoomIds
  BY RoomKnown DEF Reject, LeftBehind, Inv, TypeOK, Roomed
<1>3. Grows /\ Bounds'
  BY <1>1, <1>2, SameGrows DEF Inv, TypeOK, Bounds
<1>4. ReadyConsent'
  BY <1>1 DEF Inv, ReadyConsent
<1>5. FrameOK(IdleFrame) /\ \A t \in Slots \ {s} : Own(calls[t], IdleFrame)
  BY IdleOK DEF Inv, Own, Reading
<1> QED
  BY <1>1, <1>3, <1>4, <1>5, IdleOK, QuietStep DEF Inv

\* ready creates a match of the two players who answered.
LEMMA CreateMatchStep ==
  ASSUME Inv, NEW s \in Slots, CreateMatch(s)
  PROVE  Inv'
<1>1. /\ UNCHANGED <<rooms, jobs, answered, repeated, contended, stranded, slipped>>
      /\ calls' = [calls EXCEPT ![s] = IdleFrame] /\ calls[s].pc = "createMatch"
      /\ calls[s].room \in RoomIds /\ FrameOK(calls[s])
  BY DEF CreateMatch, history, Return, Inv, FramesOK, FrameOK, Frame, Roomed
<1>2. CASE UNCHANGED <<issued, matches>>
  <2>1. Grows /\ Bounds' /\ ReadyConsent'
    BY <1>1, <1>2, SameGrows DEF Inv, TypeOK, Bounds, ReadyConsent
  <2>2. FrameOK(IdleFrame) /\ \A t \in Slots \ {s} : Own(calls[t], IdleFrame)
    BY IdleOK DEF Inv, Own, Reading
  <2> QED
    BY <1>1, <2>1, <2>2, IdleOK, QuietStep DEF Inv
<1>3. CASE ~UNCHANGED <<issued, matches>>
  <2> DEFINE players == {calls[s].seen.player1, calls[s].seen.player2}
             match == [room |-> calls[s].room, players |-> players]
  <2>1. /\ players \subseteq Users /\ issued.match < MaxMatches
        /\ issued' = [issued EXCEPT !.match = @ + 1]
        /\ matches' = With(matches, issued'.match, match)
    BY <1>3 DEF CreateMatch, UserAssumption
  <2>2. issued.match \in Nat /\ issued'.match = issued.match + 1
        /\ issued'.match \in MatchIds /\ issued'.match \in 0..MaxMatches
        /\ issued' = [issued EXCEPT !.match = issued'.match]
    BY <2>1 DEF Inv, TypeOK, MatchIds
  <2>3. \A m \in DOMAIN matches' :
          \/ m \in DOMAIN matches /\ matches'[m] = matches[m]
          \/ m = issued'.match /\ matches'[m] = match
    BY <2>1 DEF With
  <2>4. Grows
    BY <1>1, <2>2, SameGrows DEF Inv
  <2>5. Bounds'
    <3>1. match \in [room: RoomIds, players: SUBSET Users]
      BY <1>1, <2>1
    <3> QED
      BY <1>1, <2>2, <2>3, <3>1 DEF Inv, TypeOK, Bounds
  <2>6. ReadyConsent'
    <3>1. match.room \notin contended => \A u \in match.players : <<u, match.room>> \in answered
      BY <1>1 DEF FrameOK, Going
    <3> QED
      BY <1>1, <2>3, <3>1 DEF Inv, ReadyConsent
  <2>7. FrameOK(IdleFrame) /\ \A t \in Slots \ {s} : Own(calls[t], IdleFrame)
    BY IdleOK DEF Inv, Own, Reading
  <2> QED
    BY <1>1, <2>4, <2>5, <2>6, <2>7, IdleOK, QuietStep DEF Inv
<1> QED
  BY <1>2, <1>3

\* The parts of the invariant make it.
LEMMA AllParts ==
  ASSUME Inv, Grows, Bounds', RoomsOK', JobsOK', FramesOK', OwnJobs', ReadyConsent',
         FullRoomGuarded'
  PROVE  Inv'
  BY TypesAgain DEF Inv

\* What the searching player creates is a room with himself in it.
LEMMA CreateRoomStep ==
  ASSUME Inv, NEW s \in Slots, CreateRoom(s)
  PROVE  Inv'
<1> DEFINE new == issued'.room
<1>1. /\ UNCHANGED <<jobs, matches, answered, repeated, contended, stranded, slipped>>
      /\ calls' = [calls EXCEPT ![s] = IdleFrame] /\ calls[s].pc = "createRoom"
      /\ issued' = [issued EXCEPT !.room = @ + 1] /\ issued.room < MaxRooms
      /\ rooms' = With(rooms, new, NewRoom(s[1])) /\ s[1] \in Users
  BY DEF CreateRoom, history, Return, Slots
<1>2. /\ issued.room \in Nat /\ new = issued.room + 1 /\ new \in RoomIds
      /\ issued'.job = issued.job /\ issued.job \in Nat
      /\ issued' \in [room: 0..MaxRooms, job: 0..MaxJobs, match: 0..MaxMatches, fault: 0..MaxFaults]
  BY <1>1 DEF Inv, TypeOK, RoomIds
<1>3. \A r \in DOMAIN rooms' :
        \/ r \in DOMAIN rooms /\ rooms'[r] = rooms[r] /\ r <= issued.room
        \/ r = new /\ rooms'[r] = NewRoom(s[1])
  BY <1>1, <1>2 DEF With, Inv, RoomsOK, TypeOK, RoomIds
<1> HIDE DEF new
<1>4. Grows
  BY <1>1, <1>2, <1>3 DEF Grows, SameSeats, new
<1>5. ASSUME NEW d, d = NewRoom(s[1]), NEW r, r = new, rooms'[r] = d
      PROVE  d \in Room /\ SeenOK(d, r)' /\ d.timeoutJobId = NoId
  <2>1. d \in Room /\ d.timeoutJobId = NoId /\ ~d.player1Ready /\ ~d.player2Ready
    BY <1>1, <1>5 DEF NewRoom, Room
  <2>2. NoId \notin DOMAIN jobs' /\ NoId <= issued'.job
    BY <1>1, <1>2 DEF Inv, TypeOK, JobIds, NoId
  <2> QED
    BY <1>5, <2>1, <2>2 DEF SeenOK, Answers, SameSeats
<1>6. RoomsOK'
  BY <1>2, <1>3, <1>4, <1>5, RoomsStay DEF Inv, new
<1>7. JobsOK'
  BY <1>1, <1>4, JobsStay DEF Inv, JobsOK
<1>8. FrameOK(IdleFrame)' /\ \A t \in Slots \ {s} : Own(IdleFrame, calls[t]) /\ Own(calls[t], IdleFrame)
  BY <1>4, IdleOK, FrameKept DEF Inv, Own, Reading
<1>9. \A t \in Slots \ {s} : calls[t].pc = "takeSeat" =>
        /\ \A r \in DOMAIN rooms' : rooms'[r].timeoutJobId # calls[t].job
        /\ calls[t].room \in DOMAIN rooms \cap DOMAIN rooms' =>
             /\ calls[t].job \in DOMAIN jobs'
             /\ jobs'[calls[t].job].state # "failed" \/ calls[t].room \in stranded'
  BY <1>1, <1>3, <1>5 DEF Inv, FramesOK, FrameOK, SeatOK
<1>10. FramesOK' /\ OwnJobs' /\ \A t \in Slots \ {s} : calls'[t] = calls[t]
  BY <1>1, <1>4, <1>8, <1>9, OneCall
<1>11. FullRoomGuarded'
  <2>1. NewRoom(s[1]).player2 = Nobody
    BY DEF NewRoom
  <2> QED
    BY <1>1, <1>3, <1>10, <2>1 DEF Inv, FullRoomGuarded
<1>12. Bounds' /\ ReadyConsent'
  BY <1>1, <1>2, <1>3 DEF Inv, TypeOK, Bounds, ReadyConsent, new
<1> QED
  BY <1>4, <1>6, <1>7, <1>10, <1>11, <1>12, AllParts

\* joinRoom queues a timeout that nobody else knows.
LEMMA AddJobStep ==
  ASSUME Inv, NEW s \in Slots, AddJob(s)
  PROVE  Inv'
<1> DEFINE new == issued'.job
           job == [room |-> calls[s].room, state |-> "delayed"]
<1>1. /\ UNCHANGED <<rooms, matches, answered, repeated, contended, stranded, slipped>>
      /\ calls' = [calls EXCEPT ![s].pc = "takeSeat", ![s].job = new] /\ calls[s].pc = "addJob"
      /\ issued' = [issued EXCEPT !.job = @ + 1] /\ issued.job < MaxJobs
      /\ jobs' = With(jobs, new, job)
  BY DEF AddJob, history
<1>2. /\ issued.job \in Nat /\ new = issued.job + 1 /\ new \in JobIds
      /\ issued'.room = issued.room /\ issued.room \in Nat
      /\ issued' \in [room: 0..MaxRooms, job: 0..MaxJobs, match: 0..MaxMatches, fault: 0..MaxFaults]
  BY <1>1 DEF Inv, TypeOK, JobIds
<1>3. FrameOK(calls[s]) /\ calls[s] \in Frame /\ calls[s].room \in RoomIds
  BY <1>1 DEF Inv, FramesOK, FrameOK, Frame, Roomed
<1>4. /\ \A j \in DOMAIN jobs' :
           \/ j \in DOMAIN jobs /\ jobs'[j] = jobs[j]
           \/ j = new /\ jobs'[j] = job
      /\ DOMAIN jobs \subseteq DOMAIN jobs' /\ new \in DOMAIN jobs' /\ jobs'[new] = job
      /\ \A j \in DOMAIN jobs : jobs'[j] = jobs[j]
  <2>1. new \notin DOMAIN jobs
    BY <1>2 DEF Inv, JobsOK, TypeOK, JobIds
  <2> QED
    BY <1>1, <2>1 DEF With
<1>5. job \in [room: RoomIds, state: JobState] /\ job.room <= issued.room /\ job.state # "failed"
      /\ job.room = calls[s].room
  BY <1>3 DEF JobState, FrameOK
<1> HIDE DEF new, job
<1>6. Grows
  BY <1>1, <1>2, <1>4 DEF Grows, SameSeats, new
<1>7. RoomsOK'
  BY <1>1, <1>6, RoomsStay DEF Inv
<1>8. JobsOK'
  <2>1. \A j \in DOMAIN jobs : j \in Int /\ jobs[j].room \in Int
    BY DEF Inv, TypeOK, JobIds, RoomIds
  <2> QED
    BY <1>2, <1>4, <1>5, <2>1 DEF Inv, JobsOK, new
<1>9. PICK f : f = [calls[s] EXCEPT !.pc = "takeSeat", !.job = new]
  OBVIOUS
<1>10. /\ f \in Frame /\ f.pc = "takeSeat" /\ f.job = new /\ f.room = calls[s].room
       /\ calls' = [calls EXCEPT ![s] = f]
  BY <1>1, <1>2, <1>3, <1>9 DEF Frame, CallPC, Inv, FramesOK
<1>11. \A r \in DOMAIN rooms' : rooms'[r].timeoutJobId # new
  BY <1>1, <1>2 DEF Inv, RoomsOK, SeenOK
<1>12. FrameOK(f)'
  <2>1. SeatOK(f)'
    BY <1>2, <1>4, <1>5, <1>10, <1>11 DEF SeatOK, JobIds, NoId
  <2> QED
    BY <1>2, <1>3, <1>10, <2>1 DEF FrameOK, Roomed, Reading, Going, new, RoomIds, NoId
<1>13. \A t \in Slots \ {s} : Own(f, calls[t]) /\ Own(calls[t], f)
  <2> SUFFICES ASSUME NEW t \in Slots \ {s}
               PROVE  /\ calls[t].job # new
                      /\ calls[t].pc \in Reading => calls[t].seen.timeoutJobId # new
    BY <1>10 DEF Own, Reading
  <2>1. FrameOK(calls[t])
    BY DEF Inv, FramesOK
  <2> QED
    BY <1>2, <2>1, FrameIds
<1>14. \A t \in Slots \ {s} : calls[t].pc = "takeSeat" =>
        /\ \A r \in DOMAIN rooms' : rooms'[r].timeoutJobId # calls[t].job
        /\ calls[t].room \in DOMAIN rooms \cap DOMAIN rooms' =>
             /\ calls[t].job \in DOMAIN jobs'
             /\ jobs'[calls[t].job].state # "failed" \/ calls[t].room \in stranded'
  BY <1>1, <1>4 DEF Inv, FramesOK, FrameOK, SeatOK
<1>15. FramesOK' /\ OwnJobs' /\ \A t \in Slots \ {s} : calls'[t] = calls[t]
  BY <1>6, <1>10, <1>12, <1>13, <1>14, OneCall
<1>16. FullRoomGuarded'
  <2> SUFFICES ASSUME NEW r \in DOMAIN rooms' \ stranded', rooms'[r].player2 # Nobody
               PROVE  \/ \E j \in DOMAIN jobs' : jobs'[j].room = r /\ jobs'[j].state # "failed"
                      \/ \E t \in Slots : calls'[t].pc = "removeRoom" /\ calls'[t].room = r
    BY DEF FullRoomGuarded
  <2>1. \/ \E j \in DOMAIN jobs : jobs[j].room = r /\ jobs[j].state # "failed"
        \/ \E t \in Slots : calls[t].pc = "removeRoom" /\ calls[t].room = r
    BY <1>1 DEF Inv, FullRoomGuarded
  <2> QED
    BY <1>1, <1>4, <1>15, <2>1
<1>17. Bounds' /\ ReadyConsent'
  BY <1>1, <1>2, <1>4 DEF Inv, TypeOK, Bounds, ReadyConsent, new
<1> QED
  BY <1>6, <1>7, <1>8, <1>15, <1>16, <1>17, AllParts

\* joinRoom takes the seat, and gives the room the timeout it has queued.
LEMMA TakeSeatStep ==
  ASSUME Inv, NEW s \in Slots, TakeSeat(s)
  PROVE  Inv'
<1>0. PICK r, j : r = calls[s].room /\ j = calls[s].job
  OBVIOUS
<1>1. /\ UNCHANGED <<jobs, matches, issued, answered, repeated, stranded, slipped>>
      /\ calls' = [calls EXCEPT ![s] = IdleFrame] /\ calls[s].pc = "takeSeat"
      /\ s[1] \in Users /\ FrameOK(calls[s]) /\ SeatOK(calls[s])
      /\ r \in RoomIds /\ j \in JobIds /\ j <= issued.job
  BY <1>0 DEF TakeSeat, Return, Slots, Inv, FramesOK, FrameOK, Frame, Roomed, SeatOK
<1>2. CASE r \notin DOMAIN rooms
  <2>1. UNCHANGED <<rooms, contended>>
    BY <1>0, <1>2 DEF TakeSeat
  <2>2. Grows /\ Bounds' /\ ReadyConsent'
    BY <1>1, <2>1, SameGrows DEF Inv, TypeOK, Bounds, ReadyConsent
  <2>3. FrameOK(IdleFrame) /\ \A t \in Slots \ {s} : Own(calls[t], IdleFrame)
    BY IdleOK DEF Inv, Own, Reading
  <2> QED
    BY <1>1, <2>1, <2>2, <2>3, IdleOK, QuietStep DEF Inv
<1>3. CASE r \in DOMAIN rooms
  <2>1. /\ rooms' = [rooms EXCEPT ![r].player2 = s[1], ![r].timeoutJobId = j]
        /\ contended' = IF rooms[r].player2 = Nobody THEN contended ELSE contended \cup {r}
    BY <1>0, <1>3 DEF TakeSeat
  <2>2. PICK d : d = [rooms[r] EXCEPT !.player2 = s[1], !.timeoutJobId = j]
    OBVIOUS
  <2>3. /\ DOMAIN rooms' = DOMAIN rooms /\ rooms'[r] = d
        /\ \A q \in DOMAIN rooms \ {r} : rooms'[q] = rooms[q]
    BY <1>3, <2>1, <2>2
  <2>4. rooms[r] \in Room /\ SeenOK(rooms[r], r)
    BY <1>3 DEF Inv, RoomsOK
  <2>5. /\ d \in Room /\ d.player1 = rooms[r].player1 /\ d.player2 = s[1] /\ d.timeoutJobId = j
        /\ d.player1Ready = rooms[r].player1Ready /\ d.player2Ready = rooms[r].player2Ready
    BY <1>1, <2>2, <2>4 DEF Room
  <2>6. Grows
    BY <1>1, <2>1, <2>3, <2>5 DEF Grows, SameSeats, Inv, TypeOK
  <2>7. SeenOK(d, r)'
    <3>1. r \notin contended' => rooms[r].player2 = Nobody /\ r \notin contended
      BY <2>1
    <3>2. r \notin contended' => ~d.player2Ready /\ (d.player1Ready => <<d.player1, r>> \in answered)
      BY <2>4, <2>5, <3>1 DEF SeenOK, Answers
    <3>3. j \in DOMAIN jobs => jobs[j].room = r
      BY <1>0, <1>1, <1>3 DEF SeatOK
    <3> QED
      BY <1>1, <2>3, <2>5, <3>2, <3>3 DEF SeenOK, Answers, SameSeats
  <2>8. RoomsOK'
    <3>1. r <= issued'.room
      BY <1>1, <1>3 DEF Inv, RoomsOK
    <3> QED
      BY <2>3, <2>5, <2>6, <2>7, <3>1, RoomsStay DEF Inv
  <2>9. JobsOK'
    BY <1>1, <2>6, JobsStay DEF Inv, JobsOK
  <2>10. FrameOK(IdleFrame)' /\ \A t \in Slots \ {s} : Own(IdleFrame, calls[t]) /\ Own(calls[t], IdleFrame)
    BY <2>6, IdleOK, FrameKept DEF Inv, Own, Reading
  <2>11. \A t \in Slots \ {s} : calls[t].pc = "takeSeat" =>
          /\ \A q \in DOMAIN rooms' : rooms'[q].timeoutJobId # calls[t].job
          /\ calls[t].room \in DOMAIN rooms \cap DOMAIN rooms' =>
               /\ calls[t].job \in DOMAIN jobs'
               /\ jobs'[calls[t].job].state # "failed" \/ calls[t].room \in stranded'
    <3>1. \A t \in Slots \ {s} : calls[t].pc = "takeSeat" => calls[t].job # j
      BY <1>0, <1>1 DEF Inv, OwnJobs, Own
    <3>2. \A t \in Slots : calls[t].pc = "takeSeat" => SeatOK(calls[t])
      BY DEF Inv, FramesOK, FrameOK
    <3>3. /\ jobs' = jobs /\ stranded' = stranded /\ DOMAIN rooms' = DOMAIN rooms
          /\ \A q \in DOMAIN rooms : rooms'[q].timeoutJobId \in {rooms[q].timeoutJobId, j}
      BY <1>1, <2>3, <2>5
    <3> QED
      BY <3>1, <3>2, <3>3 DEF SeatOK
  <2>12. FramesOK' /\ OwnJobs' /\ \A t \in Slots \ {s} : calls'[t] = calls[t]
    BY <1>1, <2>6, <2>10, <2>11, OneCall
  <2>13. FullRoomGuarded'
    <3>1. r \in stranded \/ (j \in DOMAIN jobs /\ jobs[j].room = r /\ jobs[j].state # "failed")
      BY <1>0, <1>1, <1>3 DEF SeatOK
    <3> QED
      BY <1>1, <2>3, <2>12, <3>1 DEF Inv, FullRoomGuarded
  <2>14. Bounds' /\ ReadyConsent'
    BY <1>1, <2>1, <2>3 DEF Inv, TypeOK, Bounds, ReadyConsent
  <2> QED
    BY <2>6, <2>8, <2>9, <2>12, <2>13, <2>14, AllParts
<1> QED
  BY <1>2, <1>3

\* A room is removed by one call, which then returns or goes on to create the match.
LEMMA RemoveRoomStep ==
  ASSUME Inv, NEW s \in Slots, StopRemove(s) \/ RemoveRoom(s)
  PROVE  Inv'
<1> DEFINE r == calls[s].room
<1>1. /\ UNCHANGED <<jobs, matches, issued, answered, repeated, contended, stranded, slipped>>
      /\ rooms' = Without(rooms, r) /\ calls[s].pc \in {"stop", "removeRoom"}
  BY DEF StopRemove, RemoveRoom, history
<1>2. /\ DOMAIN rooms' = DOMAIN rooms \ {r} /\ \A q \in DOMAIN rooms' : rooms'[q] = rooms[q]
  BY <1>1 DEF Without, Restrict
<1>3. Grows
  BY <1>1, <1>2 DEF Grows, SameSeats, Inv, TypeOK
<1>4. RoomsOK' /\ JobsOK'
  BY <1>1, <1>2, <1>3, RoomsStay, JobsStay DEF Inv, JobsOK
<1>5. FrameOK(calls[s]) /\ calls[s] \in Frame
  BY DEF Inv, FramesOK
<1>6. PICK f : calls' = [calls EXCEPT ![s] = f] /\ FrameOK(f) /\ f.pc \in {"idle", "createMatch"}
               /\ (f.pc = "createMatch" => calls[s].pc \in Reading /\ f.seen = calls[s].seen)
  <2>1. CASE StopRemove(s)
    BY <2>1, IdleOK DEF StopRemove, Return, Inv
  <2>2. CASE RemoveRoom(s)
    <3>1. PICK f : f = [calls[s] EXCEPT !.pc = "createMatch"]
      OBVIOUS
    <3>2. /\ f \in Frame /\ f.pc = "createMatch" /\ f.room = calls[s].room
          /\ f.job = calls[s].job /\ f.seen = calls[s].seen /\ calls[s].pc = "removeRoom"
      BY <1>5, <2>2, <3>1 DEF Frame, CallPC, RemoveRoom
    <3>3. FrameOK(f)
      BY <1>5, <3>2 DEF FrameOK, Roomed, Reading, Going
    <3> QED
      BY <2>2, <3>1, <3>2, <3>3 DEF RemoveRoom, Goto, Reading
  <2> QED
    BY <2>1, <2>2
<1>7. FrameOK(f)' /\ \A t \in Slots \ {s} : Own(f, calls[t]) /\ Own(calls[t], f)
  <2>1. FrameOK(f)'
    BY <1>3, <1>6, FrameKept DEF Inv
  <2>2. \A t \in Slots \ {s} : Own(calls[t], calls[s])
    BY DEF Inv, OwnJobs
  <2> QED
    BY <1>6, <2>1, <2>2 DEF Own, Reading
<1>8. \A t \in Slots \ {s} : calls[t].pc = "takeSeat" =>
        /\ \A q \in DOMAIN rooms' : rooms'[q].timeoutJobId # calls[t].job
        /\ calls[t].room \in DOMAIN rooms \cap DOMAIN rooms' =>
             /\ calls[t].job \in DOMAIN jobs'
             /\ jobs'[calls[t].job].state # "failed" \/ calls[t].room \in stranded'
  BY <1>1, <1>2 DEF Inv, FramesOK, FrameOK, SeatOK
<1>9. FramesOK' /\ OwnJobs' /\ \A t \in Slots \ {s} : calls'[t] = calls[t]
  BY <1>3, <1>6, <1>7, <1>8, OneCall
<1>10. FullRoomGuarded'
  BY <1>1, <1>2, <1>9 DEF Inv, FullRoomGuarded
<1>11. Bounds' /\ ReadyConsent'
  BY <1>1, <1>2 DEF Inv, TypeOK, Bounds, ReadyConsent
<1> QED
  BY <1>3, <1>4, <1>9, <1>10, <1>11, AllParts

\* ready writes both flags: the answer of its player, and the other flag as it was read.
LEMMA WriteReadyStep ==
  ASSUME Inv, NEW s \in Slots, WriteReady(s)
  PROVE  Inv'
<1>0. PICK r, seen, u : r = calls[s].room /\ seen = calls[s].seen /\ u = s[1]
  OBVIOUS
<1>1. PICK flags, both : flags = ReadyFlags(u, seen) /\ both = (flags.player1 /\ flags.player2)
  OBVIOUS
<1>2. /\ UNCHANGED <<jobs, matches, issued, contended, stranded, slipped>>
      /\ rooms' = IF r \notin DOMAIN rooms THEN rooms
                  ELSE [rooms EXCEPT ![r].player1Ready = flags.player1,
                                     ![r].player2Ready = flags.player2]
      /\ IF both THEN Goto(s, "removeJob") ELSE Return(s)
      /\ answered' = answered \cup {<<u, r>>} /\ repeated' \subseteq repeated \cup {r}
      /\ repeated \subseteq repeated'
      /\ calls[s].pc = "writeReady"
  BY <1>0, <1>1 DEF WriteReady
<1>3. /\ FrameOK(calls[s]) /\ calls[s] \in Frame /\ r \in RoomIds /\ r <= issued.room
      /\ seen \in Room /\ SeenOK(seen, r) /\ u \in Users
  BY <1>0, <1>2 DEF Inv, FramesOK, FrameOK, Frame, Roomed, Reading, Slots
<1>4. /\ flags.player1 \in BOOLEAN /\ flags.player2 \in BOOLEAN /\ both \in BOOLEAN
      /\ flags.player1 => u = seen.player1 \/ seen.player1Ready
      /\ flags.player2 => u = seen.player2 \/ seen.player2Ready
  <2>1. seen.player1Ready \in BOOLEAN /\ seen.player2Ready \in BOOLEAN
    BY <1>3 DEF Room
  <2> QED
    BY <1>1, <2>1 DEF ReadyFlags
<1>5. \A q \in DOMAIN rooms \ {r} : rooms'[q] = rooms[q]
  BY <1>2
<1>6. PICK d : d = [rooms[r] EXCEPT !.player1Ready = flags.player1, !.player2Ready = flags.player2]
  OBVIOUS
<1>7. DOMAIN rooms' = DOMAIN rooms /\ (r \in DOMAIN rooms => rooms'[r] = d)
  BY <1>2, <1>6
<1>8. r \in DOMAIN rooms =>
        /\ rooms[r] \in Room /\ SeenOK(rooms[r], r) /\ d \in Room
        /\ d.player1 = rooms[r].player1 /\ d.player2 = rooms[r].player2
        /\ d.timeoutJobId = rooms[r].timeoutJobId
        /\ d.player1Ready = flags.player1 /\ d.player2Ready = flags.player2
  BY <1>4, <1>6 DEF Room, Inv, RoomsOK
<1>9. Grows
  BY <1>2, <1>5, <1>7, <1>8 DEF Grows, SameSeats, Inv, TypeOK
<1>10. r \notin contended => /\ flags.player1 => <<seen.player1, r>> \in answered'
                             /\ flags.player2 => seen.player2 # Nobody /\ <<seen.player2, r>> \in answered'
  BY <1>2, <1>3, <1>4, UserAssumption DEF SeenOK, Answers
<1>11. r \in DOMAIN rooms => SeenOK(d, r)'
  <2> SUFFICES ASSUME r \in DOMAIN rooms PROVE SeenOK(d, r)'
    OBVIOUS
  <2>1. r \notin contended => SameSeats(rooms[r], seen)
    BY <1>3 DEF SeenOK
  <2>2. r \notin contended => Answers(d, r)'
    BY <1>8, <1>10, <2>1 DEF Answers, SameSeats
  <2> QED
    BY <1>2, <1>7, <1>8, <2>2 DEF SeenOK, SameSeats
<1>12. RoomsOK'
  <2>1. r <= issued'.room
    BY <1>2, <1>3
  <2> QED
    BY <1>5, <1>7, <1>8, <1>9, <1>11, <2>1, RoomsStay DEF Inv
<1>13. JobsOK'
  BY <1>2, <1>9, JobsStay DEF Inv, JobsOK
<1>14. PICK f : calls' = [calls EXCEPT ![s] = f] /\ FrameOK(f)' /\ f.pc \in {"idle", "removeJob"}
                /\ (f.pc = "removeJob" => f.seen = calls[s].seen)
  <2>1. CASE ~both
    BY <1>2, <1>9, <2>1, IdleOK, FrameKept DEF Return, Inv
  <2>2. CASE both
    <3>1. PICK f : f = [calls[s] EXCEPT !.pc = "removeJob"]
      OBVIOUS
    <3>2. /\ f \in Frame /\ f.pc = "removeJob" /\ f.room = r
          /\ f.job = calls[s].job /\ f.seen = seen
      BY <1>0, <1>3, <3>1 DEF Frame, CallPC
    <3>3. SeenOK(seen, r)'
      BY <1>3, <1>9, SeenKept DEF Inv
    <3>4. r \notin contended' => <<seen.player1, r>> \in answered' /\ <<seen.player2, r>> \in answered'
      BY <1>1, <1>2, <1>10, <2>2
    <3>5. FrameOK(f)'
      BY <1>0, <1>2, <1>3, <3>2, <3>3, <3>4 DEF FrameOK, Roomed, Reading, Going, RoomIds, NoId
    <3> QED
      BY <1>0, <1>2, <2>2, <3>1, <3>2, <3>5 DEF Goto
  <2> QED
    BY <2>1, <2>2
<1>15. \A t \in Slots \ {s} : Own(f, calls[t]) /\ Own(calls[t], f)
  <2>1. \A t \in Slots \ {s} : Own(calls[t], calls[s])
    BY DEF Inv, OwnJobs
  <2> QED
    BY <1>2, <1>14, <2>1 DEF Own, Reading
<1>16. \A t \in Slots \ {s} : calls[t].pc = "takeSeat" =>
        /\ \A q \in DOMAIN rooms' : rooms'[q].timeoutJobId # calls[t].job
        /\ calls[t].room \in DOMAIN rooms \cap DOMAIN rooms' =>
             /\ calls[t].job \in DOMAIN jobs'
             /\ jobs'[calls[t].job].state # "failed" \/ calls[t].room \in stranded'
  <2>1. \A q \in DOMAIN rooms' : q \in DOMAIN rooms /\ rooms'[q].timeoutJobId = rooms[q].timeoutJobId
    BY <1>5, <1>7, <1>8
  <2>2. jobs' = jobs /\ stranded' = stranded
    BY <1>2
  <2>3. \A t \in Slots \ {s} : calls[t].pc = "takeSeat" => SeatOK(calls[t])
    BY DEF Inv, FramesOK, FrameOK
  <2> QED
    BY <2>1, <2>2, <2>3 DEF SeatOK
<1>17. FramesOK' /\ OwnJobs' /\ \A t \in Slots \ {s} : calls'[t] = calls[t]
  BY <1>9, <1>14, <1>15, <1>16, OneCall
<1>18. FullRoomGuarded'
  BY <1>2, <1>5, <1>7, <1>8, <1>17 DEF Inv, FullRoomGuarded
<1>19. Bounds' /\ ReadyConsent'
  BY <1>2, <1>3, <1>7 DEF Inv, TypeOK, Bounds, ReadyConsent
<1> QED
  BY <1>9, <1>12, <1>13, <1>17, <1>18, <1>19, AllParts

\* ready removes the timeout of the room that it is about to remove, and no other.
LEMMA RemoveJobStep ==
  ASSUME Inv, NEW s \in Slots, RemoveJob(s)
  PROVE  Inv'
<1>0. PICK j : j = calls[s].seen.timeoutJobId
  OBVIOUS
<1>1. /\ UNCHANGED <<rooms, matches, issued, answered, repeated, contended, stranded, slipped>>
      /\ calls[s].pc = "removeJob" /\ FrameOK(calls[s]) /\ calls[s] \in Frame
  BY DEF RemoveJob, history, Inv, FramesOK
<1>2. CASE Return(s) /\ jobs' = jobs
  <2>1. Grows /\ Bounds' /\ ReadyConsent'
    BY <1>1, <1>2, SameGrows DEF Inv, TypeOK, Bounds, ReadyConsent
  <2>2. FrameOK(IdleFrame) /\ \A t \in Slots \ {s} : Own(calls[t], IdleFrame)
    BY IdleOK DEF Inv, Own, Reading
  <2> QED
    BY <1>1, <1>2, <2>1, <2>2, IdleOK, QuietStep DEF Inv, Return
<1>3. CASE jobs' = Without(jobs, j) /\ Goto(s, "removeRoom")
  <2>1. DOMAIN jobs' = DOMAIN jobs \ {j} /\ \A k \in DOMAIN jobs' : jobs'[k] = jobs[k]
    BY <1>3 DEF Without, Restrict
  <2>2. Grows
    BY <1>1, <2>1 DEF Grows, SameSeats, Inv, TypeOK
  <2>3. RoomsOK' /\ JobsOK'
    BY <1>1, <2>1, <2>2, RoomsStay, JobsStay DEF Inv, JobsOK
  <2>4. PICK f : f = [calls[s] EXCEPT !.pc = "removeRoom"]
    OBVIOUS
  <2>5. /\ f \in Frame /\ f.pc = "removeRoom" /\ f.room = calls[s].room
        /\ f.job = calls[s].job /\ f.seen = calls[s].seen /\ calls' = [calls EXCEPT ![s] = f]
    BY <1>1, <1>3, <2>4 DEF Frame, CallPC, Goto
  <2>6. FrameOK(f)
    BY <1>1, <2>5 DEF FrameOK, Roomed, Reading, Going
  <2>7. FrameOK(f)' /\ \A t \in Slots \ {s} : Own(f, calls[t]) /\ Own(calls[t], f)
    <3>1. \A t \in Slots \ {s} : Own(calls[t], calls[s])
      BY DEF Inv, OwnJobs
    <3>2. FrameOK(f)'
      BY <2>2, <2>5, <2>6, FrameKept DEF Inv
    <3> QED
      BY <1>1, <2>5, <3>1, <3>2 DEF Own, Reading
  <2>8. \A t \in Slots \ {s} : calls[t].pc = "takeSeat" => calls[t].job # j
    BY <1>0, <1>1 DEF Inv, OwnJobs, Own, Reading
  <2>9. \A t \in Slots \ {s} : calls[t].pc = "takeSeat" =>
          /\ \A q \in DOMAIN rooms' : rooms'[q].timeoutJobId # calls[t].job
          /\ calls[t].room \in DOMAIN rooms \cap DOMAIN rooms' =>
               /\ calls[t].job \in DOMAIN jobs'
               /\ jobs'[calls[t].job].state # "failed" \/ calls[t].room \in stranded'
    BY <1>1, <2>1, <2>8 DEF Inv, FramesOK, FrameOK, SeatOK
  <2>10. FramesOK' /\ OwnJobs' /\ calls'[s] = f /\ \A t \in Slots \ {s} : calls'[t] = calls[t]
    BY <2>2, <2>5, <2>7, <2>9, OneCall
  <2>11. FullRoomGuarded'
    <3>1. j \in DOMAIN jobs => jobs[j].room = calls[s].room
      BY <1>0, <1>1 DEF FrameOK, Reading, SeenOK
    <3> SUFFICES ASSUME NEW r \in DOMAIN rooms' \ stranded', rooms'[r].player2 # Nobody
                 PROVE  \/ \E k \in DOMAIN jobs' : jobs'[k].room = r /\ jobs'[k].state # "failed"
                        \/ \E t \in Slots : calls'[t].pc = "removeRoom" /\ calls'[t].room = r
      BY DEF FullRoomGuarded
    <3>2. CASE r = calls[s].room
      BY <2>5, <2>10, <3>2
    <3>3. CASE r # calls[s].room
      <4>1. \/ \E k \in DOMAIN jobs : jobs[k].room = r /\ jobs[k].state # "failed"
            \/ \E t \in Slots : calls[t].pc = "removeRoom" /\ calls[t].room = r
        BY <1>1 DEF Inv, FullRoomGuarded
      <4> QED
        BY <1>1, <2>1, <2>10, <3>1, <3>3, <4>1
    <3> QED
      BY <3>2, <3>3
  <2>12. Bounds' /\ ReadyConsent'
    BY <1>1, <2>1 DEF Inv, TypeOK, Bounds, ReadyConsent
  <2> QED
    BY <2>2, <2>3, <2>10, <2>11, <2>12, AllParts
<1> QED
  BY <1>0, <1>2, <1>3 DEF RemoveJob

\* A step that starts no call and ends none: rooms and matches may go and jobs may
\* change their state, but a timeout that goes or fails takes its room along or
\* leaves it behind.
LEMMA AwayStep ==
  ASSUME Inv, calls' = calls, UNCHANGED <<answered, repeated, contended, slipped>>,
         issued' = issued \/ Fault,
         stranded \subseteq stranded', stranded' \subseteq RoomIds,
         DOMAIN rooms' \subseteq DOMAIN rooms, \A r \in DOMAIN rooms' : rooms'[r] = rooms[r],
         DOMAIN matches' \subseteq DOMAIN matches,
         \A m \in DOMAIN matches' : matches'[m] = matches[m],
         \A j \in DOMAIN jobs' :
           j \in DOMAIN jobs /\ jobs'[j].room = jobs[j].room
             /\ jobs'[j] \in [room: RoomIds, state: JobState],
         \A j \in DOMAIN jobs :
           \/ j \in DOMAIN jobs' /\ (jobs'[j].state = "failed" => jobs[j].state = "failed")
           \/ j \in DOMAIN jobs' /\ jobs[j].room \in stranded'
           \/ jobs[j].room \notin DOMAIN rooms'
  PROVE  Inv'
<1>1. /\ issued' \in [room: 0..MaxRooms, job: 0..MaxJobs, match: 0..MaxMatches, fault: 0..MaxFaults]
      /\ issued'.room = issued.room /\ issued'.job = issued.job
      /\ issued.room \in Nat /\ issued.job \in Nat
  BY DEF Inv, TypeOK, Fault
<1>2. Grows
  BY <1>1 DEF Grows, SameSeats
<1>3. RoomsOK'
  BY <1>2, RoomsStay DEF Inv
<1>4. JobsOK'
  BY <1>2, JobsStay DEF Inv
<1>5. FramesOK' /\ OwnJobs'
  <2>1. ASSUME NEW t \in Slots, NEW f, f = calls[t], f.pc = "takeSeat"
        PROVE  SeatOK(f)'
    <3>1. FrameOK(f) /\ SeatOK(f)
      BY <2>1 DEF Inv, FramesOK, FrameOK
    <3>2. \A r \in DOMAIN rooms' : rooms'[r].timeoutJobId # f.job
      BY <3>1 DEF SeatOK
    <3>3. f.room \in DOMAIN rooms \cap DOMAIN rooms' =>
            f.job \in DOMAIN jobs' /\ (jobs'[f.job].state # "failed" \/ f.room \in stranded')
      BY <3>1 DEF SeatOK
    <3> QED
      BY <1>2, <2>1, <3>1, <3>2, <3>3, SeatKept DEF Inv
  <2>2. ASSUME NEW t \in Slots, NEW f, f = calls'[t]
        PROVE  FrameOK(f)'
    <3>1. FrameOK(f) /\ f = calls[t]
      BY <2>2 DEF Inv, FramesOK
    <3> QED
      BY <1>2, <2>1, <3>1, FrameKept DEF Inv
  <2>3. OwnJobs'
    BY DEF Inv, OwnJobs
  <2> QED
    BY <2>2, <2>3 DEF Inv, FramesOK
<1>6. FullRoomGuarded'
  <2> SUFFICES ASSUME NEW r \in DOMAIN rooms' \ stranded', rooms'[r].player2 # Nobody
               PROVE  \/ \E j \in DOMAIN jobs' : jobs'[j].room = r /\ jobs'[j].state # "failed"
                      \/ \E t \in Slots : calls'[t].pc = "removeRoom" /\ calls'[t].room = r
    BY DEF FullRoomGuarded
  <2>1. \/ \E j \in DOMAIN jobs : jobs[j].room = r /\ jobs[j].state # "failed"
        \/ \E t \in Slots : calls[t].pc = "removeRoom" /\ calls[t].room = r
    BY DEF Inv, FullRoomGuarded
  <2> QED
    BY <2>1
<1>7. Bounds' /\ ReadyConsent'
  BY DEF Inv, TypeOK, Bounds, ReadyConsent
<1> QED
  BY <1>2, <1>3, <1>4, <1>5, <1>6, <1>7, AllParts

\* A worker takes a due timeout, or an administrator has a failed one run again.
LEMMA JobMovesStep ==
  ASSUME Inv, NEW j \in JobIds, StartTimeout(j) \/ RetryTimeout(j)
  PROVE  Inv'
<1>1. PICK state \in {"active", "delayed"} : jobs' = [jobs EXCEPT ![j].state = state]
  BY DEF StartTimeout, RetryTimeout
<1>2. /\ UNCHANGED <<rooms, matches, calls, issued, answered, repeated, contended, stranded, slipped>>
      /\ j \in DOMAIN jobs
  BY DEF StartTimeout, RetryTimeout, history
<1>3. PICK job : job = [jobs[j] EXCEPT !.state = state]
  OBVIOUS
<1>4. /\ job \in [room: RoomIds, state: JobState] /\ job.room = jobs[j].room /\ job.state # "failed"
      /\ \A k \in DOMAIN jobs : jobs[k] \in [room: RoomIds, state: JobState]
  BY <1>2, <1>3 DEF Inv, TypeOK, JobState
<1>5. /\ DOMAIN jobs' = DOMAIN jobs /\ jobs'[j] = job
      /\ \A k \in DOMAIN jobs \ {j} : jobs'[k] = jobs[k]
  BY <1>1, <1>2, <1>3
<1> HIDE DEF Inv
<1>6. stranded \subseteq RoomIds
  BY DEF Inv, TypeOK
<1> QED
  BY <1>2, <1>4, <1>5, <1>6, AwayStep

\* The consumer removes the room and the job completes, or it rejects.
LEMMA TimeoutRemoveStep ==
  ASSUME Inv, NEW j \in JobIds, TimeoutRemove(j)
  PROVE  Inv'
<1>1. /\ UNCHANGED <<matches, calls, answered, repeated, contended, slipped>>
      /\ j \in DOMAIN jobs /\ jobs[j].room \in RoomIds /\ stranded \subseteq RoomIds
      /\ \A k \in DOMAIN jobs : jobs[k] \in [room: RoomIds, state: JobState]
  BY DEF TimeoutRemove, Inv, TypeOK
<1>2. CASE rooms' = Without(rooms, jobs[j].room) /\ jobs' = Without(jobs, j)
           /\ UNCHANGED <<issued, stranded>>
  <2>1. /\ DOMAIN rooms' = DOMAIN rooms \ {jobs[j].room}
        /\ \A r \in DOMAIN rooms' : rooms'[r] = rooms[r]
        /\ DOMAIN jobs' = DOMAIN jobs \ {j} /\ \A k \in DOMAIN jobs' : jobs'[k] = jobs[k]
    BY <1>2 DEF Without, Restrict
  <2> QED
    BY <1>1, <1>2, <2>1, AwayStep
<1>3. CASE Fault /\ jobs' = [jobs EXCEPT ![j].state = "failed"]
           /\ stranded' = stranded \cup {jobs[j].room} /\ UNCHANGED rooms
  <2>1. PICK job : job = [jobs[j] EXCEPT !.state = "failed"]
    OBVIOUS
  <2>2. job \in [room: RoomIds, state: JobState] /\ job.room = jobs[j].room
    BY <1>1, <2>1 DEF JobState
  <2>3. /\ DOMAIN jobs' = DOMAIN jobs /\ jobs'[j] = job
        /\ \A k \in DOMAIN jobs \ {j} : jobs'[k] = jobs[k]
    BY <1>1, <1>3, <2>1
  <2> QED
    BY <1>1, <1>3, <2>2, <2>3, AwayStep
<1> QED
  BY <1>2, <1>3 DEF TimeoutRemove

\* The rooms of a player who is no longer there go, or a match is decided.
LEMMA LeaveStep ==
  ASSUME Inv, (\E u \in Users : CleanCreatedRooms(u)) \/ (\E m \in MatchIds : MatchEnds(m))
  PROVE  Inv'
<1>1. /\ UNCHANGED <<calls, jobs, issued, answered, repeated, contended, stranded, slipped>>
      /\ stranded \subseteq RoomIds
      /\ \A k \in DOMAIN jobs : jobs[k] \in [room: RoomIds, state: JobState]
  BY DEF CleanCreatedRooms, MatchEnds, history, Inv, TypeOK
<1>2. /\ DOMAIN rooms' \subseteq DOMAIN rooms /\ \A r \in DOMAIN rooms' : rooms'[r] = rooms[r]
      /\ DOMAIN matches' \subseteq DOMAIN matches
      /\ \A m \in DOMAIN matches' : matches'[m] = matches[m]
  BY DEF CleanCreatedRooms, MatchEnds, Without, Restrict
<1> QED
  BY <1>1, <1>2, AwayStep

\* After a restart no call is in flight; what was running is due again.
LEMMA CrashStep ==
  ASSUME Inv, Crash
  PROVE  Inv'
<1>1. /\ UNCHANGED <<rooms, matches, answered, repeated, contended, slipped>> /\ Fault
      /\ calls' = [s \in Slots |-> IdleFrame]
      /\ jobs' = [j \in DOMAIN jobs |->
                   [jobs[j] EXCEPT !.state = IF @ = "active" THEN "delayed" ELSE @]]
      /\ stranded' = stranded \cup LeftBehind(Slots)
  BY DEF Crash
<1>2. /\ issued' \in [room: 0..MaxRooms, job: 0..MaxJobs, match: 0..MaxMatches, fault: 0..MaxFaults]
      /\ issued'.room = issued.room /\ issued'.job = issued.job
      /\ issued.room \in Nat /\ issued.job \in Nat
  BY <1>1 DEF Inv, TypeOK, Fault
<1>3. /\ DOMAIN jobs' = DOMAIN jobs
      /\ \A j \in DOMAIN jobs' :
           /\ jobs'[j].room = jobs[j].room /\ jobs'[j] \in [room: RoomIds, state: JobState]
           /\ jobs'[j].state = "failed" => jobs[j].state = "failed"
  <2>1. \A j \in DOMAIN jobs : jobs[j] \in [room: RoomIds, state: JobState]
    BY DEF Inv, TypeOK
  <2> QED
    BY <1>1, <2>1 DEF JobState
<1>4. Grows
  <2>1. UNCHANGED <<rooms, answered, contended>> /\ stranded \subseteq stranded'
    BY <1>1
  <2> QED
    BY <1>2, <1>3, <2>1 DEF Grows, SameSeats
<1>5. RoomsOK' /\ JobsOK'
  BY <1>1, <1>3, <1>4, RoomsStay, JobsStay DEF Inv
<1>6. FramesOK' /\ OwnJobs'
  <2>1. FrameOK(IdleFrame)' /\ IdleFrame \in Frame
    BY <1>4, IdleOK, FrameKept DEF Inv, FrameOK
  <2> QED
    BY <1>1, <2>1, IdleOK DEF FramesOK, OwnJobs, Own, Inv
<1>7. FullRoomGuarded'
  <2> SUFFICES ASSUME NEW r \in DOMAIN rooms \ stranded', rooms[r].player2 # Nobody
               PROVE  \E j \in DOMAIN jobs' : jobs'[j].room = r /\ jobs'[j].state # "failed"
    BY <1>1 DEF FullRoomGuarded
  <2>1. ~\E s \in Slots : calls[s].pc = "removeRoom" /\ calls[s].room = r
    BY <1>1 DEF LeftBehind
  <2>2. \E j \in DOMAIN jobs : jobs[j].room = r /\ jobs[j].state # "failed"
    BY <1>1, <2>1 DEF Inv, FullRoomGuarded
  <2> QED
    BY <1>3, <2>2
<1>8. Bounds' /\ ReadyConsent'
  <2>1. stranded' \subseteq RoomIds
    BY <1>1, RoomKnown DEF LeftBehind, Inv, TypeOK, Roomed
  <2> QED
    BY <1>1, <1>3, <2>1 DEF Inv, TypeOK, Bounds, ReadyConsent
<1> QED
  BY <1>4, <1>5, <1>6, <1>7, <1>8, AllParts

\* Every step of a call keeps the invariant.
LEMMA ServeStep ==
  ASSUME Inv, NEW s \in Slots, Serve(s)
  PROVE  Inv'
  BY SearchStep, CheckWaitingStep, CreateRoomStep, AddJobStep, TakeSeatStep, RemoveRoomStep,
     WriteReadyStep, RemoveJobStep, CreateMatchStep DEF Serve

\* The invariant does not look beyond the variables.
LEMMA StutterStep ==
  ASSUME Inv, UNCHANGED vars
  PROVE  Inv'
<1>1. UNCHANGED <<rooms, jobs, matches, calls, issued, answered, repeated, contended,
                  stranded, slipped>>
  BY DEF vars
<1>2. /\ stranded \subseteq RoomIds
      /\ \A k \in DOMAIN jobs : jobs[k] \in [room: RoomIds, state: JobState]
  BY DEF Inv, TypeOK
<1> QED
  BY <1>1, <1>2, AwayStep

\* The invariant holds of every state of matchmaking.
THEOREM Invariance == Spec => []Inv
<1>1. Inv /\ [Next]_vars => Inv'
  <2> SUFFICES ASSUME Inv, [Next]_vars PROVE Inv'
    OBVIOUS
  <2>1. CASE \E s \in Slots : FindMatch(s) \/ StopFindMatch(s) \/ ReadyRead(s)
    BY <2>1, SearchStep, CheckWaitingStep, ReadyReadStep
  <2>2. CASE \E s \in Slots : Serve(s) \/ Reject(s)
    BY <2>2, ServeStep, RejectStep
  <2>3. CASE \E j \in JobIds : Timeout(j) \/ RetryTimeout(j)
    BY <2>3, JobMovesStep, TimeoutRemoveStep DEF Timeout
  <2>4. CASE (\E u \in Users : CleanCreatedRooms(u)) \/ \E m \in MatchIds : MatchEnds(m)
    BY <2>4, LeaveStep
  <2>5. CASE Crash
    BY <2>5, CrashStep
  <2>6. CASE UNCHANGED vars
    BY <2>6, StutterStep
  <2> QED
    BY <2>1, <2>2, <2>3, <2>4, <2>5, <2>6 DEF Next
<1> QED
  BY <1>1, InvInit, PTL DEF Spec

-----------------------------------------------------------------------------
(* Theorems                                                                 *)

\* The collections, the jobs and the frames of the calls keep their types, however
\* many tabs search and answer at the same time and whatever fails.
THEOREM TypeCorrect == Spec => []TypeOK
<1>1. Inv => TypeOK
  BY DEF Inv
<1> QED
  BY <1>1, Invariance, PTL

\* Nobody is put into a match without having answered ready in that very room,
\* unless its second seat was taken twice: ready uses a document it has read, and
\* this is why that does no harm.
THEOREM ReadyConsented == Spec => []ReadyConsent
<1>1. Inv => ReadyConsent
  BY DEF Inv
<1> QED
  BY <1>1, Invariance, PTL

\* A full room always has a timeout that will remove it, or a ready call that is
\* about to: joinRoom arms before it takes the seat, ready removes the timeout of
\* this room only, and nothing but a failure or a restart of the removal itself
\* (stranded) comes between the two.
THEOREM RoomGuarded == Spec => []FullRoomGuarded
<1>1. Inv => FullRoomGuarded
  BY DEF Inv
<1> QED
  BY <1>1, Invariance, PTL

(***************************************************************************)
(* A room leads to one match: OneMatchPerRoom.                             *)
(***************************************************************************)
-----------------------------------------------------------------------------
(* The inductive invariant                                                  *)

\* Two snapshots name the same players, but for a seat that was still empty.
Agree(d, e) ==
  /\ d.player1 = e.player1
  /\ d.player2 # Nobody /\ e.player2 # Nobody => d.player2 = e.player2

\* Who answers ready sits in the room that his call has read.
ReadersOK ==
  \A s \in Slots : calls[s].pc = "writeReady" =>
    s[1] \in {calls[s].seen.player1, calls[s].seen.player2}

\* The ready calls of a room have read the same players.
CallsAgree ==
  \A s, t \in Slots :
    /\ calls[s].pc \in Reading /\ calls[t].pc \in Reading /\ calls[s].room = calls[t].room
    /\ calls[s].room \notin contended
    => Agree(calls[s].seen, calls[t].seen)

\* The room of a match is gone for good, and so is the one that createMatch is called for.
RoomsGone ==
  /\ \A s \in Slots : calls[s].pc = "createMatch" => calls[s].room \notin DOMAIN rooms
  /\ \A m \in DOMAIN matches :
       matches[m].room \notin DOMAIN rooms /\ matches[m].room <= issued.room

\* A match of room r is made, or about to be.
Started(r) == Starting(r) # {} \/ MatchesOf(r) # {}

\* Who is still to write his answer into a room that is started answers again.
AnswersAgain ==
  \A r \in RoomIds \ contended : Started(r) =>
    \A s \in Slots : calls[s].pc = "writeReady" /\ calls[s].room = r => <<s[1], r>> \in answered

\* At most one call makes a match of a room, and none once there is one.
Sole ==
  \A r \in RoomIds \ (contended \cup repeated) :
    /\ \A s, t \in Starting(r) : s = t
    /\ \A m, n \in MatchesOf(r) : m = n
    /\ Starting(r) # {} => MatchesOf(r) = {}

\* The inductive invariant, on top of Inv.
Once == ReadersOK /\ CallsAgree /\ RoomsGone /\ AnswersAgain /\ Sole

-----------------------------------------------------------------------------
(* The invariant is inductive                                               *)

\* The snapshot of a ready call is a room, and its caller a player.
LEMMA Snapshots ==
  ASSUME Inv
  PROVE  /\ calls \in [Slots -> Frame]
         /\ \A s \in Slots :
              /\ FrameOK(calls[s]) /\ s[1] \in Users
              /\ calls[s].room \in Int /\ calls[s].room <= issued.room
              /\ calls[s].pc \in Reading => calls[s].room \in RoomIds /\ calls[s].seen \in Room
  BY DEF Inv, FramesOK, FrameOK, Frame, Slots, Roomed, Reading, RoomIds, NoId

\* What is no new answer, no first answer of both and no new match keeps the
\* invariant: calls end, search or go on, and histories grow.
LEMMA CalmStep ==
  ASSUME Inv, Once,
         answered \subseteq answered', contended \subseteq contended', repeated \subseteq repeated',
         issued'.room \in Int, issued.room <= issued'.room,
         \A r \in DOMAIN rooms' : r \in DOMAIN rooms \/ r > issued.room,
         \A m \in DOMAIN matches' : m \in DOMAIN matches /\ matches'[m] = matches[m],
         \A s \in Slots :
           \/ calls'[s] = calls[s]
           \/ calls'[s].pc \notin Reading
           \/ /\ calls[s].pc \in Going /\ calls'[s].pc \in Going
              /\ calls'[s].room = calls[s].room /\ calls'[s].seen = calls[s].seen
              /\ calls'[s].pc = "createMatch" => calls'[s].room \notin DOMAIN rooms'
  PROVE  Once'
<1>1. /\ issued.room \in Int /\ DOMAIN rooms' \subseteq RoomIds \cup {r \in DOMAIN rooms' : r > issued.room}
      /\ \A m \in DOMAIN matches : matches[m].room \in Int
  BY DEF Inv, TypeOK, RoomIds
<1>2. \A s \in Slots : calls[s].room \in Int /\ calls[s].room <= issued.room
  BY Snapshots
<1>3. ReadersOK'
  BY DEF Once, ReadersOK, Reading, Going
<1>4. CallsAgree'
  BY DEF Once, CallsAgree, Reading, Going
<1>5. RoomsGone'
  <2>1. \A s \in Slots : calls'[s].pc = "createMatch" => calls'[s].room \notin DOMAIN rooms'
    BY <1>1, <1>2 DEF Once, RoomsGone, Reading
  <2>2. \A m \in DOMAIN matches' :
          matches'[m].room \notin DOMAIN rooms' /\ matches'[m].room <= issued'.room
    BY <1>1 DEF Once, RoomsGone
  <2> QED
    BY <2>1, <2>2 DEF RoomsGone
<1>6. \A r : Starting(r)' \subseteq Starting(r) /\ MatchesOf(r)' \subseteq MatchesOf(r)
  BY DEF Starting, MatchesOf, Reading, Going
<1>7. AnswersAgain'
  <2> SUFFICES ASSUME NEW r \in RoomIds \ contended', Started(r)', NEW s \in Slots,
                      calls'[s].pc = "writeReady", calls'[s].room = r
               PROVE  <<s[1], r>> \in answered'
    BY DEF AnswersAgain
  <2>1. calls'[s] = calls[s]
    BY DEF Reading, Going
  <2>2. Started(r)
    BY <1>6 DEF Started
  <2> QED
    BY <2>1, <2>2 DEF Once, AnswersAgain
<1>8. Sole'
  BY <1>6 DEF Once, Sole
<1> QED
  BY <1>3, <1>4, <1>5, <1>7, <1>8 DEF Once

\* A search, an arming or taking of a seat, and a call that ends.
LEMMA SearchesCalm ==
  ASSUME Inv, Once, NEW s \in Slots,
         \/ FindMatch(s) \/ CheckRoom(s) \/ CheckWaiting(s) \/ CreateRoom(s) \/ AddJob(s)
         \/ TakeSeat(s) \/ StopFindMatch(s) \/ StopRemove(s) \/ Reject(s)
  PROVE  Once'
<1>1. calls \in [Slots -> Frame] /\ calls[s] \in Frame /\ issued.room \in Int
  BY Snapshots DEF Inv, TypeOK
<1>2. \A t \in Slots : calls'[t] = calls[t] \/ calls'[t].pc \notin Reading
  <2>1. CASE \E pc \in CallPC \ Reading : Goto(s, pc)
    BY <1>1, <2>1 DEF Goto, Frame
  <2>2. CASE Return(s)
    BY <1>1, <2>2 DEF Return, IdleFrame, Reading
  <2>3. CASE \E pc \in CallPC \ Reading : \E r :
               calls' = [calls EXCEPT ![s].pc = pc, ![s].room = r]
    BY <1>1, <2>3 DEF Frame
  <2>4. CASE \E pc \in CallPC \ Reading : \E j :
               calls' = [calls EXCEPT ![s].pc = pc, ![s].job = j]
    BY <1>1, <2>4 DEF Frame
  <2> QED
    BY <2>1, <2>2, <2>3, <2>4
       DEF FindMatch, CheckRoom, CheckWaiting, CreateRoom, AddJob, TakeSeat, StopFindMatch,
           StopRemove, Reject, CallPC, Reading
<1>3. /\ UNCHANGED <<matches, answered, repeated>> /\ contended \subseteq contended'
      /\ issued'.room \in Int /\ issued.room <= issued'.room
      /\ \A r \in DOMAIN rooms' : r \in DOMAIN rooms \/ r > issued.room
  BY <1>1 DEF FindMatch, CheckRoom, CheckWaiting, CreateRoom, AddJob, TakeSeat, StopFindMatch,
         StopRemove, Reject, history, Fault, Inv, TypeOK, With, Without, Restrict
<1> QED
  BY <1>2, <1>3, CalmStep

\* A started match goes on to the removal of its timeout and its room.
LEMMA StartsCalm ==
  ASSUME Inv, Once, NEW s \in Slots, RemoveJob(s) \/ RemoveRoom(s)
  PROVE  Once'
<1>1. calls \in [Slots -> Frame] /\ calls[s] \in Frame /\ issued.room \in Int
  BY Snapshots DEF Inv, TypeOK
<1>2. \A t \in Slots :
        \/ calls'[t] = calls[t]
        \/ calls'[t].pc \notin Reading
        \/ /\ calls[t].pc \in Going /\ calls'[t].pc \in Going
           /\ calls'[t].room = calls[t].room /\ calls'[t].seen = calls[t].seen
           /\ calls'[t].pc = "createMatch" => calls'[t].room \notin DOMAIN rooms'
  <2>1. CASE Return(s)
    BY <1>1, <2>1 DEF Return, IdleFrame, Reading
  <2>2. CASE calls[s].pc = "removeJob" /\ Goto(s, "removeRoom")
    BY <1>1, <2>2 DEF Goto, Frame, Going
  <2>3. CASE calls[s].pc = "removeRoom" /\ Goto(s, "createMatch")
             /\ rooms' = Without(rooms, calls[s].room)
    <3>1. calls[s].room \notin DOMAIN rooms'
      BY <2>3 DEF Without, Restrict
    <3> QED
      BY <1>1, <2>3, <3>1 DEF Goto, Frame, Going
  <2> QED
    BY <2>1, <2>2, <2>3 DEF RemoveJob, RemoveRoom
<1>3. /\ UNCHANGED <<matches, answered, repeated, contended, issued>>
      /\ \A r \in DOMAIN rooms' : r \in DOMAIN rooms
  BY DEF RemoveJob, RemoveRoom, history, Without, Restrict
<1> QED
  BY <1>1, <1>2, <1>3, CalmStep

\* Timeouts, departures, the end of a match and a restart.
LEMMA RestCalm ==
  ASSUME Inv, Once,
         \/ \E j \in JobIds : Timeout(j) \/ RetryTimeout(j)
         \/ \E u \in Users : CleanCreatedRooms(u)
         \/ \E m \in MatchIds : MatchEnds(m)
         \/ Crash
         \/ UNCHANGED vars
  PROVE  Once'
<1>1. issued.room \in Int
  BY DEF Inv, TypeOK
<1>2. \A t \in Slots : calls'[t] = calls[t] \/ calls'[t].pc \notin Reading
  <2>1. CASE calls' = [t \in Slots |-> IdleFrame]
    BY <2>1 DEF IdleFrame, Reading
  <2> QED
    BY <2>1 DEF Timeout, StartTimeout, TimeoutRemove, RetryTimeout, CleanCreatedRooms,
       MatchEnds, Crash, vars
<1>3. /\ UNCHANGED <<answered, repeated, contended>>
      /\ issued'.room \in Int /\ issued.room <= issued'.room
      /\ \A r \in DOMAIN rooms' : r \in DOMAIN rooms
      /\ \A m \in DOMAIN matches' : m \in DOMAIN matches /\ matches'[m] = matches[m]
  <2>1. UNCHANGED <<answered, repeated, contended>> /\ (issued' = issued \/ Fault)
    BY DEF Timeout, StartTimeout, TimeoutRemove, RetryTimeout, CleanCreatedRooms, MatchEnds,
       Crash, vars, history
  <2>2. issued'.room = issued.room
    BY <2>1 DEF Fault, Inv, TypeOK
  <2>3. rooms' = rooms \/ \E R : rooms' = Restrict(rooms, R) /\ R \subseteq DOMAIN rooms
    BY DEF Timeout, StartTimeout, TimeoutRemove, RetryTimeout, CleanCreatedRooms, MatchEnds,
       Crash, vars, history, Without
  <2>4. matches' = matches \/ \E m : matches' = Without(matches, m)
    BY DEF Timeout, StartTimeout, TimeoutRemove, RetryTimeout, CleanCreatedRooms, MatchEnds,
       Crash, vars
  <2>5. \A r \in DOMAIN rooms' : r \in DOMAIN rooms
    BY <2>3 DEF Restrict
  <2>6. \A m \in DOMAIN matches' : m \in DOMAIN matches /\ matches'[m] = matches[m]
    BY <2>4 DEF Without, Restrict
  <2> QED
    BY <1>1, <2>1, <2>2, <2>5, <2>6
<1> QED
  BY <1>2, <1>3, CalmStep

\* The room that a ready call reads has the players that other calls have read, and
\* who is in a started one has answered.
LEMMA ReadOnce ==
  ASSUME Inv, Once, NEW s \in Slots, ReadyRead(s)
  PROVE  Once'
<1>1. UNCHANGED <<rooms, matches, issued, answered, contended, repeated>>
  BY DEF ReadyRead, history
<1>2. PICK r \in DOMAIN rooms :
        /\ calls' = [calls EXCEPT ![s].pc = "writeReady", ![s].room = r, ![s].seen = rooms[r]]
        /\ s[1] \in {rooms[r].player1, rooms[r].player2}
  BY DEF ReadyRead, JoinedRooms, SeatedIn
<1>3. /\ calls'[s].pc = "writeReady" /\ calls'[s].room = r /\ calls'[s].seen = rooms[r]
      /\ \A t \in Slots \ {s} : calls'[t] = calls[t]
  BY <1>2, Snapshots DEF Frame
<1>4. \A t \in Slots : calls[t].pc \in Reading /\ calls[t].room = r /\ r \notin contended =>
        SameSeats(rooms[r], calls[t].seen)
  BY Snapshots DEF FrameOK, SeenOK
<1>5. ReadersOK'
  BY <1>2, <1>3 DEF Once, ReadersOK
<1>6. CallsAgree'
  BY <1>1, <1>3, <1>4 DEF Once, CallsAgree, Agree, SameSeats
<1>7. RoomsGone'
  BY <1>1, <1>3 DEF Once, RoomsGone
<1>8. \A q : Starting(q)' \subseteq Starting(q) /\ MatchesOf(q)' = MatchesOf(q)
  BY <1>1, <1>3 DEF Starting, MatchesOf
<1>9. Starting(r) # {} /\ r \notin contended => <<s[1], r>> \in answered
  <2> SUFFICES ASSUME NEW t \in Slots, calls[t].pc \in Going, calls[t].room = r, r \notin contended
               PROVE  <<s[1], r>> \in answered
    BY DEF Starting, Going
  <2>1. /\ <<calls[t].seen.player1, r>> \in answered /\ <<calls[t].seen.player2, r>> \in answered
    BY Snapshots DEF FrameOK
  <2>2. calls[t].seen.player2 # Nobody
    BY <2>1, UserAssumption DEF Inv, TypeOK
  <2>3. SameSeats(rooms[r], calls[t].seen)
    BY <1>4 DEF Going, Reading
  <2> QED
    BY <1>2, <2>1, <2>2, <2>3 DEF SameSeats
<1>10. AnswersAgain'
  <2> SUFFICES ASSUME NEW q \in RoomIds \ contended', Started(q)', NEW t \in Slots,
                      calls'[t].pc = "writeReady", calls'[t].room = q
               PROVE  <<t[1], q>> \in answered'
    BY DEF AnswersAgain
  <2>1. Started(q)
    BY <1>8 DEF Started
  <2>2. CASE t = s
    <3>1. MatchesOf(r) = {}
      BY DEF Once, RoomsGone, MatchesOf
    <3> QED
      BY <1>1, <1>3, <1>9, <2>1, <2>2, <3>1 DEF Started
  <2>3. CASE t # s
    BY <1>1, <1>3, <2>1, <2>3 DEF Once, AnswersAgain
  <2> QED
    BY <2>2, <2>3
<1>11. Sole'
  BY <1>1, <1>8 DEF Once, Sole
<1> QED
  BY <1>5, <1>6, <1>7, <1>10, <1>11 DEF Once

\* The first call that sees both flags starts the match; whoever answers that room
\* afterwards has answered before.
LEMMA WriteOnce ==
  ASSUME Inv, Inv', Once, NEW s \in Slots, WriteReady(s)
  PROVE  Once'
<1>0. PICK r, both : /\ r = calls[s].room
                     /\ both = (ReadyFlags(s[1], calls[s].seen).player1
                                /\ ReadyFlags(s[1], calls[s].seen).player2)
  OBVIOUS
<1>1. /\ UNCHANGED <<matches, issued, contended>> /\ DOMAIN rooms' = DOMAIN rooms
      /\ calls[s].pc = "writeReady" /\ answered \subseteq answered'
      /\ repeated \subseteq repeated' /\ (<<s[1], r>> \in answered => r \in repeated')
      /\ IF both THEN Goto(s, "removeJob") ELSE Return(s)
  BY <1>0 DEF WriteReady
<1>2. calls \in [Slots -> Frame] /\ calls[s] \in Frame /\ issued.room \in Int
  BY Snapshots DEF Inv, TypeOK
<1>3. CASE ~both
  <2>1. \A t \in Slots : calls'[t] = calls[t] \/ calls'[t].pc \notin Reading
    BY <1>1, <1>2, <1>3 DEF Return, IdleFrame, Reading
  <2> QED
    BY <1>1, <1>2, <2>1, CalmStep
<1>4. CASE both
  <2>1. /\ calls'[s].pc = "removeJob" /\ calls'[s].room = r /\ calls'[s].seen = calls[s].seen
        /\ \A t \in Slots \ {s} : calls'[t] = calls[t]
    BY <1>0, <1>1, <1>2, <1>4 DEF Goto, Frame
  <2>2. ReadersOK'
    BY <2>1 DEF Once, ReadersOK
  <2>3. CallsAgree'
    BY <1>0, <1>1, <2>1 DEF Once, CallsAgree, Reading
  <2>4. RoomsGone'
    BY <1>1, <2>1 DEF Once, RoomsGone
  <2>5. /\ \A q : MatchesOf(q)' = MatchesOf(q)
        /\ \A q : Starting(q)' \subseteq Starting(q) \cup {s}
        /\ \A q : q # r => Starting(q)' = Starting(q)
    BY <1>0, <1>1, <2>1 DEF MatchesOf, Starting
  <2>6. r \notin contended => \A t \in Slots :
          calls[t].pc = "writeReady" /\ calls[t].room = r => <<t[1], r>> \in answered'
    <3> SUFFICES ASSUME r \notin contended, NEW t \in Slots, calls[t].pc = "writeReady",
                        calls[t].room = r
                 PROVE  <<t[1], r>> \in answered'
      OBVIOUS
    <3>1. FrameOK(calls[s])'
      BY DEF Inv, FramesOK
    <3>2. /\ <<calls[s].seen.player1, r>> \in answered' /\ <<calls[s].seen.player2, r>> \in answered'
      BY <1>1, <2>1, <3>1 DEF FrameOK, Going
    <3>3. calls[s].seen.player2 # Nobody
      BY <3>2, UserAssumption DEF Inv, TypeOK
    <3>4. Agree(calls[s].seen, calls[t].seen)
      BY <1>0, <1>1 DEF Once, CallsAgree, Reading
    <3>5. t[1] \in {calls[t].seen.player1, calls[t].seen.player2} /\ t[1] # Nobody
      BY Snapshots, UserAssumption DEF Once, ReadersOK
    <3> QED
      BY <3>2, <3>3, <3>4, <3>5 DEF Agree
  <2>7. AnswersAgain'
    <3> SUFFICES ASSUME NEW q \in RoomIds \ contended', Started(q)', NEW t \in Slots,
                        calls'[t].pc = "writeReady", calls'[t].room = q
                 PROVE  <<t[1], q>> \in answered'
      BY DEF AnswersAgain
    <3>1. t # s /\ calls'[t] = calls[t]
      BY <2>1
    <3>2. CASE q = r
      BY <1>1, <2>6, <3>1, <3>2
    <3>3. CASE q # r
      <4>1. Started(q)
        BY <2>5, <3>3 DEF Started
      <4> QED
        BY <1>1, <3>1, <4>1 DEF Once, AnswersAgain
    <3> QED
      BY <3>2, <3>3
  <2>8. Sole'
    <3> SUFFICES ASSUME NEW q \in RoomIds \ (contended' \cup repeated')
                 PROVE  /\ \A x, y \in Starting(q)' : x = y
                        /\ \A m, n \in MatchesOf(q)' : m = n
                        /\ Starting(q)' # {} => MatchesOf(q)' = {}
      BY DEF Sole
    <3>1. q \in RoomIds \ (contended \cup repeated)
      BY <1>1
    <3>2. CASE q = r
      <4>1. ~Started(r)
        BY <1>0, <1>1, <3>1, <3>2 DEF Once, AnswersAgain
      <4> QED
        BY <2>5, <3>2, <4>1 DEF Started
    <3>3. CASE q # r
      BY <2>5, <3>1, <3>3 DEF Once, Sole
    <3> QED
      BY <3>2, <3>3
  <2> QED
    BY <2>2, <2>3, <2>4, <2>7, <2>8 DEF Once
<1> QED
  BY <1>1, <1>3, <1>4

\* The call that started the match makes it, and is done.
LEMMA CreateOnce ==
  ASSUME Inv, Once, NEW s \in Slots, CreateMatch(s)
  PROVE  Once'
<1>0. PICK r : r = calls[s].room
  OBVIOUS
<1>1. /\ UNCHANGED <<rooms, answered, repeated, contended>> /\ calls[s].pc = "createMatch"
      /\ Return(s) /\ issued.room \in Int
  BY DEF CreateMatch, history, Inv, TypeOK
<1>2. /\ calls'[s].pc = "idle" /\ \A t \in Slots \ {s} : calls'[t] = calls[t]
      /\ r \in RoomIds /\ r <= issued.room
  BY <1>0, <1>1, Snapshots DEF Return, IdleFrame, Reading
<1>3. CASE UNCHANGED <<issued, matches>>
  BY <1>1, <1>2, <1>3, CalmStep DEF Reading
<1>4. CASE ~UNCHANGED <<issued, matches>>
  <2>1. PICK new : /\ issued'.room = issued.room
                   /\ \A m \in DOMAIN matches' :
                        \/ m \in DOMAIN matches /\ matches'[m] = matches[m]
                        \/ m = new /\ matches'[m].room = r
    <3>1. /\ issued' = [issued EXCEPT !.match = @ + 1]
          /\ matches' = With(matches, issued'.match,
                             [room |-> r, players |-> {calls[s].seen.player1, calls[s].seen.player2}])
      BY <1>0, <1>4 DEF CreateMatch
    <3>2. issued'.room = issued.room
      BY <3>1 DEF Inv, TypeOK
    <3> QED
      BY <3>1, <3>2 DEF With
  <2>2. ReadersOK'
    BY <1>2 DEF Once, ReadersOK
  <2>3. CallsAgree'
    BY <1>1, <1>2 DEF Once, CallsAgree, Reading
  <2>4. RoomsGone'
    <3>1. r \notin DOMAIN rooms
      BY <1>0, <1>1 DEF Once, RoomsGone
    <3> QED
      BY <1>1, <1>2, <2>1, <3>1 DEF Once, RoomsGone
  <2>5. /\ \A q : Starting(q)' \subseteq Starting(q) \ {s}
        /\ \A q : MatchesOf(q)' \subseteq MatchesOf(q) \cup {new}
        /\ \A q : q # r => MatchesOf(q)' \subseteq MatchesOf(q)
        /\ s \in Starting(r)
    BY <1>0, <1>1, <1>2, <2>1 DEF Starting, MatchesOf
  <2>6. AnswersAgain'
    <3> SUFFICES ASSUME NEW q \in RoomIds \ contended', Started(q)', NEW t \in Slots,
                        calls'[t].pc = "writeReady", calls'[t].room = q
                 PROVE  <<t[1], q>> \in answered'
      BY DEF AnswersAgain
    <3>1. calls'[t] = calls[t] /\ Started(q)
      BY <1>2, <2>5 DEF Started
    <3> QED
      BY <1>1, <3>1 DEF Once, AnswersAgain
  <2>7. Sole'
    <3> SUFFICES ASSUME NEW q \in RoomIds \ (contended' \cup repeated')
                 PROVE  /\ \A x, y \in Starting(q)' : x = y
                        /\ \A m, n \in MatchesOf(q)' : m = n
                        /\ Starting(q)' # {} => MatchesOf(q)' = {}
      BY DEF Sole
    <3>1. /\ q \in RoomIds \ (contended \cup repeated)
          /\ \A x, y \in Starting(q) : x = y
          /\ \A m, n \in MatchesOf(q) : m = n
          /\ Starting(q) # {} => MatchesOf(q) = {}
      BY <1>1 DEF Once, Sole
    <3>2. CASE q = r
      BY <2>5, <3>1, <3>2
    <3>3. CASE q # r
      BY <2>5, <3>1, <3>3
    <3> QED
      BY <3>2, <3>3
  <2> QED
    BY <2>2, <2>3, <2>4, <2>6, <2>7 DEF Once
<1> QED
  BY <1>3, <1>4

-----------------------------------------------------------------------------
(* The theorem                                                              *)

\* A set whose elements are all the same has one at most.
LEMMA AtMostOne ==
  ASSUME NEW S, \A x, y \in S : x = y
  PROVE  Cardinality(S) \in 0..1 /\ (S = {} => Cardinality(S) = 0)
<1>1. CASE S = {}
  BY <1>1, FS_EmptySet
<1>2. CASE S # {}
  <2>1. PICK x : S = {x}
    BY <1>2
  <2>2. Cardinality({x}) = 1
    BY FS_Singleton
  <2> QED
    BY <1>2, <2>1, <2>2
<1> QED
  BY <1>1, <1>2

\* What is sole is at most one.
LEMMA SoleIsOne == Sole => OneMatchPerRoom
<1> SUFFICES ASSUME Sole, NEW r \in RoomIds \ (contended \cup repeated)
             PROVE  Cardinality(Starting(r)) + Cardinality(MatchesOf(r)) <= 1
  BY DEF OneMatchPerRoom
<1>2. Cardinality(Starting(r)) \in 0..1 /\ (Starting(r) = {} => Cardinality(Starting(r)) = 0)
  BY AtMostOne DEF Sole
<1>3. Cardinality(MatchesOf(r)) \in 0..1 /\ (MatchesOf(r) = {} => Cardinality(MatchesOf(r)) = 0)
  BY AtMostOne DEF Sole
<1> QED
  BY <1>2, <1>3 DEF Sole

\* The invariant that makes it one match holds throughout.
LEMMA OnceInvariance == Spec => []Once
<1>1. Init => Once
  BY DEF Init, Once, ReadersOK, CallsAgree, RoomsGone, AnswersAgain, Sole, Started, Starting,
         MatchesOf, IdleFrame, Reading
<1>2. Inv /\ Inv' /\ Once /\ [Next]_vars => Once'
  <2> SUFFICES ASSUME Inv, Inv', Once, [Next]_vars PROVE Once'
    OBVIOUS
  <2>1. CASE \E s \in Slots : FindMatch(s) \/ StopFindMatch(s) \/ ReadyRead(s) \/ Reject(s)
    BY <2>1, SearchesCalm, ReadOnce
  <2>2. CASE \E s \in Slots : Serve(s)
    BY <2>2, SearchesCalm, StartsCalm, WriteOnce, CreateOnce DEF Serve
  <2>3. CASE ~\E s \in Slots : \/ FindMatch(s) \/ StopFindMatch(s) \/ ReadyRead(s)
                               \/ Serve(s) \/ Reject(s)
    BY <2>3, RestCalm DEF Next
  <2> QED
    BY <2>1, <2>2, <2>3
<1> QED
  BY <1>1, <1>2, Invariance, PTL DEF Spec

\* A room leads to at most one match, unless a player answers it twice or its second
\* seat is taken twice: of two ready calls that each read before they write, only one
\* can have seen the other's flag.
THEOREM OneMatch == Spec => []OneMatchPerRoom
<1>1. Once => OneMatchPerRoom
  BY SoleIsOne DEF Once
<1> QED
  BY <1>1, OnceInvariance, PTL

(***************************************************************************)
(* A player is in one room, or in one match: OneSeat and OneEngagement,    *)
(* when each player has one call in flight.                                *)
(***************************************************************************)

\* The clients wait for an answer before they call again.
Serial == \A s, t \in Slots : s[1] = t[1] => s = t

\* The awaits of a search that has found its player in no room.
Past == {"checkWaiting", "createRoom", "addJob", "takeSeat"}

\* A player sits on one seat, and on none while he searches for one.
Seats(u) ==
  /\ \A r, q \in JoinedRooms(u) : r = q
  /\ \A r \in DOMAIN rooms : ~(rooms[r].player1 = u /\ rooms[r].player2 = u)
  /\ \A s \in Slots : s[1] = u /\ calls[s].pc \in Past => JoinedRooms(u) = {}

\* The matches that findMatch promises to be the only engagement of a player.
Owed(u) == {m \in PlayingMatches(u) : matches[m].room \notin contended \cup repeated}

\* The room a player sits in, the room that ready calls have read him in and the room
\* of his match are one; he has no match yet while he sits, and none of the three while
\* he searches.
Engaged(u) ==
  /\ \A s \in ReadyFor(u) : JoinedRooms(u) \subseteq {calls[s].room}
  /\ \A s, t \in ReadyFor(u) : calls[s].room = calls[t].room
  /\ \A s \in ReadyFor(u), m \in Owed(u) : calls[s].room = matches[m].room
  /\ \A m, n \in Owed(u) : m = n
  /\ JoinedRooms(u) # {} => Owed(u) = {}
  /\ \A s \in Slots : s[1] = u /\ calls[s].pc \in Past =>
       ReadyFor(u) = {} /\ PlayingMatches(u) = {}

\* All players are seated so, and engaged so unless they slipped.
SeatsOf(u) == Seats(u) /\ (u \notin slipped => Engaged(u))
Engagements == \A u \in Users : SeatsOf(u)

-----------------------------------------------------------------------------
\* A step that neither seats the player, nor lets a ready call read of him, nor makes
\* his match, nor lets him search past his rooms.
LEMMA NothingNew ==
  ASSUME NEW u \in Users, SeatsOf(u),
         slipped \subseteq slipped', contended \subseteq contended', repeated \subseteq repeated',
         \A r \in DOMAIN rooms' :
           /\ rooms'[r].player1 = u => r \in DOMAIN rooms /\ rooms[r].player1 = u
           /\ rooms'[r].player2 = u => r \in DOMAIN rooms /\ rooms[r].player2 = u,
         \A m \in DOMAIN matches' : m \in DOMAIN matches /\ matches'[m] = matches[m],
         \A s \in Slots :
           /\ calls'[s].pc \in Reading /\ u \in {calls'[s].seen.player1, calls'[s].seen.player2} =>
                /\ calls[s].pc \in Reading /\ u \in {calls[s].seen.player1, calls[s].seen.player2}
                /\ calls'[s].room = calls[s].room
           /\ s[1] = u /\ calls'[s].pc \in Past => calls[s].pc \in Past
  PROVE  SeatsOf(u)'
<1>1. JoinedRooms(u)' \subseteq JoinedRooms(u)
  BY DEF JoinedRooms, SeatedIn
<1>2. \A s \in ReadyFor(u)' : s \in ReadyFor(u) /\ calls'[s].room = calls[s].room
  BY DEF ReadyFor, Reading
<1>3. PlayingMatches(u)' \subseteq PlayingMatches(u) /\ Owed(u)' \subseteq Owed(u)
  BY DEF PlayingMatches, Owed
<1>4. \A m \in Owed(u)' : matches'[m] = matches[m]
  BY DEF PlayingMatches, Owed
<1>5. Seats(u)'
  BY <1>1 DEF SeatsOf, Seats
<1>6. u \notin slipped' => Engaged(u)'
  BY <1>1, <1>2, <1>3, <1>4 DEF SeatsOf, Engaged
<1> QED
  BY <1>5, <1>6 DEF SeatsOf

\* The steps that are nothing new to anybody.
LEMMA OthersKeep ==
  ASSUME Inv, Engagements,
         \/ \E s \in Slots :
              \/ FindMatch(s) \/ CheckWaiting(s) \/ AddJob(s) \/ StopFindMatch(s)
              \/ StopRemove(s) \/ WriteReady(s) \/ RemoveJob(s) \/ RemoveRoom(s) \/ Reject(s)
         \/ \E j \in JobIds : Timeout(j) \/ RetryTimeout(j)
         \/ \E u \in Users : CleanCreatedRooms(u)
         \/ \E m \in MatchIds : MatchEnds(m)
         \/ Crash
         \/ UNCHANGED vars
  PROVE  Engagements'
<1>1. \A s \in Slots :
        \/ calls'[s] = calls[s]
        \/ calls'[s].pc \notin Reading \cup Past
        \/ calls[s].pc \in Past /\ calls'[s].pc \in Past
        \/ /\ calls[s].pc \in Reading /\ calls'[s].pc \in Reading
           /\ calls'[s].room = calls[s].room /\ calls'[s].seen = calls[s].seen
  <2>1. CASE calls' = [s \in Slots |-> IdleFrame] \/ calls' = calls
    BY <2>1 DEF IdleFrame, Reading, Past
  <2>2. CASE \E s \in Slots :
               \/ FindMatch(s) \/ CheckWaiting(s) \/ AddJob(s) \/ StopFindMatch(s)
               \/ StopRemove(s) \/ WriteReady(s) \/ RemoveJob(s) \/ RemoveRoom(s) \/ Reject(s)
    <3>1. PICK s \in Slots :
               \/ FindMatch(s) \/ CheckWaiting(s) \/ AddJob(s) \/ StopFindMatch(s)
               \/ StopRemove(s) \/ WriteReady(s) \/ RemoveJob(s) \/ RemoveRoom(s) \/ Reject(s)
      BY <2>2
    <3>2. calls \in [Slots -> Frame] /\ calls[s] \in Frame
      BY Snapshots
    <3>3. CASE Return(s)
      BY <3>2, <3>3 DEF Return, IdleFrame, Reading, Past
    <3>4. CASE \E pc \in {"checkRoom", "stop"} : \E r : 
                 Goto(s, pc) \/ calls' = [calls EXCEPT ![s].pc = pc, ![s].room = r]
      BY <3>2, <3>4 DEF Goto, Frame, Reading, Past
    <3>5. CASE /\ calls[s].pc \in Past
               /\ \E pc \in Past : \E r :
                    \/ Goto(s, pc) \/ calls' = [calls EXCEPT ![s].pc = pc, ![s].room = r]
                    \/ calls' = [calls EXCEPT ![s].pc = pc, ![s].job = r]
      BY <3>2, <3>5 DEF Goto, Frame
    <3>6. CASE calls[s].pc \in Reading /\ \E pc \in Reading : Goto(s, pc)
      BY <3>2, <3>6 DEF Goto, Frame
    <3> QED
      BY <3>1, <3>3, <3>4, <3>5, <3>6
         DEF FindMatch, CheckWaiting, AddJob, StopFindMatch, StopRemove, WriteReady, RemoveJob,
             RemoveRoom, Reject, Past, Reading
  <2> QED
    BY <2>1, <2>2 DEF Timeout, StartTimeout, TimeoutRemove, RetryTimeout, CleanCreatedRooms,
                      MatchEnds, Crash, vars
<1>2. \A r \in DOMAIN rooms' : /\ r \in DOMAIN rooms
                               /\ rooms'[r].player1 = rooms[r].player1
                               /\ rooms'[r].player2 = rooms[r].player2
  <2>1. \/ rooms' = rooms
        \/ \E R : rooms' = Restrict(rooms, R) /\ R \subseteq DOMAIN rooms
        \/ \E r \in DOMAIN rooms : \E a, b :
             rooms' = [rooms EXCEPT ![r].player1Ready = a, ![r].player2Ready = b]
    <3>1. CASE \E s \in Slots :
                 FindMatch(s) \/ CheckWaiting(s) \/ AddJob(s) \/ StopFindMatch(s)
                 \/ RemoveJob(s) \/ Reject(s)
      <4>1. rooms' = rooms
        BY <3>1 DEF FindMatch, CheckWaiting, AddJob, StopFindMatch, RemoveJob, Reject
      <4> QED BY <4>1
    <3>2. CASE \E s \in Slots : StopRemove(s) \/ RemoveRoom(s)
      <4>1. rooms' = rooms \/ \E r : rooms' = Without(rooms, r)
        BY <3>2 DEF StopRemove, RemoveRoom
      <4> QED BY <4>1 DEF Without
    <3>3. CASE \E s \in Slots : WriteReady(s)
      <4>1. PICK s \in Slots : WriteReady(s)
        BY <3>3
      <4>2. PICK r, a, b :
              rooms' = IF r \notin DOMAIN rooms THEN rooms
                       ELSE [rooms EXCEPT ![r].player1Ready = a, ![r].player2Ready = b]
        BY <4>1 DEF WriteReady
      <4>3. CASE r \in DOMAIN rooms
        <5>1. rooms' = [rooms EXCEPT ![r].player1Ready = a, ![r].player2Ready = b]
          BY <4>2, <4>3
        <5> QED BY <4>3, <5>1
      <4> QED BY <4>2, <4>3
    <3>4. CASE \E j \in JobIds : Timeout(j) \/ RetryTimeout(j)
      <4>1. rooms' = rooms \/ \E r : rooms' = Without(rooms, r)
        BY <3>4 DEF Timeout, StartTimeout, TimeoutRemove, RetryTimeout
      <4> QED BY <4>1 DEF Without
    <3>5. CASE \E u \in Users : CleanCreatedRooms(u)
      <4>1. PICK R : rooms' = Restrict(rooms, R) /\ R \subseteq DOMAIN rooms
        BY <3>5 DEF CleanCreatedRooms
      <4> QED BY <4>1
    <3>6. CASE (\E m \in MatchIds : MatchEnds(m)) \/ Crash \/ UNCHANGED vars
      <4>1. rooms' = rooms
        BY <3>6 DEF MatchEnds, Crash, vars
      <4> QED BY <4>1
    <3> HIDE DEF Without
    <3> QED BY <3>1, <3>2, <3>3, <3>4, <3>5, <3>6
  <2>2. \A r \in DOMAIN rooms : rooms[r] \in Room
    BY DEF Inv, TypeOK
  <2>3. CASE \E r \in DOMAIN rooms : \E a, b :
               rooms' = [rooms EXCEPT ![r].player1Ready = a, ![r].player2Ready = b]
    BY <2>2, <2>3 DEF Room
  <2> QED
    BY <2>1, <2>3 DEF Restrict
<1>3. \A m \in DOMAIN matches' : m \in DOMAIN matches /\ matches'[m] = matches[m]
  <2>1. matches' = matches \/ \E m : matches' = Without(matches, m)
    BY DEF FindMatch, CheckWaiting, AddJob, StopFindMatch, StopRemove, WriteReady, RemoveJob,
           RemoveRoom, Reject, Timeout, StartTimeout, TimeoutRemove, RetryTimeout,
           CleanCreatedRooms, MatchEnds, Crash, vars
  <2> QED
    BY <2>1 DEF Without, Restrict
<1>4. slipped \subseteq slipped' /\ contended \subseteq contended' /\ repeated \subseteq repeated'
  BY DEF FindMatch, CheckWaiting, AddJob, StopFindMatch, StopRemove, WriteReady, RemoveJob,
         RemoveRoom, Reject, Timeout, StartTimeout, TimeoutRemove, RetryTimeout,
         CleanCreatedRooms, MatchEnds, Crash, vars, history
<1>5. ASSUME NEW u \in Users PROVE SeatsOf(u)'
  <2>1. \A s \in Slots :
           /\ calls'[s].pc \in Reading /\ u \in {calls'[s].seen.player1, calls'[s].seen.player2} =>
                /\ calls[s].pc \in Reading /\ u \in {calls[s].seen.player1, calls[s].seen.player2}
                /\ calls'[s].room = calls[s].room
           /\ s[1] = u /\ calls'[s].pc \in Past => calls[s].pc \in Past
    BY <1>1 DEF Reading, Past
  <2> QED
    BY <1>2, <1>3, <1>4, <2>1, NothingNew DEF Engagements
<1> QED
  BY <1>5 DEF Engagements

\* A search that finds its player in no room: he is engaged nowhere, or slips.
LEMMA CheckRoomKeeps ==
  ASSUME Inv, Engagements, NEW s \in Slots, CheckRoom(s)
  PROVE  Engagements'
<1>1. /\ UNCHANGED <<rooms, matches, contended, repeated>> /\ slipped \subseteq slipped'
      /\ calls[s].pc = "checkRoom"
      /\ slipped' \subseteq slipped \cup {s[1]}
  BY DEF CheckRoom
<1>2. /\ calls'[s].pc \in {"idle", "checkWaiting"} /\ \A t \in Slots \ {s} : calls'[t] = calls[t]
      /\ calls'[s].pc = "checkWaiting" => JoinedRooms(s[1]) = {}
      /\ calls'[s].pc = "checkWaiting" /\ s[1] \notin slipped' =>
           PlayingMatches(s[1]) = {} /\ ReadyFor(s[1]) = {}
  <2>1. calls \in [Slots -> Frame]
    BY Snapshots
  <2>2. CASE JoinedRooms(s[1]) = {} /\ Goto(s, "checkWaiting")
    BY <2>1, <2>2 DEF CheckRoom, Goto, Frame
  <2>3. CASE Return(s)
    BY <2>1, <2>3 DEF Return, IdleFrame
  <2> QED
    BY <2>2, <2>3 DEF CheckRoom
<1>3. ASSUME NEW u \in Users PROVE SeatsOf(u)'
  <2>1. CASE calls'[s].pc = "checkWaiting" /\ s[1] = u
    <3>1. JoinedRooms(u)' = {} /\ (u \notin slipped' => PlayingMatches(u)' = {})
      BY <1>1, <1>2, <2>1 DEF JoinedRooms, SeatedIn, PlayingMatches
    <3>2. u \notin slipped' => ReadyFor(u)' = {}
      BY <1>2, <2>1 DEF ReadyFor
    <3>3. u \notin slipped' => Owed(u)' = {}
      BY <3>1 DEF Owed
    <3>4. Seats(u)'
      BY <3>1, <1>1 DEF Seats, Engagements, SeatsOf
    <3>5. u \notin slipped' => Engaged(u)'
      BY <3>1, <3>2, <3>3 DEF Engaged
    <3> QED
      BY <3>4, <3>5 DEF SeatsOf
  <2>2. CASE ~(calls'[s].pc = "checkWaiting" /\ s[1] = u)
    BY <1>1, <1>2, <2>2, NothingNew DEF Engagements, Reading, Past
  <2> QED
    BY <2>1, <2>2
<1> QED
  BY <1>3 DEF Engagements

\* Who takes a seat, in a new room or in one that waits, has searched: he sits nowhere
\* else, and his other calls do not search.
LEMMA SeatKeeps ==
  ASSUME Serial, Inv, Engagements, NEW s \in Slots, CreateRoom(s) \/ TakeSeat(s)
  PROVE  Engagements'
<1>1. /\ UNCHANGED <<matches, repeated, slipped>> /\ contended \subseteq contended'
      /\ calls[s].pc \in Past /\ Return(s) /\ s[1] \in Users
  BY Snapshots DEF CreateRoom, TakeSeat, history, Past
<1>2. calls'[s].pc = "idle" /\ \A t \in Slots \ {s} : calls'[t] = calls[t]
  BY <1>1, Snapshots DEF Return, IdleFrame
<1>3. PICK q : \A r \in DOMAIN rooms' :
        /\ r # q => r \in DOMAIN rooms /\ rooms'[r] = rooms[r]
        /\ r = q => \/ rooms'[q].player1 = s[1] /\ rooms'[q].player2 = Nobody
                    \/ /\ q \in DOMAIN rooms /\ rooms'[q].player1 = rooms[q].player1
                       /\ rooms'[q].player2 = s[1]
  <2>1. CASE CreateRoom(s)
    <3>1. PICK n : rooms' = With(rooms, n, NewRoom(s[1]))
      BY <2>1 DEF CreateRoom
    <3> QED
      BY <3>1 DEF With, NewRoom
  <2>2. CASE TakeSeat(s)
    <3> DEFINE r == calls[s].room
    <3>1. CASE r \in DOMAIN rooms
      <4>1. rooms' = [rooms EXCEPT ![r].player2 = s[1], ![r].timeoutJobId = calls[s].job]
        BY <2>2, <3>1 DEF TakeSeat
      <4>2. rooms[r] \in Room
        BY <3>1 DEF Inv, TypeOK
      <4>3. rooms'[r].player1 = rooms[r].player1 /\ rooms'[r].player2 = s[1]
        BY <3>1, <4>1, <4>2 DEF Room
      <4>4. \A x \in DOMAIN rooms' : x \in DOMAIN rooms /\ (x # r => rooms'[x] = rooms[x])
        BY <4>1
      <4> QED
        BY <3>1, <4>3, <4>4
    <3>2. CASE r \notin DOMAIN rooms
      BY <2>2, <3>2 DEF TakeSeat
    <3> QED
      BY <3>1, <3>2
  <2> QED
    BY <2>1, <2>2
<1>4. ASSUME NEW u \in Users PROVE SeatsOf(u)'
  <2>1. CASE u = s[1]
    <3>1. JoinedRooms(u) = {} /\ (u \notin slipped => ReadyFor(u) = {} /\ PlayingMatches(u) = {})
      BY <1>1, <2>1 DEF Engagements, SeatsOf, Seats, Engaged
    <3>2. JoinedRooms(u)' \subseteq {q}
      BY <1>3, <3>1 DEF JoinedRooms, SeatedIn
    <3>3. \A r \in DOMAIN rooms' : ~(rooms'[r].player1 = u /\ rooms'[r].player2 = u)
      BY <1>3, <2>1, <3>1, UserAssumption DEF JoinedRooms, SeatedIn
    <3>4. \A t \in Slots : t[1] = u => calls'[t].pc \notin Past
      BY <1>2, <2>1 DEF Serial, Past
    <3>5. Seats(u)'
      BY <3>2, <3>3, <3>4 DEF Seats
    <3>6. u \notin slipped' => ReadyFor(u)' = {} /\ PlayingMatches(u)' = {} /\ Owed(u)' = {}
      BY <1>1, <1>2, <3>1 DEF ReadyFor, PlayingMatches, Owed
    <3>7. u \notin slipped' => Engaged(u)'
      BY <3>4, <3>6 DEF Engaged
    <3> QED
      BY <3>5, <3>7 DEF SeatsOf
  <2>2. CASE u # s[1]
    <3>1. \A r \in DOMAIN rooms' :
            /\ rooms'[r].player1 = u => r \in DOMAIN rooms /\ rooms[r].player1 = u
            /\ rooms'[r].player2 = u => r \in DOMAIN rooms /\ rooms[r].player2 = u
      BY <1>3, <2>2, UserAssumption
    <3> QED
      BY <1>1, <1>2, <2>2, <3>1, NothingNew DEF Engagements, Reading, Past
  <2> QED
    BY <2>1, <2>2
<1> QED
  BY <1>4 DEF Engagements

\* A ready call reads the one room that its players sit in.
LEMMA ReadyReadKeeps ==
  ASSUME Inv, Engagements, NEW s \in Slots, ReadyRead(s)
  PROVE  Engagements'
<1>1. PICK q \in JoinedRooms(s[1]) :
        calls' = [calls EXCEPT ![s].pc = "writeReady", ![s].room = q, ![s].seen = rooms[q]]
  BY DEF ReadyRead
<1>2. UNCHANGED <<rooms, matches, contended, repeated, slipped>>
  BY DEF ReadyRead, history
<1>3. /\ calls'[s].pc = "writeReady" /\ calls'[s].room = q /\ calls'[s].seen = rooms[q]
      /\ \A t \in Slots \ {s} : calls'[t] = calls[t]
      /\ q \in DOMAIN rooms
  BY <1>1, Snapshots DEF Frame, JoinedRooms
<1>4. ASSUME NEW u \in Users PROVE SeatsOf(u)'
  <2>1. CASE u \in {rooms[q].player1, rooms[q].player2}
    <3>1. q \in JoinedRooms(u) /\ JoinedRooms(u)' = JoinedRooms(u)
      BY <1>2, <1>3, <2>1 DEF JoinedRooms, SeatedIn
    <3>2. JoinedRooms(u) = {q}
      BY <3>1 DEF Engagements, SeatsOf, Seats
    <3>3. \A t \in Slots : t[1] = u => calls'[t].pc \notin Past
      BY <1>3, <3>1 DEF Engagements, SeatsOf, Seats, Past
    <3>4. Seats(u)'
      BY <1>2, <3>1, <3>2, <3>3 DEF Engagements, SeatsOf, Seats
    <3>5. ASSUME u \notin slipped PROVE Engaged(u)'
      <4>1. Engaged(u)
        BY <3>5 DEF Engagements, SeatsOf
      <4>2. Owed(u)' = {}
        BY <1>2, <3>1, <4>1 DEF Engaged, Owed, PlayingMatches
      <4>3. \A t \in ReadyFor(u)' : calls'[t].room = q
        BY <1>3, <3>2, <4>1 DEF Engaged, ReadyFor
      <4> QED
        BY <3>1, <3>2, <3>3, <4>2, <4>3 DEF Engaged
    <3> QED
      BY <1>2, <3>4, <3>5 DEF SeatsOf
  <2>2. CASE u \notin {rooms[q].player1, rooms[q].player2}
    BY <1>2, <1>3, <2>2, NothingNew DEF Engagements, Reading, Past
  <2> QED
    BY <2>1, <2>2
<1> QED
  BY <1>4 DEF Engagements

\* A match is made of players whose room is gone, and who have no other.
LEMMA CreateMatchKeeps ==
  ASSUME Inv, Once, Engagements, NEW s \in Slots, CreateMatch(s)
  PROVE  Engagements'
<1>1. /\ UNCHANGED <<rooms, contended, repeated, slipped>>
      /\ calls[s].pc = "createMatch" /\ Return(s)
  BY DEF CreateMatch, history
<1>2. calls'[s].pc = "idle" /\ \A t \in Slots \ {s} : calls'[t] = calls[t]
  BY <1>1, Snapshots DEF Return, IdleFrame
<1>3. PICK q, players : q = calls[s].room /\ players = {calls[s].seen.player1, calls[s].seen.player2}
  OBVIOUS
<1>4. q \in RoomIds /\ q \notin DOMAIN rooms
  BY <1>1, <1>3, Snapshots DEF Once, RoomsGone, Reading
<1>5. PICK new : \A m \in DOMAIN matches' :
        \/ m \in DOMAIN matches /\ matches'[m] = matches[m]
        \/ m = new /\ matches'[m].room = q /\ matches'[m].players = players
  <2>1. CASE matches' = matches
    BY <2>1
  <2>2. CASE matches' # matches
    <3>1. matches' = With(matches, issued'.match, [room |-> q, players |-> players])
      BY <1>3, <2>2 DEF CreateMatch
    <3> QED
      BY <3>1 DEF With
  <2> QED
    BY <2>1, <2>2
<1>6. ASSUME NEW u \in Users PROVE SeatsOf(u)'
  <2>1. CASE u \in players
    <3>1. s \in ReadyFor(u)
      BY <1>1, <1>3, <2>1 DEF ReadyFor
    <3>2. Seats(u)'
      BY <1>1, <1>2 DEF Engagements, SeatsOf, Seats, JoinedRooms, SeatedIn, Past
    <3>3. ASSUME u \notin slipped PROVE Engaged(u)'
      <4>1. Engaged(u)
        BY <3>3 DEF Engagements, SeatsOf
      <4>2. JoinedRooms(u) = {} /\ JoinedRooms(u)' = {}
        BY <1>1, <1>3, <1>4, <3>1, <4>1 DEF Engaged, JoinedRooms, SeatedIn
      <4>3. Owed(u) = {} \/ q \in contended \cup repeated
        <5> SUFFICES ASSUME NEW m \in Owed(u), q \notin contended \cup repeated PROVE FALSE
          OBVIOUS
        <5>1. m \in MatchesOf(q)
          BY <1>3, <3>1, <4>1 DEF Engaged, Owed, PlayingMatches, MatchesOf
        <5>2. s \in Starting(q)
          BY <1>1, <1>3 DEF Starting
        <5> QED
          BY <1>4, <5>1, <5>2 DEF Once, Sole
      <4>4. \A m \in Owed(u)' : \/ m \in Owed(u) /\ matches'[m] = matches[m]
                                \/ m = new /\ matches'[m].room = q /\ q \notin contended \cup repeated
        BY <1>1, <1>5 DEF Owed, PlayingMatches
      <4>5. \A m, n \in Owed(u)' : m = n
        BY <4>1, <4>3, <4>4 DEF Engaged
      <4>6. \A t \in ReadyFor(u)' : t \in ReadyFor(u) /\ calls'[t] = calls[t] /\ calls[t].room = q
        BY <1>2, <1>3, <3>1, <4>1 DEF ReadyFor, Engaged
      <4>7. \A t \in ReadyFor(u)', m \in Owed(u)' : calls'[t].room = matches'[m].room
        BY <4>1, <4>4, <4>6 DEF Engaged
      <4>8. \A t \in Slots : t[1] = u => calls'[t].pc \notin Past
        BY <1>2, <3>1, <4>1 DEF Engaged, Past
      <4> QED
        BY <4>2, <4>5, <4>6, <4>7, <4>8 DEF Engaged
    <3> QED
      BY <1>1, <3>2, <3>3 DEF SeatsOf
  <2>2. CASE u \notin players
    <3>1. /\ PlayingMatches(u)' \subseteq PlayingMatches(u)
          /\ \A m \in PlayingMatches(u)' : matches'[m] = matches[m]
      BY <1>5, <2>2 DEF PlayingMatches
    <3>2. Owed(u)' \subseteq Owed(u) /\ \A m \in Owed(u)' : matches'[m] = matches[m]
      BY <1>1, <3>1 DEF Owed
    <3>3. JoinedRooms(u)' = JoinedRooms(u) /\ ReadyFor(u)' \subseteq ReadyFor(u)
      BY <1>1, <1>2 DEF JoinedRooms, SeatedIn, ReadyFor
    <3>4. \A t \in ReadyFor(u)' : calls'[t] = calls[t]
      BY <1>2 DEF ReadyFor
    <3>5. \A t \in Slots : calls'[t].pc \in Past => calls[t].pc \in Past
      BY <1>2 DEF Past
    <3>6. Seats(u)'
      BY <1>1, <3>3, <3>5 DEF Engagements, SeatsOf, Seats
    <3>7. u \notin slipped => Engaged(u)'
      BY <3>1, <3>2, <3>3, <3>4, <3>5 DEF Engagements, SeatsOf, Engaged
    <3> QED
      BY <1>1, <3>6, <3>7 DEF SeatsOf
  <2> QED
    BY <2>1, <2>2
<1> QED
  BY <1>6 DEF Engagements

\* Seats and engagements are in order throughout.
LEMMA EngagementsInvariant ==
  ASSUME Serial
  PROVE  Spec => []Engagements
<1>1. Init => Engagements
  BY DEF Init, Engagements, SeatsOf, Seats, Engaged, JoinedRooms, ReadyFor, PlayingMatches, Owed,
         IdleFrame, Past
<1>2. Inv /\ Once /\ Engagements /\ [Next]_vars => Engagements'
  <2> SUFFICES ASSUME Inv, Once, Engagements, [Next]_vars PROVE Engagements'
    OBVIOUS
  <2>1. CASE \E s \in Slots : ReadyRead(s) \/ CheckRoom(s) \/ CreateRoom(s) \/ TakeSeat(s)
                              \/ CreateMatch(s)
    BY <2>1, ReadyReadKeeps, CheckRoomKeeps, SeatKeeps, CreateMatchKeeps
  <2>2. CASE ~\E s \in Slots : ReadyRead(s) \/ CheckRoom(s) \/ CreateRoom(s) \/ TakeSeat(s)
                               \/ CreateMatch(s)
    BY <2>2, OthersKeep DEF Next, Serve
  <2> QED
    BY <2>1, <2>2
<1> QED
  BY <1>1, <1>2, Invariance, OnceInvariance, PTL DEF Spec

\* A client with one call in flight never sits in two rooms, nor in both seats of one,
\* although findMatch looks and then writes.
THEOREM SeatedOnce ==
  ASSUME Serial
  PROVE  Spec => []OneSeat
<1>1. Engagements => OneSeat
  <2> SUFFICES ASSUME Engagements, NEW u \in Users
               PROVE  /\ Cardinality(JoinedRooms(u)) <= 1
                      /\ \A r \in DOMAIN rooms : ~(rooms[r].player1 = u /\ rooms[r].player2 = u)
    BY DEF OneSeat
  <2>1. Seats(u)
    BY DEF Engagements, SeatsOf
  <2>2. Cardinality(JoinedRooms(u)) \in 0..1
    BY <2>1, AtMostOne DEF Seats
  <2> QED
    BY <2>1, <2>2 DEF Seats
<1> QED
  BY <1>1, EngagementsInvariant, PTL

\* Nor is he in two matches, or in a room and a match, unless he searched while ready
\* was making his match, or the match is an exception of OneMatchPerRoom.
THEOREM EngagedOnce ==
  ASSUME Serial
  PROVE  Spec => []OneEngagement
<1>1. Engagements => OneEngagement
  <2> SUFFICES ASSUME Engagements, NEW u \in Users \ slipped
               PROVE  Cardinality(JoinedRooms(u)) + Cardinality(Owed(u)) <= 1
    BY DEF OneEngagement, Owed
  <2>1. Seats(u) /\ Engaged(u)
    BY DEF Engagements, SeatsOf
  <2>2. /\ Cardinality(JoinedRooms(u)) \in 0..1
        /\ JoinedRooms(u) = {} => Cardinality(JoinedRooms(u)) = 0
    BY <2>1, AtMostOne DEF Seats
  <2>3. /\ Cardinality(Owed(u)) \in 0..1
        /\ Owed(u) = {} => Cardinality(Owed(u)) = 0
    BY <2>1, AtMostOne DEF Engaged
  <2> QED
    BY <2>1, <2>2, <2>3 DEF Engaged
<1> QED
  BY <1>1, EngagementsInvariant, PTL
=============================================================================
