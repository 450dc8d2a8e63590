------------------------------- MODULE Rooms -------------------------------
(***************************************************************************)
(* Matchmaking: RoomService.joinOrCreateRoom, stopFindMatch and ready, the *)
(* WAIT_TIMEOUT job with its consumer, and the clean-up of the rooms of a  *)
(* player whose `online` subscription is cancelled.                        *)
(*                                                                         *)
(* A client may have one call in flight per tab.  A call is a frame whose  *)
(* pc names the await it is about to perform; `seen` is the room document  *)
(* it has read and goes on using.  One action is one await.                *)
(***************************************************************************)
EXTENDS Naturals, FiniteSets, Functions, Maps

CONSTANTS Users,      \* players
          Nobody,     \* an absent player
          Tabs,       \* calls that one player can have in flight
          DeckOwners, \* players that own a deck
          MaxRooms,   \* bound: rooms ever created
          MaxJobs,    \* bound: WAIT_TIMEOUT jobs ever queued
          MaxMatches, \* bound: matches ever created
          MaxFaults   \* bound: operations that fail, and restarts of the process

ASSUME UserAssumption == Nobody \notin Users /\ DeckOwners \subseteq Users
ASSUME RoomBoundAssumption == /\ MaxRooms \in Nat
                              /\ MaxJobs \in Nat
                              /\ MaxMatches \in Nat
                              /\ MaxFaults \in Nat

VARIABLES
  rooms,     \* the rooms collection: room id -> document
  jobs,      \* the jobs in Redis that are not finished: job id -> job
  matches,   \* the matches without a winner: match id -> its players and room
  calls,     \* the frames of the calls in flight
  issued,    \* ids given out, and failures and restarts, so far
  answered,  \* history: <<user, room>> when that user's ready was written
  repeated,  \* history: rooms with a second ready of one player
  contended, \* history: rooms whose second seat was taken twice
  stranded,  \* history: rooms left behind when their timeout had gone or failed
  slipped    \* history: players who searched while a match of theirs was made

vars == <<rooms, jobs, matches, calls, issued, answered, repeated, contended,
          stranded, slipped>>
history == <<answered, repeated, contended, stranded, slipped>>

RoomIds == 1..MaxRooms
JobIds == 1..MaxJobs
MatchIds == 1..MaxMatches
NoId == 0

Room == [player1: Users, player2: Users \cup {Nobody},
         player1Ready: BOOLEAN, player2Ready: BOOLEAN,
         timeoutJobId: JobIds \cup {NoId}]
Slots == Users \X Tabs

\* A mutation of NewRoom: nobody is seated.
NewRoomEmpty(u) == [player1 |-> Nobody, player2 |-> Nobody, player1Ready |-> FALSE,
                    player2Ready |-> FALSE, timeoutJobId |-> NoId]

NewRoom(u) == [player1 |-> u, player2 |-> Nobody, player1Ready |-> FALSE,
               player2Ready |-> FALSE, timeoutJobId |-> NoId]

JobState == {"delayed", "active", "failed"}
CallPC == {"idle", "checkRoom", "checkWaiting", "createRoom", "addJob",
           "takeSeat", "stop", "writeReady", "removeJob", "removeRoom",
           "createMatch"}
NoRoom == [player1 |-> Nobody, player2 |-> Nobody, player1Ready |-> FALSE,
           player2Ready |-> FALSE, timeoutJobId |-> NoId]
IdleFrame == [pc |-> "idle", room |-> NoId, seen |-> NoRoom, job |-> NoId]

TypeOK ==
  /\ DOMAIN rooms \subseteq RoomIds /\ \A r \in DOMAIN rooms : rooms[r] \in Room
  /\ DOMAIN jobs \subseteq JobIds
  /\ \A j \in DOMAIN jobs : jobs[j] \in [room: RoomIds, state: JobState]
  /\ DOMAIN matches \subseteq MatchIds
  /\ \A m \in DOMAIN matches : matches[m] \in [room: RoomIds, players: SUBSET Users]
  /\ calls \in [Slots -> [pc: CallPC, room: RoomIds \cup {NoId},
                          seen: Room \cup {NoRoom}, job: JobIds \cup {NoId}]]
  /\ issued \in [room: 0..MaxRooms, job: 0..MaxJobs, match: 0..MaxMatches,
                 fault: 0..MaxFaults]
  /\ answered \subseteq Users \X RoomIds
  /\ repeated \subseteq RoomIds
  /\ contended \subseteq RoomIds
  /\ stranded \subseteq RoomIds
  /\ slipped \subseteq Users

Init ==
  /\ rooms = <<>>
  /\ jobs = <<>>
  /\ matches = <<>>
  /\ calls = [s \in Slots |-> IdleFrame]
  /\ issued = [room |-> 0, job |-> 0, match |-> 0, fault |-> 0]
  /\ answered = {}
  /\ repeated = {}
  /\ contended = {}
  /\ stranded = {}
  /\ slipped = {}

-----------------------------------------------------------------------------
Goto(s, next) == calls' = [calls EXCEPT ![s].pc = next]
Return(s) == calls' = [calls EXCEPT ![s] = IdleFrame]

Fault == issued.fault < MaxFaults /\ issued' = [issued EXCEPT !.fault = @ + 1]

SeatedIn(u, r) == u \in {rooms[r].player1, rooms[r].player2}

\* getJoinedRoom: some room with the user in either seat.
JoinedRooms(u) == {r \in DOMAIN rooms : SeatedIn(u, r)}

\* getWaitingRoom: some room with no second player.
WaitingRooms == {r \in DOMAIN rooms : rooms[r].player2 = Nobody}

\* getPlayingMatch: some match of the user without a winner.
PlayingMatches(u) == {m \in DOMAIN matches : u \in matches[m].players}

-----------------------------------------------------------------------------
(* findMatch: joinOrCreateRoom                                             *)

\* A bound: no more searches are started than ids of rooms and jobs are left.
MayFind ==
  LET searching == {s \in Slots : calls[s].pc \in {"checkRoom", "checkWaiting", "createRoom", "addJob"}}
  IN issued.room + issued.job + Cardinality(searching) < MaxRooms + MaxJobs

\* 'You are in a match' otherwise.
FindMatch(s) ==
  /\ calls[s].pc = "idle"
  /\ PlayingMatches(s[1]) = {}
  /\ MayFind
  /\ Goto(s, "checkRoom")
  /\ UNCHANGED <<rooms, jobs, matches, issued, history>>

\* A mutation of CheckRoom: only rooms the player created count.
CheckRoomOwn(s) ==
  /\ calls[s].pc = "checkRoom"
  /\ IF \A r \in DOMAIN rooms : rooms[r].player1 # s[1]
     THEN Goto(s, "checkWaiting") ELSE Return(s)
  /\ UNCHANGED <<rooms, jobs, matches, issued, history>>

\* The calls of ready that have read a room of the player.
ReadyFor(u) ==
  {s \in Slots : /\ calls[s].pc \in {"writeReady", "removeJob", "removeRoom", "createMatch"}
                 /\ u \in {calls[s].seen.player1, calls[s].seen.player2}}

\* 'You have joined a room' otherwise.  The match was looked for one await ago.
CheckRoom(s) ==
  LET u == s[1] IN
  /\ calls[s].pc = "checkRoom"
  /\ IF JoinedRooms(u) = {}
     THEN /\ Goto(s, "checkWaiting")
          /\ slipped' = IF PlayingMatches(u) = {} /\ ReadyFor(u) = {} THEN slipped
                        ELSE slipped \cup {u}
     ELSE Return(s) /\ UNCHANGED slipped
  /\ UNCHANGED <<rooms, jobs, matches, issued, answered, repeated, contended, stranded>>

\* findOne in no particular order.
CheckWaiting(s) ==
  /\ calls[s].pc = "checkWaiting"
  /\ \/ WaitingRooms = {} /\ Goto(s, "createRoom")
     \/ \E r \in WaitingRooms :
          calls' = [calls EXCEPT ![s].pc = "addJob", ![s].room = r]
  /\ UNCHANGED <<rooms, jobs, matches, issued, history>>

CreateRoom(s) ==
  /\ calls[s].pc = "createRoom" /\ issued.room < MaxRooms
  /\ issued' = [issued EXCEPT !.room = @ + 1]
  /\ rooms' = With(rooms, issued'.room, NewRoom(s[1]))
  /\ Return(s)
  /\ UNCHANGED <<jobs, matches, history>>

\* A mutation of AddJob: no timeout is armed.
AddNoJob(s) ==
  /\ calls[s].pc = "addJob"
  /\ Goto(s, "takeSeat")
  /\ UNCHANGED <<rooms, jobs, matches, issued, history>>

\* joinRoom arms the timeout before the seat is taken.
AddJob(s) ==
  /\ calls[s].pc = "addJob" /\ issued.job < MaxJobs
  /\ issued' = [issued EXCEPT !.job = @ + 1]
  /\ jobs' = With(jobs, issued'.job, [room |-> calls[s].room, state |-> "delayed"])
  /\ calls' = [calls EXCEPT ![s].pc = "takeSeat", ![s].job = issued'.job]
  /\ UNCHANGED <<rooms, matches, history>>

\* updateOne({_id}, {player2, timeoutJobId}): whoever sits there now, and
\* nothing when the room is gone.
TakeSeat(s) ==
  LET r == calls[s].room IN
  /\ calls[s].pc = "takeSeat"
  /\ IF r \in DOMAIN rooms
     THEN /\ rooms' = [rooms EXCEPT ![r].player2 = s[1],
                                    ![r].timeoutJobId = calls[s].job]
          /\ contended' = IF rooms[r].player2 = Nobody THEN contended
                          ELSE contended \cup {r}
     ELSE UNCHANGED <<rooms, contended>>
  /\ Return(s)
  /\ UNCHANGED <<jobs, matches, issued, answered, repeated, stranded, slipped>>

-----------------------------------------------------------------------------
(* stopFindMatch                                                           *)

\* Only a room that waits for its second player is to be removed.
StopFindMatch(s) ==
  /\ calls[s].pc = "idle"
  /\ \E r \in JoinedRooms(s[1]) \cap WaitingRooms :
       calls' = [calls EXCEPT ![s].pc = "stop", ![s].room = r]
  /\ UNCHANGED <<rooms, jobs, matches, issued, history>>

\* removeRoom by id, whoever has joined since.
StopRemove(s) ==
  /\ calls[s].pc = "stop"
  /\ rooms' = Without(rooms, calls[s].room)
  /\ Return(s)
  /\ UNCHANGED <<jobs, matches, issued, history>>

-----------------------------------------------------------------------------
(* ready                                                                   *)

ReadyRead(s) ==
  /\ calls[s].pc = "idle"
  /\ \E r \in JoinedRooms(s[1]) :
       calls' = [calls EXCEPT ![s].pc = "writeReady", ![s].room = r,
                              ![s].seen = rooms[r]]
  /\ UNCHANGED <<rooms, jobs, matches, issued, history>>

\* A mutation of ReadyFlags: every caller counts as player1 too.
ReadyFlagsLoose(u, seen) ==
  [player1 |-> TRUE, player2 |-> u = seen.player2 \/ seen.player2Ready]

\* updateParams: the caller's own flag, and the other one as it was read.
ReadyFlags(u, seen) ==
  [player1 |-> u = seen.player1 \/ seen.player1Ready,
   player2 |-> u = seen.player2 \/ seen.player2Ready]

\* updateOne sets both flags, whatever they are by now.
WriteReady(s) ==
  LET f == calls[s]
      flags == ReadyFlags(s[1], f.seen)
      both == flags.player1 /\ flags.player2
  IN /\ f.pc = "writeReady"
     /\ rooms' = IF f.room \notin DOMAIN rooms THEN rooms
                 ELSE [rooms EXCEPT ![f.room].player1Ready = flags.player1,
                                    ![f.room].player2Ready = flags.player2]
     /\ IF both THEN Goto(s, "removeJob") ELSE Return(s)
     /\ answered' = answered \cup {<<s[1], f.room>>}
     /\ repeated' = IF <<s[1], f.room>> \in answered THEN repeated \cup {f.room}
                    ELSE repeated
     /\ UNCHANGED <<jobs, matches, issued, contended, stranded, slipped>>

\* getJob and remove.  A job that is gone is no obstacle; Bull refuses to
\* remove one that a worker has locked, and the call rejects.
RemoveJob(s) ==
  LET j == calls[s].seen.timeoutJobId IN
  /\ calls[s].pc = "removeJob"
  /\ IF j \in DOMAIN jobs /\ jobs[j].state = "active"
     THEN Return(s) /\ UNCHANGED jobs
     ELSE Goto(s, "removeRoom") /\ jobs' = Without(jobs, j)
  /\ UNCHANGED <<rooms, matches, issued, history>>

\* After ALL_READY is published.
RemoveRoom(s) ==
  /\ calls[s].pc = "removeRoom"
  /\ rooms' = Without(rooms, calls[s].room)
  /\ Goto(s, "createMatch")
  /\ UNCHANGED <<jobs, matches, issued, history>>

\* MatchService.createMatch with the players of the snapshot.  It rejects when
\* one of them owns no deck.
CreateMatch(s) ==
  LET f == calls[s]
      players == {f.seen.player1, f.seen.player2}
  IN /\ f.pc = "createMatch"
     /\ IF players \subseteq DeckOwners
        THEN /\ issued.match < MaxMatches
             /\ issued' = [issued EXCEPT !.match = @ + 1]
             /\ matches' = With(matches, issued'.match,
                                [room |-> f.room, players |-> players])
        ELSE UNCHANGED <<issued, matches>>
     /\ Return(s)
     /\ UNCHANGED <<rooms, jobs, history>>

-----------------------------------------------------------------------------
(* The WAIT_TIMEOUT job, the clean-up, the rest of the world               *)

\* A worker takes the due job, reads the room and publishes READY_TIMEOUT.
StartTimeout(j) ==
  /\ j \in DOMAIN jobs /\ jobs[j].state = "delayed"
  /\ jobs' = [jobs EXCEPT ![j].state = "active"]
  /\ UNCHANGED <<rooms, matches, calls, issued, history>>

\* It removes the room by id and the job completes.  A consumer that rejects
\* leaves a failed job: the queue was given no further attempts.
TimeoutRemove(j) ==
  /\ j \in DOMAIN jobs /\ jobs[j].state = "active"
  /\ \/ /\ rooms' = Without(rooms, jobs[j].room)
        /\ jobs' = Without(jobs, j)
        /\ UNCHANGED <<issued, stranded>>
     \/ /\ Fault
        /\ jobs' = [jobs EXCEPT ![j].state = "failed"]
        /\ stranded' = stranded \cup {jobs[j].room}
        /\ UNCHANGED rooms
  /\ UNCHANGED <<matches, calls, answered, repeated, contended, slipped>>

\* An administrator presses "retry" on a failed job of the Bull Board page.
RetryTimeout(j) ==
  /\ j \in DOMAIN jobs /\ jobs[j].state = "failed"
  /\ jobs' = [jobs EXCEPT ![j].state = "delayed"]
  /\ UNCHANGED <<rooms, matches, calls, issued, history>>

\* cleanCreatedRooms, when the player's `online` subscription is cancelled.
CleanCreatedRooms(u) ==
  /\ \E r \in DOMAIN rooms : rooms[r].player1 = u
  /\ rooms' = Restrict(rooms, {r \in DOMAIN rooms : rooms[r].player1 # u})
  /\ UNCHANGED <<jobs, matches, calls, issued, history>>

\* A match gets its winner.
MatchEnds(m) ==
  /\ m \in DOMAIN matches
  /\ matches' = Without(matches, m)
  /\ UNCHANGED <<rooms, jobs, calls, issued, history>>

\* The rooms whose timeout a call has removed and that it is about to remove.
LeftBehind(slots) == {calls[s].room : s \in {t \in slots : calls[t].pc = "removeRoom"}}

\* The await of a call rejects, and nothing in the handlers catches it.  (One
\* whose effect happened although it rejects is that step followed by this one.)
Reject(s) ==
  /\ calls[s].pc # "idle"
  /\ Fault
  /\ Return(s)
  /\ stranded' = stranded \cup LeftBehind({s})
  /\ UNCHANGED <<rooms, jobs, matches, answered, repeated, contended, slipped>>

\* The process restarts; Bull runs the jobs that were active again.
Crash ==
  /\ Fault
  /\ calls' = [s \in Slots |-> IdleFrame]
  /\ jobs' = [j \in DOMAIN jobs |->
               [jobs[j] EXCEPT !.state = IF @ = "active" THEN "delayed" ELSE @]]
  /\ stranded' = stranded \cup LeftBehind(Slots)
  /\ UNCHANGED <<rooms, matches, answered, repeated, contended, slipped>>

Serve(s) ==
  \/ CheckRoom(s) \/ CheckWaiting(s) \/ CreateRoom(s) \/ AddJob(s) \/ TakeSeat(s)
  \/ StopRemove(s)
  \/ WriteReady(s) \/ RemoveJob(s) \/ RemoveRoom(s) \/ CreateMatch(s)

Timeout(j) == StartTimeout(j) \/ TimeoutRemove(j)

Next ==
  \/ \E s \in Slots : \/ FindMatch(s) \/ StopFindMatch(s) \/ ReadyRead(s)
                      \/ Serve(s) \/ Reject(s)
  \/ \E j \in JobIds : Timeout(j) \/ RetryTimeout(j)
  \/ \E u \in Users : CleanCreatedRooms(u)
  \/ \E m \in MatchIds : MatchEnds(m)
  \/ Crash

Spec == Init /\ [][Next]_vars

\* Awaits settle and Bull runs the jobs that are due; players owe nothing.
FairSpec ==
  Spec /\ (\A s \in Slots : WF_vars(Serve(s))) /\ \A j \in JobIds : WF_vars(Timeout(j))

-----------------------------------------------------------------------------
(* Properties                                                              *)

\* A client with one call in flight never sits in two rooms, nor in both seats
\* of one, although findMatch looks and then writes.
OneSeat ==
  \A u \in Users :
    /\ Cardinality(JoinedRooms(u)) <= 1
    /\ \A r \in DOMAIN rooms : ~(rooms[r].player1 = u /\ rooms[r].player2 = u)

\* Nobody is put into a match without having answered ready in that very room,
\* unless two players took its second seat: the flag of the first one then
\* counts for the second.
ReadyConsent ==
  \A m \in DOMAIN matches :
    matches[m].room \notin contended =>
      \A u \in matches[m].players : <<u, matches[m].room>> \in answered

\* The calls that have seen both flags and go on to start a match.
Starting(r) == {s \in Slots : /\ calls[s].room = r
                              /\ calls[s].pc \in {"removeJob", "removeRoom", "createMatch"}}
MatchesOf(r) == {m \in DOMAIN matches : matches[m].room = r}

\* A room leads to at most one match, when no player answers twice and nobody
\* takes a taken seat: the two ready calls, each read then write, cannot both
\* see the other's flag.
OneMatchPerRoom ==
  \A r \in RoomIds \ (contended \cup repeated) :
    Cardinality(Starting(r)) + Cardinality(MatchesOf(r)) <= 1

\* A full room is never left to itself: its timeout is queued or running, or a
\* ready call is about to remove it.  The exception is a failure or a restart
\* that hits the removal of this room after its timeout has gone.
FullRoomGuarded ==
  \A r \in DOMAIN rooms \ stranded : rooms[r].player2 # Nobody =>
    \/ \E j \in DOMAIN jobs : jobs[j].room = r /\ jobs[j].state # "failed"
    \/ \E s \in Slots : calls[s].pc = "removeRoom" /\ calls[s].room = r

\* A full room does not stay: its players get a match or are let go, even when
\* the flag of one ready was lost, another operation failed or the process was
\* restarted at any other point.
FullRoomCleared ==
  \A r \in RoomIds :
    (r \in DOMAIN rooms /\ rooms[r].player2 # Nobody)
      ~> r \notin DOMAIN rooms \/ r \in stranded

\* 'You have joined a room' and 'You are in a match' is what findMatch answers to
\* a player who is: nobody is in two rooms, two matches, or a room and a match.
\* The exceptions are who searched while ready was making his match, or right
\* after (ready removes the room first, findMatch looks for the match first), and
\* the matches of OneMatchPerRoom's exceptions.
OneEngagement ==
  \A u \in Users \ slipped :
    LET owed == {m \in PlayingMatches(u) : matches[m].room \notin contended \cup repeated}
    IN Cardinality(JoinedRooms(u)) + Cardinality(owed) <= 1
=============================================================================
