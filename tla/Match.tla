------------------------------- MODULE Match -------------------------------
(***************************************************************************)
(* One match: MatchService.createMatch, putToBoard, denyCard, confirmTurn, *)
(* endTurn, surrender and endMatch, the MATCH_TIMEOUT job and its consumer.*)
(*                                                                         *)
(* Every mutation reads the match document, computes new playerStatuses    *)
(* from what it read, and writes them whole, without a condition.  A call  *)
(* is a frame whose pc names the await it is about to perform, and whose   *)
(* `next` is what it computed from the document it read.  Events are       *)
(* published from the same values and change no state; they are left out.  *)
(***************************************************************************)
EXTENDS Turn, Maps

CONSTANTS Tabs,       \* tabs of a client
          Slots,      \* <<player, tab>>: the calls that can be in flight at once
          MaxJobs,    \* bound: MATCH_TIMEOUT jobs ever queued
          MaxCrystal, \* bound: crystals that denyCard is let to gather
          MaxQuits,   \* bound: calls of surrender
          MaxFaults   \* bound: failures of external operations, and restarts

ASSUME SlotAssumption == Slots \subseteq Players \X Tabs /\ IsFiniteSet(Slots)
ASSUME MatchBoundAssumption == /\ MaxJobs \in Nat \ {0}
                               /\ MaxCrystal \in Nat
                               /\ MaxQuits \in Nat
                               /\ MaxFaults \in Nat

VARIABLES
  order,        \* the order of playerStatuses, <<>>: no document
  statuses,     \* player -> his entry of playerStatuses
  timeoutJobId, \* of the document
  winnerId,     \* of the document
  jobs,         \* the MATCH_TIMEOUT jobs that are not finished: job id -> job
  creator,      \* the frame of createMatch
  calls,        \* the frames of the players' calls
  rewards,      \* player -> cards minted to him by award
  issued,       \* job ids given out, surrenders, failures and restarts so far
  raced,        \* history: endTurn met a timeout that no longer waited
  stranded      \* history: a failure or a restart took the last timeout away

document == <<order, statuses, timeoutJobId, winnerId>>
history == <<raced, stranded>>
vars == <<order, statuses, timeoutJobId, winnerId, jobs, creator, calls,
          rewards, issued, raced, stranded>>

JobIds == 1..MaxJobs
NoId == 0
CallPC == {"idle", "write", "removeJob", "addJob", "writeTurn", "setWinner", "award"}
IdleFrame == [pc |-> "idle", next |-> NoStatuses, job |-> NoId, winner |-> Nobody]
IdleCreator == [pc |-> "idle", job |-> NoId]

TypeOK ==
  /\ order = <<>> \/ \E p \in Players : order = <<p, Opponent(p)>>
  /\ statuses \in [Players -> Status]
  /\ timeoutJobId \in JobIds \cup {NoId}
  /\ winnerId \in Players \cup {Nobody}
  /\ DOMAIN jobs \subseteq JobIds
  /\ \A j \in DOMAIN jobs :
       jobs[j] \in [state: {"delayed", "active", "setWinner", "award", "publish",
                            "failed"},
                    winner: Players \cup {Nobody}]
  /\ creator \in [pc: {"idle", "save", "addJob", "setJob"}, job: JobIds \cup {NoId}]
  /\ calls \in [Slots -> [pc: CallPC, next: [Players -> Status],
                          job: JobIds \cup {NoId}, winner: Players \cup {Nobody}]]
  /\ rewards \in [Players -> Nat]
  /\ issued \in [job: 0..MaxJobs, quit: 0..MaxQuits, fault: 0..MaxFaults]
  /\ raced \in BOOLEAN
  /\ stranded \in BOOLEAN

Init ==
  /\ order = <<>>
  /\ statuses = NoStatuses
  /\ timeoutJobId = NoId
  /\ winnerId = Nobody
  /\ jobs = <<>>
  /\ creator = [pc |-> "save", job |-> NoId]
  /\ calls = [s \in Slots |-> IdleFrame]
  /\ rewards = [p \in Players |-> 0]
  /\ issued = [job |-> 0, quit |-> 0, fault |-> 0]
  /\ raced = FALSE
  /\ stranded = FALSE

-----------------------------------------------------------------------------
(* Steps shared by the handlers.                                           *)

Goto(s, next) == calls' = [calls EXCEPT ![s].pc = next]
Return(s) == calls' = [calls EXCEPT ![s] = IdleFrame]

Fault == issued.fault < MaxFaults /\ issued' = [issued EXCEPT !.fault = @ + 1]

\* A failure where the match has no timeout, or the timeout itself fails.
FaultInTheGap == Fault /\ stranded' = TRUE

\* matchQueue.add(MATCH_TIMEOUT, ..., { delay: 70 seconds }).
QueueTimeout ==
  /\ issued' = [issued EXCEPT !.job = @ + 1]
  /\ jobs' = With(jobs, issued'.job, [state |-> "delayed", winner |-> Nobody])

Waiting(j) == j \in DOMAIN jobs /\ jobs[j].state = "delayed"
Locked(j) == j \in DOMAIN jobs /\ jobs[j].state \notin {"delayed", "failed"}

\* The bound on jobs is kept where a handler that is going to queue one starts.
Queueing == {s \in Slots : calls[s].pc \in {"removeJob", "addJob"}}
MayQueue == issued.job + Cardinality(Queueing)
              + (IF creator.pc \in {"save", "addJob"} THEN 1 ELSE 0) < MaxJobs

\* A mutation of Playing: the winner is not looked at.
PlayingAnyway == order # <<>>

\* getPlayingMatch: the document is there and has no winner.
Playing == order # <<>> /\ winnerId = Nobody

\* A call of the player in slot s has read the document and computed `next`.
Computed(s, next) ==
  calls' = [calls EXCEPT ![s] = [IdleFrame EXCEPT !.pc = "write", !.next = next]]

-----------------------------------------------------------------------------
(* createMatch, called by the ready handler of a room                      *)

SaveMatch ==
  /\ creator.pc = "save"
  /\ \E first \in Players : /\ order' = <<first, Opponent(first)>>
                            /\ statuses' = NewStatuses(first)
  /\ creator' = [creator EXCEPT !.pc = "addJob"]
  /\ UNCHANGED <<timeoutJobId, winnerId, jobs, calls, rewards, issued, history>>

\* A mutation of CreatorAddJob: the match starts without a timeout.
CreatorNoJob ==
  /\ creator.pc = "addJob"
  /\ creator' = IdleCreator
  /\ UNCHANGED <<document, jobs, calls, rewards, issued, history>>

\* addTimoutJobToMatch queues the job, then records it.
CreatorAddJob ==
  /\ creator.pc = "addJob"
  /\ \/ /\ QueueTimeout
        /\ creator' = [pc |-> "setJob", job |-> issued'.job]
        /\ UNCHANGED stranded
     \/ FaultInTheGap /\ creator' = IdleCreator /\ UNCHANGED jobs
  /\ UNCHANGED <<document, calls, rewards, raced>>

CreatorSetJob ==
  /\ creator.pc = "setJob"
  /\ \/ timeoutJobId' = creator.job /\ UNCHANGED issued
     \/ Fault /\ UNCHANGED timeoutJobId
  /\ creator' = IdleCreator
  /\ UNCHANGED <<order, statuses, winnerId, jobs, calls, rewards, history>>

-----------------------------------------------------------------------------
(* putToBoard, denyCard, confirmTurn: a read and a write                   *)

PutToBoard(s) ==
  LET me == statuses[s[1]] IN
  /\ calls[s].pc = "idle" /\ Playing /\ MayAct(me)
  /\ \E card \in me.onHand, position \in Positions :
       /\ CanPut(me.crystal, card, me.onBoard, position)
       /\ Computed(s, [statuses EXCEPT ![s[1]] = Put(me, card, position)])
  /\ UNCHANGED <<document, jobs, creator, rewards, issued, history>>

DenyCard(s) ==
  LET me == statuses[s[1]] IN
  /\ calls[s].pc = "idle" /\ Playing /\ MayAct(me)
  /\ \E card \in me.onHand :
       /\ Deny(me, card).crystal <= MaxCrystal
       /\ Computed(s, [statuses EXCEPT ![s[1]] = Deny(me, card)])
  /\ UNCHANGED <<document, jobs, creator, rewards, issued, history>>

\* The caller's board attacks the other one.
ConfirmTurn(s) ==
  LET me == statuses[s[1]]
      target == Opponent(s[1])
  IN /\ calls[s].pc = "idle" /\ Playing /\ MayAct(me)
     /\ \E board \in Attack(me.onBoard, statuses[target].onBoard) :
          Computed(s, [statuses EXCEPT ![target].onBoard = board,
                                       ![s[1]].confirmTurn = TRUE])
     /\ UNCHANGED <<document, jobs, creator, rewards, issued, history>>

\* findByIdAndUpdate({$set: {playerStatuses}}): whatever is there by now.
WriteStatuses(s) ==
  /\ calls[s].pc = "write"
  /\ \/ statuses' = calls[s].next /\ UNCHANGED issued
     \/ Fault /\ UNCHANGED statuses
  /\ Return(s)
  /\ UNCHANGED <<order, timeoutJobId, winnerId, jobs, creator, rewards, history>>

-----------------------------------------------------------------------------
(* endTurn                                                                 *)

\* 'Not your turn' unless in turn and confirmed.
EndTurn(s) ==
  LET me == statuses[s[1]] IN
  /\ calls[s].pc = "idle" /\ Playing
  /\ me.inTurn /\ me.confirmTurn
  /\ Winner(order, statuses) # Nobody \/ MayQueue
  /\ calls' = [calls EXCEPT ![s] =
                 [pc |-> "removeJob", next |-> PassTurn(statuses, s[1]),
                  job |-> timeoutJobId, winner |-> Winner(order, statuses)]]
  /\ UNCHANGED <<document, jobs, creator, rewards, issued, history>>

\* A mutation of RemoveJob: the old timeout stays.
RemoveNoJob(s) ==
  /\ calls[s].pc = "removeJob"
  /\ Goto(s, IF calls[s].winner # Nobody THEN "setWinner" ELSE "addJob")
  /\ UNCHANGED <<document, jobs, creator, rewards, issued, history>>

\* getJob and remove: Bull refuses to remove a job that a worker has locked.  A
\* job that is gone was not recorded yet, or has run since the read.
RemoveJob(s) ==
  LET j == calls[s].job IN
  /\ calls[s].pc = "removeJob"
  /\ \/ Locked(j) /\ Return(s) /\ UNCHANGED <<jobs, issued>>
     \/ Fault /\ Return(s) /\ UNCHANGED jobs
     \/ /\ ~Locked(j)
        /\ jobs' = Without(jobs, j)
        /\ Goto(s, IF calls[s].winner # Nobody THEN "setWinner" ELSE "addJob")
        /\ UNCHANGED issued
  /\ raced' = (raced \/ j \notin DOMAIN jobs)
  /\ UNCHANGED <<document, creator, rewards, stranded>>

\* A mutation of AddJob: no new timeout.
AddNoJob(s) ==
  /\ calls[s].pc = "addJob"
  /\ calls' = [calls EXCEPT ![s].pc = "writeTurn", ![s].job = NoId]
  /\ UNCHANGED <<document, jobs, creator, rewards, issued, history>>

\* createMatchTimoutJob.
AddJob(s) ==
  /\ calls[s].pc = "addJob"
  /\ \/ /\ QueueTimeout
        /\ calls' = [calls EXCEPT ![s].pc = "writeTurn", ![s].job = issued'.job]
        /\ UNCHANGED stranded
     \/ FaultInTheGap /\ Return(s) /\ UNCHANGED jobs
  /\ UNCHANGED <<document, creator, rewards, raced>>

\* The other player is in turn, with 3 more crystals.
WriteTurn(s) ==
  /\ calls[s].pc = "writeTurn"
  /\ \/ /\ statuses' = calls[s].next
        /\ timeoutJobId' = calls[s].job
        /\ UNCHANGED issued
     \/ Fault /\ UNCHANGED <<statuses, timeoutJobId>>
  /\ Return(s)
  /\ raced' = (raced \/ ~Waiting(calls[s].job))
  /\ UNCHANGED <<order, winnerId, jobs, creator, rewards, stranded>>

-----------------------------------------------------------------------------
(* surrender, and endMatch                                                 *)

Surrender(s) ==
  /\ calls[s].pc = "idle" /\ Playing /\ issued.quit < MaxQuits
  /\ calls' = [calls EXCEPT ![s] = [IdleFrame EXCEPT !.pc = "setWinner",
                                                     !.winner = Opponent(s[1])]]
  /\ issued' = [issued EXCEPT !.quit = @ + 1]
  /\ UNCHANGED <<document, jobs, creator, rewards, history>>

\* endMatch sets winnerId, whoever it names by now.
SetWinner(s) ==
  /\ calls[s].pc = "setWinner"
  /\ \/ /\ winnerId' = calls[s].winner
        /\ Goto(s, "award")
        /\ UNCHANGED <<issued, stranded>>
     \/ FaultInTheGap /\ Return(s) /\ UNCHANGED winnerId
  /\ UNCHANGED <<order, statuses, timeoutJobId, jobs, creator, rewards, raced>>

\* cardService.award mints a card to the winner.
Award(s) ==
  /\ calls[s].pc = "award"
  /\ \/ rewards' = [rewards EXCEPT ![calls[s].winner] = @ + 1] /\ UNCHANGED issued
     \/ Fault /\ UNCHANGED rewards
  /\ Return(s)
  /\ UNCHANGED <<document, jobs, creator, history>>

-----------------------------------------------------------------------------
(* The MATCH_TIMEOUT job                                                   *)

\* A worker locks the due job.
StartTimeout(j) ==
  /\ Waiting(j)
  /\ jobs' = [jobs EXCEPT ![j].state = "active"]
  /\ UNCHANGED <<document, creator, calls, rewards, issued, history>>

\* A mutation of Idler: the player in turn wins.
IdlerWins == IF statuses[order[1]].inTurn THEN order[1] ELSE order[2]

\* playerStatuses.find((s) => !s.inTurn): who wins a match that timed out.
Idler == IF ~statuses[order[1]].inTurn THEN order[1] ELSE order[2]

\* findByIdOrFail; winnerId is not looked at.
TimeoutRead(j) ==
  /\ j \in DOMAIN jobs /\ jobs[j].state = "active"
  /\ jobs' = [jobs EXCEPT ![j] = [state |-> "setWinner", winner |-> Idler]]
  /\ UNCHANGED <<document, creator, calls, rewards, issued, history>>

TimeoutSetWinner(j) ==
  /\ j \in DOMAIN jobs /\ jobs[j].state = "setWinner"
  /\ \/ /\ winnerId' = jobs[j].winner
        /\ jobs' = [jobs EXCEPT ![j].state = "award"]
        /\ UNCHANGED <<issued, stranded>>
     \/ /\ FaultInTheGap
        /\ jobs' = [jobs EXCEPT ![j].state = "failed"]
        /\ UNCHANGED winnerId
  /\ UNCHANGED <<order, statuses, timeoutJobId, creator, calls, rewards, raced>>

TimeoutAward(j) ==
  /\ j \in DOMAIN jobs /\ jobs[j].state = "award"
  /\ \/ /\ rewards' = [rewards EXCEPT ![jobs[j].winner] = @ + 1]
        /\ jobs' = [jobs EXCEPT ![j].state = "publish"]
        /\ UNCHANGED issued
     \/ /\ Fault
        /\ jobs' = [jobs EXCEPT ![j].state = "failed"]
        /\ UNCHANGED rewards
  /\ UNCHANGED <<document, creator, calls, history>>

\* The event is out, and the job completed.
TimeoutPublish(j) ==
  /\ j \in DOMAIN jobs /\ jobs[j].state = "publish"
  /\ \/ jobs' = Without(jobs, j) /\ UNCHANGED issued
     \/ Fault /\ jobs' = [jobs EXCEPT ![j].state = "failed"]
  /\ UNCHANGED <<document, creator, calls, rewards, history>>

\* The retry button of the Bull dashboard.
RetryTimeout(j) ==
  /\ j \in DOMAIN jobs /\ jobs[j].state = "failed"
  /\ jobs' = [jobs EXCEPT ![j] = [state |-> "delayed", winner |-> Nobody]]
  /\ UNCHANGED <<document, creator, calls, rewards, issued, history>>

\* The process restarts; Bull runs the jobs that were active again.
Crash ==
  /\ Fault
  /\ creator' = IdleCreator
  /\ calls' = [s \in Slots |-> IdleFrame]
  /\ jobs' = [j \in DOMAIN jobs |->
               IF jobs[j].state = "failed" THEN jobs[j]
               ELSE [state |-> "delayed", winner |-> Nobody]]
  /\ stranded' = (stranded \/ creator.pc = "addJob"
                  \/ \E s \in Slots : calls[s].pc \in {"addJob", "setWinner"})
  /\ UNCHANGED <<document, rewards, raced>>

-----------------------------------------------------------------------------
Create == SaveMatch \/ CreatorAddJob \/ CreatorSetJob

Act(s) == PutToBoard(s) \/ DenyCard(s) \/ ConfirmTurn(s) \/ EndTurn(s) \/ Surrender(s)

Serve(s) ==
  \/ WriteStatuses(s) \/ RemoveJob(s) \/ AddJob(s) \/ WriteTurn(s)
  \/ SetWinner(s) \/ Award(s)

Timeout(j) ==
  StartTimeout(j) \/ TimeoutRead(j) \/ TimeoutSetWinner(j) \/ TimeoutAward(j)
  \/ TimeoutPublish(j)

Next ==
  \/ Create
  \/ \E s \in Slots : Act(s) \/ Serve(s)
  \/ \E j \in JobIds : Timeout(j) \/ RetryTimeout(j)
  \/ Crash

Spec == Init /\ [][Next]_vars

\* Awaits settle and Bull runs the jobs that are due; players owe nothing.
FairSpec ==
  /\ Spec /\ WF_vars(Create)
  /\ \A s \in Slots : WF_vars(Serve(s))
  /\ \A j \in JobIds : WF_vars(Timeout(j))

-----------------------------------------------------------------------------
(* Properties                                                              *)

Clean == issued.fault = 0

\* Exactly one player is in turn, and only he can be confirmed, whatever stale
\* snapshot a handler writes back.
OneInTurn ==
  order # <<>> =>
    /\ \E p \in Players : statuses[p].inTurn /\ ~statuses[Opponent(p)].inTurn
    /\ \A p \in Players : statuses[p].confirmTurn => statuses[p].inTurn

EquipmentOf(board) == {board[i].equipment : i \in 1..Len(board)} \ {NoCard}
TokensOf(board) == {board[i].token : i \in 1..Len(board)}

\* A card is in one place: what is on a player's board, alone or as equipment,
\* is not in his hand any more, and all of it is from his own deck.
CardsConserved ==
  \A p \in Players :
    LET laid == TokensOf(statuses[p].onBoard) \cup EquipmentOf(statuses[p].onBoard)
    IN /\ laid \cap statuses[p].onHand = {}
       /\ laid \cup statuses[p].onHand \subseteq Deck[p]

\* Everything that stands on a board is alive.
BoardAlive ==
  \A p \in Players : \A i \in 1..Len(statuses[p].onBoard) : HP(statuses[p].onBoard[i]) > 0

\* A match that goes on has a timeout: the one in the document, or one that a
\* handler is about to queue, or a handler is about to end it.  The exception is
\* a failure or a restart in that gap, which strands the match.
TimerArmed ==
  Playing /\ ~stranded =>
    \/ \E j \in DOMAIN jobs : jobs[j].state # "failed"
    \/ creator.pc = "addJob"
    \/ \E s \in Slots : calls[s].pc \in {"addJob", "setWinner"}

\* Unless somebody surrenders, or endTurn meets a timeout that has already run,
\* the decision of a match is final, although the timeout never looks whether the
\* match has ended.
WinnerStays ==
  [][Clean /\ issued.quit = 0 /\ ~raced /\ winnerId' # winnerId =>
       winnerId = Nobody]_vars

\* The timeout of such a match lets the right player win: between its read and
\* its write the turn does not pass, since endTurn cannot remove a locked job.
TimeoutHitsIdler ==
  Clean /\ issued.quit = 0 /\ ~raced =>
    \A j \in DOMAIN jobs :
      jobs[j].state = "setWinner" => ~statuses[jobs[j].winner].inTurn

\* A surrendered match keeps its timeout, which rewards its winner again, and so
\* do the jobs that run again after a failure or a restart; yet every card beyond
\* the first one has such a cause, unless endTurn met a timeout that had run.
RewardsBounded ==
  ~raced => SumFunction(rewards) <= 1 + issued.quit + issued.fault * issued.job

\* A match ends, even when its players fall silent and operations fail: turns
\* are bounded here, and the timeout of the last one ends it, unless it was
\* stranded.
MatchDecided == order # <<>> ~> winnerId # Nobody \/ stranded

\* Two entries of a board are at one position only when one card was put there
\* and equipped: they share the token, the later one carries the equipment, and
\* no piece of equipment is on the board twice.
TwinsAreEquipped ==
  \A p \in Players :
    LET board == statuses[p].onBoard IN
    \A j \in 1..Len(board) : \A i \in 1..(j - 1) :
      /\ board[i].position = board[j].position <=> board[i].token = board[j].token
      /\ board[i].token = board[j].token => board[j].equipment # NoCard
      /\ board[i].equipment = board[j].equipment => board[j].equipment = NoCard

\* With one call per player in flight, reads and writes that are awaits apart
\* amount to the atomic moves of Game, in spite of failures, restarts and
\* timeouts: no move undoes another, and a decided match stays decided.
Abstract ==
  INSTANCE Game WITH
    begun <- {s[1] : s \in {c \in Slots : calls[c].pc \in
                              {"write", "removeJob", "addJob", "writeTurn"}}},
    over <- winnerId # Nobody
PlaysAtomically == Abstract!Spec
=============================================================================
