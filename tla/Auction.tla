------------------------------ MODULE Auction ------------------------------
(***************************************************************************)
(* One card token on auction: AuctionService.startAuction, bid and         *)
(* endAuction, the END_AUCTION job of the Bull queue and its consumer.     *)
(*                                                                         *)
(* The service is asynchronous code over a document store, a job queue and *)
(* a chain, none of which it locks: a handler is a chain of awaits and any *)
(* other handler may run at each of them.  A call is a frame of `calls`    *)
(* whose pc names the await it is about to perform, and one action is one  *)
(* await with the code up to the next one.  The field `seen` of a frame is *)
(* the snapshot of the document that the handler took and goes on using.   *)
(*                                                                         *)
(* tokenId is unique in the collection, so a token has at most one auction *)
(* document in its life, and one token is all there is to model.  Gas is   *)
(* left out: `wallet` moves by the values of the transactions.             *)
(***************************************************************************)
EXTENDS Integers, Sequences, FiniteSets

CONSTANTS Users,      \* accounts that sell and bid
          Platform,   \* ownerWallet, the account that keeps tokens and bids
          Nobody,     \* an absent user
          Calls,      \* GraphQL calls that can be in flight at once
          Bids,       \* amounts that users offer
          StartBid,   \* the seller's startBid
          Funds,      \* what each account holds at first
          MaxFaults,  \* bound: external operations that fail
          MaxCrashes, \* bound: restarts of the process
          MaxRuns     \* bound: times the END_AUCTION job is processed

ASSUME AccountAssumption == /\ Platform \notin Users
                            /\ Nobody \notin Users
                            /\ Platform # Nobody
ASSUME AmountAssumption == /\ Bids \subseteq Nat \ {0}
                           /\ StartBid \in Nat
                           /\ Funds \in Nat
ASSUME BoundAssumption == /\ MaxFaults \in Nat
                          /\ MaxCrashes \in Nat
                          /\ MaxRuns \in Nat
\* A value is a number of 256 bits, and a process serves finitely many calls.
ASSUME BidsAssumption == \E most \in Bids : \A bid \in Bids : bid <= most
ASSUME CallsAssumption == IsFiniteSet(Calls)

VARIABLES
  wallet,     \* balance of every account
  holder,     \* owner of the token according to the contract
  seller,     \* seller in the auction document, Nobody: no document
  lot,        \* latestBid, latestBidder and bidHistory of the document
  isEnded,    \* isEnded of the document
  expired,    \* the clock has passed endAt
  job,        \* the END_AUCTION job in Redis
  ender,      \* the frame of endAuction
  calls,      \* the frames of startAuction and bid
  faults,     \* failures so far
  crashes,    \* restarts so far
  raced,      \* history: a bid was written over a document it had not read
  payouts,    \* history: payments to the seller
  deliveries  \* history: tokens sent to a winner

chain == <<wallet, holder>>
document == <<seller, lot, isEnded>>
history == <<raced, payouts, deliveries>>
vars == <<wallet, holder, seller, lot, isEnded, expired, job, ender, calls,
          faults, crashes, raced, payouts, deliveries>>

Accounts == Users \cup {Platform}
Offer == [bid: Bids, bidder: Users]
Lot == [bid: Bids \cup {0}, bidder: Users \cup {Nobody}, history: Seq(Offer)]

\* A new document has no latestBid and no bidHistory.
NoLot == [bid |-> 0, bidder |-> Nobody, history |-> <<>>]

CallPC == {"idle", "deal", "save", "addJob", "giveBack", "read", "pay",
           "refundOld", "notify", "refundNew", "saveBid"}
EnderPC == {"idle", "read", "paySeller", "sendToken", "noteBuyer",
            "noteSeller", "returnToken", "noteUnsold", "mark"}
JobState == {"none", "delayed", "waiting", "active", "completed", "failed"}

Frame == [pc: CallPC, user: Users \cup {Nobody}, bid: Bids \cup {0},
          late: BOOLEAN, seen: Lot]
IdleFrame == [pc |-> "idle", user |-> Nobody, bid |-> 0, late |-> FALSE,
              seen |-> NoLot]
IdleEnder == [pc |-> "idle", seen |-> NoLot]

TypeOK ==
  /\ wallet \in [Accounts -> Int]
  /\ holder \in Accounts
  /\ seller \in Users \cup {Nobody}
  /\ lot \in Lot
  /\ isEnded \in BOOLEAN
  /\ expired \in BOOLEAN
  /\ job \in [state: JobState, runs: Nat, stalled: BOOLEAN]
  /\ ender \in [pc: EnderPC, seen: Lot]
  /\ calls \in [Calls -> Frame]
  /\ faults \in 0..MaxFaults
  /\ crashes \in 0..MaxCrashes
  /\ raced \in BOOLEAN
  /\ payouts \in Nat
  /\ deliveries \in Nat

Init ==
  /\ wallet = [a \in Accounts |-> Funds]
  /\ holder \in Users
  /\ seller = Nobody
  /\ lot = NoLot
  /\ isEnded = FALSE
  /\ expired = FALSE
  /\ job = [state |-> "none", runs |-> 0, stalled |-> FALSE]
  /\ ender = IdleEnder
  /\ calls = [c \in Calls |-> IdleFrame]
  /\ faults = 0
  /\ crashes = 0
  /\ raced = FALSE
  /\ payouts = 0
  /\ deliveries = 0

-----------------------------------------------------------------------------
(* Steps shared by the handlers.                                           *)

Goto(c, next) == calls' = [calls EXCEPT ![c].pc = next]
Return(c) == calls' = [calls EXCEPT ![c] = IdleFrame]

\* An operation outside the process rejects.
Fault == faults < MaxFaults /\ faults' = faults + 1

\* sendTransaction and wait.  A wallet that does not cover the value rejects.
CanSend(from, value) == wallet[from] >= value
Send(from, to, value) ==
  /\ CanSend(from, value)
  /\ wallet' = [wallet EXCEPT ![from] = @ - value, ![to] = @ + value]

\* The transaction rejects: it was never sent, or it was mined and the wait
\* for its receipt failed.
SendFails(from, to, value) ==
  \/ ~CanSend(from, value) /\ UNCHANGED <<wallet, faults>>
  \/ Fault /\ UNCHANGED wallet
  \/ Fault /\ Send(from, to, value)

\* safeTransferFrom reverts unless `from` holds the token.
SendToken(from, to) == holder = from /\ holder' = to
SendTokenFails(from, to) ==
  \/ holder # from /\ UNCHANGED <<holder, faults>>
  \/ Fault /\ UNCHANGED holder
  \/ Fault /\ SendToken(from, to)

-----------------------------------------------------------------------------
(* startAuction                                                            *)

\* The mutation arrives and isOwnerOf answers; anyone else is refused with
\* 'You do not owned this token'.
StartAuction(c, u) ==
  /\ calls[c].pc = "idle"
  /\ holder = u
  /\ calls' = [calls EXCEPT ![c] = [IdleFrame EXCEPT !.pc = "deal", !.user = u]]
  /\ UNCHANGED <<chain, document, expired, job, ender, faults, crashes, history>>

\* The seller hands the token to the platform.
Deal(c) ==
  /\ calls[c].pc = "deal"
  /\ \/ SendToken(calls[c].user, Platform) /\ Goto(c, "save") /\ UNCHANGED faults
     \/ SendTokenFails(calls[c].user, Platform) /\ Return(c)
  /\ UNCHANGED <<wallet, document, expired, job, ender, crashes, history>>

\* auction.save(): a second document with this tokenId is a duplicate key.
SaveAuction(c) ==
  /\ calls[c].pc = "save"
  /\ \/ /\ seller = Nobody
        /\ seller' = calls[c].user
        /\ Goto(c, "addJob")
        /\ UNCHANGED faults
     \/ /\ seller # Nobody \/ Fault
        /\ Goto(c, "giveBack")
        /\ seller # Nobody => UNCHANGED faults
        /\ UNCHANGED seller
  /\ UNCHANGED <<chain, lot, isEnded, expired, job, ender, crashes, history>>

\* A mutation of AddJob: the job is queued although the handler takes the
\* catch branch.
AddJobThenFail(c) ==
  /\ calls[c].pc = "addJob"
  /\ job' = [job EXCEPT !.state = "delayed"]
  /\ \/ Return(c) /\ UNCHANGED faults
     \/ Fault /\ Goto(c, "giveBack")
  /\ UNCHANGED <<chain, document, expired, ender, crashes, history>>

\* auctionQueue.add(END_AUCTION, ..., { delay: 1 day }).
AddJob(c) ==
  /\ calls[c].pc = "addJob"
  /\ \/ /\ job' = [job EXCEPT !.state = "delayed"]
        /\ Return(c)
        /\ UNCHANGED faults
     \/ Fault /\ Goto(c, "giveBack") /\ UNCHANGED job
  /\ UNCHANGED <<chain, document, expired, ender, crashes, history>>

\* The catch block returns the token and rethrows.  The document stays.
GiveBack(c) ==
  /\ calls[c].pc = "giveBack"
  /\ \/ SendToken(Platform, calls[c].user) /\ UNCHANGED faults
     \/ SendTokenFails(Platform, calls[c].user)
  /\ Return(c)
  /\ UNCHANGED <<wallet, document, expired, job, ender, crashes, history>>

-----------------------------------------------------------------------------
(* bid                                                                     *)

\* The mutation arrives: currentBidAt is taken before anything is awaited.
Bid(c, u, amount) ==
  /\ calls[c].pc = "idle"
  /\ seller # Nobody
  /\ calls' = [calls EXCEPT ![c] = [pc |-> "read", user |-> u, bid |-> amount,
                                    late |-> expired, seen |-> NoLot]]
  /\ UNCHANGED <<chain, document, expired, job, ender, faults, crashes, history>>

\* A mutation of TooLow: an equal bid passes.
TooLowLoose(amount, read) ==
  amount < (IF read.bid = 0 THEN StartBid ELSE read.bid)

\* currentBid.lte(parseEther(latestBid || startBid)).
TooLow(amount, read) ==
  amount <= (IF read.bid = 0 THEN StartBid ELSE read.bid)

\* findById and the two checks, which end the call when they fail.
ReadAuction(c) ==
  LET f == calls[c]
      refused == isEnded \/ f.late \/ TooLow(f.bid, lot)
  IN /\ f.pc = "read"
     /\ calls' = [calls EXCEPT ![c] =
                    IF refused THEN IdleFrame
                               ELSE [f EXCEPT !.pc = "pay", !.seen = lot]]
     /\ UNCHANGED <<chain, document, expired, job, ender, faults, crashes, history>>

\* The bidder pays the platform.  Nothing catches a failure here.
Pay(c) ==
  LET f == calls[c] IN
  /\ f.pc = "pay"
  /\ \/ /\ Send(f.user, Platform, f.bid)
        /\ Goto(c, IF f.seen.bid = 0 THEN "saveBid" ELSE "refundOld")
        /\ UNCHANGED faults
     \/ SendFails(f.user, Platform, f.bid) /\ Return(c)
  /\ UNCHANGED <<holder, document, expired, job, ender, crashes, history>>

\* The bidder of the snapshot gets his bid back.
RefundOld(c) ==
  LET f == calls[c] IN
  /\ f.pc = "refundOld"
  /\ \/ /\ Send(Platform, f.seen.bidder, f.seen.bid)
        /\ Goto(c, "notify")
        /\ UNCHANGED faults
     \/ SendFails(Platform, f.seen.bidder, f.seen.bid) /\ Goto(c, "refundNew")
  /\ UNCHANGED <<holder, document, expired, job, ender, crashes, history>>

\* notificationService.push to him, inside the same try.
NotifyOld(c) ==
  /\ calls[c].pc = "notify"
  /\ \/ Goto(c, "saveBid") /\ UNCHANGED faults
     \/ Fault /\ Goto(c, "refundNew")
  /\ UNCHANGED <<chain, document, expired, job, ender, crashes, history>>

\* Both catch blocks return the new bid and rethrow.
RefundNew(c) ==
  LET f == calls[c] IN
  /\ f.pc = "refundNew"
  /\ \/ Send(Platform, f.user, f.bid) /\ UNCHANGED faults
     \/ SendFails(Platform, f.user, f.bid)
  /\ Return(c)
  /\ UNCHANGED <<holder, document, expired, job, ender, crashes, history>>

\* A mutation of Outbid: the history grows by the snapshot even when nobody
\* had bid.
OutbidAlways(f) ==
  [bid |-> f.bid, bidder |-> f.user,
   history |-> Append(f.seen.history, [bid |-> f.seen.bid, bidder |-> f.seen.bidder])]

\* The fields that bid sets: its own offer, and the history of the snapshot
\* followed by the latest bid of the snapshot.
Outbid(f) ==
  [bid |-> f.bid, bidder |-> f.user,
   history |-> IF f.seen.bidder = Nobody THEN f.seen.history
               ELSE Append(f.seen.history,
                           [bid |-> f.seen.bid, bidder |-> f.seen.bidder])]

\* The end of the auction has read the document, or is over.
EndHasRead == isEnded \/ ender.pc \notin {"idle", "read"}
                      \/ job.state \in {"completed", "failed"} \/ job.runs > 1

\* updateOne({_id}, {$set: ...}): unconditional, whatever was written since.
SaveBid(c) ==
  LET f == calls[c] IN
  /\ f.pc = "saveBid"
  /\ \/ /\ lot' = Outbid(f)
        /\ raced' = (raced \/ lot # f.seen \/ EndHasRead)
        /\ Return(c)
        /\ UNCHANGED faults
     \/ Fault /\ Goto(c, "refundNew") /\ UNCHANGED <<lot, raced>>
  /\ UNCHANGED <<chain, seller, isEnded, expired, job, ender, crashes,
                 payouts, deliveries>>

-----------------------------------------------------------------------------
(* The END_AUCTION job and endAuction                                      *)

\* A day passes.
Expire ==
  /\ seller # Nobody /\ ~expired
  /\ expired' = TRUE
  /\ UNCHANGED <<chain, document, job, ender, calls, faults, crashes, history>>

\* Bull moves the due job to the waiting list.  Its delay started after endAt
\* was computed.
PromoteJob ==
  /\ expired /\ job.state = "delayed"
  /\ job' = [job EXCEPT !.state = "waiting"]
  /\ UNCHANGED <<chain, document, expired, ender, calls, faults, crashes, history>>

\* The consumer takes the job and calls endAuction.
StartJob ==
  /\ job.state = "waiting" /\ job.runs < MaxRuns
  /\ job' = [job EXCEPT !.state = "active", !.runs = @ + 1]
  /\ ender' = [IdleEnder EXCEPT !.pc = "read"]
  /\ UNCHANGED <<chain, document, expired, calls, faults, crashes, history>>

EndGoto(next) == ender' = [ender EXCEPT !.pc = next] /\ UNCHANGED job

\* The processor rejects and the queue was given no further attempts.
JobFails == ender' = IdleEnder /\ job' = [job EXCEPT !.state = "failed"]

\* A mutation of ReadEnd: the token goes out first.
ReadEndTokenFirst ==
  /\ ender.pc = "read"
  /\ \/ ender' = [pc |-> IF lot.bid = 0 THEN "returnToken" ELSE "sendToken",
                  seen |-> lot] /\ UNCHANGED <<job, faults>>
     \/ Fault /\ JobFails
  /\ UNCHANGED <<chain, document, expired, calls, crashes, history>>

\* findById; isEnded is not looked at.
ReadEnd ==
  /\ ender.pc = "read"
  /\ \/ /\ ender' = [pc |-> IF lot.bid = 0 THEN "returnToken" ELSE "paySeller",
                     seen |-> lot]
        /\ UNCHANGED <<job, faults>>
     \/ Fault /\ JobFails
  /\ UNCHANGED <<chain, document, expired, calls, crashes, history>>

\* A mutation of Tax: nothing is kept.
TaxFree(bid) == 0

\* bid.div(5): BigNumber division rounds down.
Tax(bid) == bid \div 5

\* The seller receives the bid less the tax.
PaySeller ==
  LET received == ender.seen.bid - Tax(ender.seen.bid) IN
  /\ ender.pc = "paySeller"
  /\ \/ Send(Platform, seller, received) /\ EndGoto("sendToken") /\ UNCHANGED faults
     \/ SendFails(Platform, seller, received) /\ JobFails
  /\ payouts' = IF wallet' = wallet THEN payouts ELSE payouts + 1
  /\ UNCHANGED <<holder, document, expired, calls, crashes, raced, deliveries>>

\* The bidder of the snapshot receives the token.
DeliverToken ==
  /\ ender.pc = "sendToken"
  /\ \/ /\ SendToken(Platform, ender.seen.bidder)
        /\ EndGoto("noteBuyer")
        /\ UNCHANGED faults
     \/ SendTokenFails(Platform, ender.seen.bidder) /\ JobFails
  /\ deliveries' = IF holder' = holder THEN deliveries ELSE deliveries + 1
  /\ UNCHANGED <<wallet, document, expired, calls, crashes, raced, payouts>>

\* No bid: the token goes back to the seller.
ReturnToken ==
  /\ ender.pc = "returnToken"
  /\ \/ SendToken(Platform, seller) /\ EndGoto("noteUnsold") /\ UNCHANGED faults
     \/ SendTokenFails(Platform, seller) /\ JobFails
  /\ UNCHANGED <<wallet, document, expired, calls, crashes, history>>

\* The notifications of both branches.
NotifyEnd ==
  /\ \/ ender.pc = "noteBuyer" /\ EndGoto("noteSeller") /\ UNCHANGED faults
     \/ ender.pc \in {"noteSeller", "noteUnsold"} /\ EndGoto("mark") /\ UNCHANGED faults
     \/ ender.pc \in {"noteBuyer", "noteSeller", "noteUnsold"} /\ Fault /\ JobFails
  /\ UNCHANGED <<chain, document, expired, calls, crashes, history>>

\* A mutation of MarkEnded: the write is forgotten.
MarkEndedNever ==
  /\ ender.pc = "mark"
  /\ ender' = IdleEnder
  /\ job' = [job EXCEPT !.state = "completed"]
  /\ UNCHANGED <<chain, document, expired, calls, faults, crashes, history>>

\* updateOne isEnded; the processor resolves and the job is completed.
MarkEnded ==
  /\ ender.pc = "mark"
  /\ \/ /\ isEnded' = TRUE
        /\ ender' = IdleEnder
        /\ job' = [job EXCEPT !.state = "completed"]
        /\ UNCHANGED faults
     \/ Fault /\ JobFails /\ UNCHANGED isEnded
  /\ UNCHANGED <<chain, seller, lot, expired, calls, crashes, history>>

\* An administrator presses "retry" on a failed job of the Bull Board page.
RetryJob ==
  /\ job.state = "failed"
  /\ job' = [job EXCEPT !.state = "waiting"]
  /\ UNCHANGED <<chain, document, expired, ender, calls, faults, crashes, history>>

\* The process restarts.  Bull finds the active job stalled and queues it
\* again, the first time.
Crash ==
  /\ crashes < MaxCrashes
  /\ crashes' = crashes + 1
  /\ calls' = [c \in Calls |-> IdleFrame]
  /\ ender' = IdleEnder
  /\ job' = IF job.state # "active" THEN job
            ELSE [job EXCEPT !.state = IF job.stalled THEN "failed" ELSE "waiting",
                             !.stalled = TRUE]
  /\ UNCHANGED <<chain, document, expired, faults, history>>

-----------------------------------------------------------------------------
Serve(c) ==
  \/ Deal(c) \/ SaveAuction(c) \/ AddJob(c) \/ GiveBack(c)
  \/ ReadAuction(c) \/ Pay(c) \/ RefundOld(c) \/ NotifyOld(c)
  \/ RefundNew(c) \/ SaveBid(c)

EndAuction ==
  \/ ReadEnd \/ PaySeller \/ DeliverToken \/ ReturnToken \/ NotifyEnd \/ MarkEnded

Next ==
  \/ \E c \in Calls : \/ Serve(c)
                      \/ \E u \in Users : StartAuction(c, u)
                      \/ \E u \in Users, b \in Bids : Bid(c, u, b)
  \/ Expire \/ PromoteJob \/ StartJob \/ EndAuction
  \/ RetryJob \/ Crash

Spec == Init /\ [][Next]_vars

\* A pending await settles, the day passes, and Bull runs what is due.  No
\* client has to call, and nobody has to press retry.
Fairness == /\ \A c \in Calls : WF_vars(Serve(c))
            /\ WF_vars(Expire) /\ WF_vars(PromoteJob) /\ WF_vars(StartJob)
            /\ WF_vars(EndAuction)

FairSpec == Spec /\ Fairness

-----------------------------------------------------------------------------
(* Properties                                                              *)

\* The calls and the job that count on the platform holding the token: a
\* seller's call between the deal and its end, the armed job, and the first
\* run of endAuction until it sends the token.
Keepers ==
  {c \in Calls : calls[c].pc \in {"save", "addJob", "giveBack"}}
JobKeeps ==
  \/ job.state = "delayed"
  \/ job.state = "waiting" /\ job.runs = 0
  \/ ender.pc \in {"read", "paySeller", "sendToken", "returnToken"} /\ job.runs = 1

\* Custody: as long as endAuction has not been run twice (startAuction and
\* endAuction hold no lock but the token itself), at most one party counts on
\* the token, and while one does the platform holds it.
Custody ==
  job.runs <= 1 =>
    /\ \A c, d \in Keepers : c = d
    /\ JobKeeps => Keepers = {}
    /\ JobKeeps \/ Keepers # {} => holder = Platform

\* The bids a document has recorded, oldest first.
Ledger(l) == IF l.bidder = Nobody THEN l.history
             ELSE Append(l.history, [bid |-> l.bid, bidder |-> l.bidder])

\* Whatever the interleaving of bids, failures and restarts, the bids recorded
\* in the document (bidHistory, then latestBid) strictly increase and start
\* above startBid.
BidsIncrease ==
  LET l == Ledger(lot) IN
  /\ \A i \in 1..Len(l) : l[i].bid > StartBid
  /\ \A i, j \in 1..Len(l) : i < j => l[i].bid < l[j].bid

Quiet == ender.pc = "idle" /\ \A c \in Calls : calls[c].pc = "idle"

\* What the document says the user has spent and earned.
Spent(u) == IF lot.bidder = u THEN lot.bid ELSE 0
Earned(u) == IF isEnded /\ seller = u THEN lot.bid - lot.bid \div 5 ELSE 0

\* What the platform keeps: the latest bid of an open auction, or the tax.
Held == IF isEnded THEN lot.bid \div 5 ELSE lot.bid

\* A platform that is off by at most `cost` bids, whichever way.
OffByAtMost(cost) ==
  \E most \in Bids : /\ wallet[Platform] - (Funds + Held) <= cost * most
                     /\ (Funds + Held) - wallet[Platform] <= cost * most

\* When nothing is in flight and no bid was saved over another one or over the
\* end of the auction, the books close: every loser has his money back, an open
\* auction keeps exactly the latest bid and the token, and an ended one left the
\* tax with the platform, the rest with the seller and the token with the
\* latest bidder, or with the seller when there was none.  A failure, such as a
\* notification that sends the new bid back after the old one, and a run of the
\* job after the first one cost a bid each at most.
ClosedBooks ==
  Quiet /\ ~raced /\ crashes = 0 =>
    /\ OffByAtMost(faults + IF job.runs > 1 THEN job.runs - 1 ELSE 0)
    /\ faults = 0 =>
         /\ \A u \in Users : wallet[u] = Funds - Spent(u) + Earned(u)
         /\ isEnded => holder = IF lot.bidder = Nobody THEN seller ELSE lot.bidder
         /\ seller # Nobody /\ ~isEnded => holder = Platform

\* The token never goes to a winner more often than the seller was paid, under
\* failures, retries and restarts too.
PaidBeforeDelivery == deliveries <= payouts

\* An armed auction ends: its job marks the document, or is left failed.
ArmedEnds == job.state = "delayed" ~> isEnded \/ job.state = "failed"

\* "Refund to old bidder": when nothing is in flight and nothing failed, whoever
\* is not the latest bidder of the open auction has his money back.
OldBiddersRefunded ==
  Quiet /\ faults = 0 /\ crashes = 0 /\ ~isEnded =>
    \A u \in Users \ {lot.bidder} : wallet[u] = Funds
=============================================================================
