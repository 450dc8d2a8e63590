--------------------------- MODULE AuctionProofs ---------------------------
(* Theorems about Auction, for every number of users, calls and bids, and    *)
(* for every number of failures and restarts.                                *)
EXTENDS Auction, DataLemmas

USE AccountAssumption, AmountAssumption, BoundAssumption

-----------------------------------------------------------------------------
(* The inductive invariant                                                  *)

\* A sequence of offers that starts above startBid and strictly increases.
Rising(s) ==
  /\ \A i \in 1..Len(s) : s[i].bid > StartBid
  /\ \A i, j \in 1..Len(s) : i < j => s[i].bid < s[j].bid

\* A document, or a snapshot of it, that the code may have written.
LotOK(l) ==
  /\ l \in Lot
  /\ l.bid = 0 <=> l.bidder = Nobody
  /\ l.bidder = Nobody => l.history = <<>>
  /\ Rising(Ledger(l))

\* A call past the checks of bid, whose snapshot says that its amount is enough.
Bidding == {"pay", "refundOld", "notify", "refundNew", "saveBid"}

FrameOK(f) ==
  /\ f \in Frame
  /\ f.pc # "idle" => f.user \in Users
  /\ LotOK(f.seen)
  /\ f.pc \in Bidding => ~TooLow(f.bid, f.seen)
  /\ f.pc = "refundOld" => f.seen.bid # 0

\* endAuction pays and delivers only what its snapshot says somebody bid.
EnderOK ==
  /\ ender \in [pc: EnderPC, seen: Lot]
  /\ LotOK(ender.seen)
  /\ ender.pc \in {"paySeller", "sendToken"} => ender.seen.bid # 0
  /\ ender.pc = "sendToken" => deliveries < payouts

\* The job, and the call about to add it, belong to a document.
HasDocument ==
  /\ ender.pc # "idle" \/ job.state # "none" => seller # Nobody
  /\ \A c \in Calls : calls[c].pc = "addJob" => seller # Nobody

Inv ==
  /\ TypeOK
  /\ LotOK(lot)
  /\ \A c \in Calls : FrameOK(calls[c])
  /\ EnderOK
  /\ HasDocument
  /\ PaidBeforeDelivery

-----------------------------------------------------------------------------
(* Facts about documents and frames                                         *)

\* The document a frame holds before it has read one is well formed.
LEMMA NoLotOK == LotOK(NoLot)
<1>1. NoLot \in Lot
  BY DEF NoLot, Lot
<1>2. Ledger(NoLot) = <<>>
  BY DEF Ledger, NoLot
<1>3. Rising(<<>>)
  BY DEF Rising
<1> QED
  BY <1>1, <1>2, <1>3 DEF LotOK, NoLot

\* A frame that has not started, or has returned, is in order.
LEMMA IdleOK == FrameOK(IdleFrame)
  BY NoLotOK DEF IdleFrame, Frame, FrameOK, CallPC, Bidding, LotOK

\* What a document is made of, field by field.
LEMMA LotFields ==
  ASSUME NEW l \in Lot
  PROVE  /\ l.bid \in Nat /\ l.bid \in Bids \cup {0}
         /\ l.bidder \in Users \cup {Nobody} /\ l.history \in Seq(Offer)
<1>1. l.bid \in Bids \cup {0} /\ l.bidder \in Users \cup {Nobody} /\ l.history \in Seq(Offer)
  BY DEF Lot
<1>2. Bids \cup {0} \subseteq Nat
  OBVIOUS
<1> QED
  BY <1>1, <1>2

\* The history of a document that bid writes is the ledger it read, and its
\* ledger is that one with the new offer at its end.
LEMMA OutbidLedger ==
  ASSUME NEW f \in Frame, LotOK(f.seen), f.user \in Users
  PROVE  /\ Outbid(f).history = Ledger(f.seen)
         /\ Ledger(Outbid(f)) = Append(Ledger(f.seen), [bid |-> f.bid, bidder |-> f.user])
  BY DEF Outbid, Ledger, LotOK, Lot, Frame

\* An offer above everything a rising ledger holds keeps it rising.
LEMMA RisingAppend ==
  ASSUME NEW s \in Seq(Offer), NEW o \in Offer, Rising(s), o.bid > StartBid,
         s # <<>> => s[Len(s)].bid < o.bid
  PROVE  Rising(Append(s, o))
<1> DEFINE t == Append(s, o)
<1>1. /\ Len(t) = Len(s) + 1
      /\ \A i \in 1..Len(s) : t[i] = s[i] /\ s[i] \in Offer
      /\ t[Len(s) + 1] = o
      /\ Len(s) \in Nat
  OBVIOUS
<1>2. \A i \in 1..Len(s) : s[i].bid \in Nat
  BY <1>1 DEF Offer
<1>3. o.bid \in Nat
  BY DEF Offer
<1>4. \A i \in 1..Len(s) : s[i].bid < o.bid
  <2> SUFFICES ASSUME NEW i \in 1..Len(s) PROVE s[i].bid < o.bid
    OBVIOUS
  <2>1. s # <<>>
    OBVIOUS
  <2>2. i = Len(s) \/ i < Len(s)
    BY <1>1
  <2> QED
    BY <2>1, <2>2, <1>1, <1>2, <1>3 DEF Rising
<1>5. \A i \in 1..Len(t) : t[i].bid > StartBid
  BY <1>1 DEF Rising
<1>6. \A i, j \in 1..Len(t) : i < j => t[i].bid < t[j].bid
  BY <1>1, <1>4 DEF Rising
<1> QED
  BY <1>5, <1>6 DEF Rising

\* What a bidding call writes is a document of the same kind.
LEMMA OutbidOK ==
  ASSUME NEW f, FrameOK(f), f.pc \in Bidding
  PROVE  LotOK(Outbid(f))
<1> DEFINE old == Ledger(f.seen)
           offer == [bid |-> f.bid, bidder |-> f.user]
<1>1. f \in Frame /\ f.user \in Users /\ LotOK(f.seen) /\ ~TooLow(f.bid, f.seen)
  BY DEF FrameOK, Bidding
<1>2. f.bid \in Bids \cup {0} /\ f.bid \in Nat /\ f.seen \in Lot /\ f.seen.bid \in Nat
  <2>1. f.bid \in Bids \cup {0} /\ f.seen \in Lot
    BY <1>1 DEF Frame
  <2>2. Bids \cup {0} \subseteq Nat
    OBVIOUS
  <2> QED
    BY <2>1, <2>2, LotFields
<1>3. f.bid \in Bids /\ f.bid # 0 /\ f.bid > StartBid
  <2>1. CASE f.seen.bid = 0
    BY <1>1, <1>2, <2>1 DEF TooLow
  <2>2. CASE f.seen.bid # 0
    <3>1. old = Append(f.seen.history, [bid |-> f.seen.bid, bidder |-> f.seen.bidder])
      BY <1>1, <2>2 DEF LotOK, Ledger
    <3>2. Len(f.seen.history) \in Nat /\ Len(old) = Len(f.seen.history) + 1
          /\ old[Len(old)].bid = f.seen.bid
      BY <1>2, <3>1 DEF Lot
    <3>3. f.seen.bid > StartBid
      BY <1>1, <3>2 DEF LotOK, Rising
    <3> QED
      BY <1>1, <1>2, <2>2, <3>3 DEF TooLow
  <2> QED
    BY <2>1, <2>2
<1>4. old \in Seq(Offer) /\ offer \in Offer
  <2>1. offer \in Offer
    BY <1>1, <1>3 DEF Offer
  <2>2. f.seen.bidder # Nobody => [bid |-> f.seen.bid, bidder |-> f.seen.bidder] \in Offer
    BY <1>1, <1>2 DEF LotOK, Lot, Offer
  <2>3. f.seen.history \in Seq(Offer)
    BY <1>2 DEF Lot
  <2> QED
    BY <2>1, <2>2, <2>3 DEF Ledger
<1>5. old # <<>> => old[Len(old)].bid < f.bid
  <2> SUFFICES ASSUME old # <<>> PROVE old[Len(old)].bid < f.bid
    OBVIOUS
  <2>1. f.seen.bidder # Nobody
    BY <1>1 DEF LotOK, Ledger
  <2>2. old = Append(f.seen.history, [bid |-> f.seen.bid, bidder |-> f.seen.bidder])
    BY <2>1 DEF Ledger
  <2>3. old[Len(old)].bid = f.seen.bid
    BY <1>2, <2>2 DEF Lot
  <2>4. f.seen.bid # 0
    BY <1>1, <2>1 DEF LotOK
  <2> QED
    BY <1>1, <1>2, <2>3, <2>4 DEF TooLow
<1>6. Rising(Append(old, offer))
  <2>1. Rising(old) /\ offer.bid = f.bid
    BY <1>1 DEF LotOK
  <2> HIDE DEF old, offer
  <2> QED
    BY <1>3, <1>4, <1>5, <2>1, RisingAppend
<1>7. Outbid(f) \in Lot
  BY <1>1, <1>3, <1>4, OutbidLedger DEF Outbid, Lot
<1>8. Outbid(f).bid # 0 /\ Outbid(f).bidder # Nobody
  BY <1>1, <1>3 DEF Outbid
<1> QED
  BY <1>1, <1>6, <1>7, <1>8, OutbidLedger DEF LotOK

-----------------------------------------------------------------------------
(* What the shared steps do to the types                                    *)

\* The invariant holds before the auction is created.
LEMMA InvInit == Init => Inv
<1> SUFFICES ASSUME Init PROVE Inv
  OBVIOUS
<1>1. wallet \in [Accounts -> Int] /\ holder \in Accounts /\ seller \in Users \cup {Nobody}
  BY DEF Init, Accounts
<1>2. isEnded \in BOOLEAN /\ expired \in BOOLEAN /\ raced \in BOOLEAN
  BY DEF Init
<1>3. job \in [state: JobState, runs: Nat, stalled: BOOLEAN]
  BY DEF Init, JobState
<1>4. faults \in 0..MaxFaults /\ crashes \in 0..MaxCrashes
  BY DEF Init
<1>5. payouts \in Nat /\ deliveries \in Nat /\ PaidBeforeDelivery
  BY DEF Init, PaidBeforeDelivery
<1>6. LotOK(lot) /\ lot \in Lot
  BY NoLotOK DEF Init, LotOK
<1>7. calls \in [Calls -> Frame] /\ \A c \in Calls : FrameOK(calls[c])
  BY IdleOK DEF Init, FrameOK
<1>8. EnderOK
  BY NoLotOK DEF Init, EnderOK, EnderPC, IdleEnder, LotOK
<1>9. HasDocument
  BY DEF Init, HasDocument, IdleEnder, IdleFrame
<1>10. TypeOK
  BY <1>1, <1>2, <1>3, <1>4, <1>5, <1>6, <1>7, <1>8 DEF TypeOK, EnderOK
<1> QED
  BY <1>5, <1>6, <1>7, <1>8, <1>9, <1>10 DEF Inv

\* A call whose new frame is in order leaves all frames in order.
LEMMA FrameStep ==
  ASSUME Inv, NEW c \in Calls, NEW f, FrameOK(f), calls' = [calls EXCEPT ![c] = f]
  PROVE  calls' \in [Calls -> Frame] /\ \A d \in Calls : FrameOK(calls'[d])
  BY DEF Inv, TypeOK, FrameOK

\* A call that returns leaves all frames in order.
LEMMA ReturnStep ==
  ASSUME Inv, NEW c \in Calls, Return(c)
  PROVE  /\ calls' \in [Calls -> Frame] /\ \A d \in Calls : FrameOK(calls'[d])
         /\ calls'[c].pc = "idle" /\ \A d \in Calls \ {c} : calls'[d] = calls[d]
<1>1. calls' \in [Calls -> Frame] /\ \A d \in Calls : FrameOK(calls'[d])
  BY IdleOK, FrameStep DEF Return
<1>2. calls'[c].pc = "idle" /\ \A d \in Calls \ {c} : calls'[d] = calls[d]
  BY DEF Return, IdleFrame, Inv, TypeOK
<1> QED
  BY <1>1, <1>2

\* A call that moves on within its handler keeps what its frame holds.
LEMMA GotoStep ==
  ASSUME Inv, NEW c \in Calls, NEW pc \in CallPC, Goto(c, pc), calls[c].pc # "idle",
         pc \in Bidding => calls[c].pc \in Bidding,
         pc = "refundOld" => calls[c].seen.bid # 0
  PROVE  /\ calls' \in [Calls -> Frame] /\ \A d \in Calls : FrameOK(calls'[d])
         /\ calls'[c].pc = pc /\ \A d \in Calls \ {c} : calls'[d] = calls[d]
<1> DEFINE f == [calls[c] EXCEPT !.pc = pc]
<1>1. FrameOK(calls[c]) /\ calls[c] \in Frame
  BY DEF Inv, TypeOK
<1>2. /\ f \in Frame /\ f.pc = pc /\ f.user = calls[c].user
      /\ f.seen = calls[c].seen /\ f.bid = calls[c].bid
  BY <1>1 DEF Frame
<1>3. FrameOK(f)
  BY <1>1, <1>2 DEF FrameOK
<1>4. calls' = [calls EXCEPT ![c] = f]
  BY DEF Goto
<1>5. calls'[c] = f /\ \A d \in Calls \ {c} : calls'[d] = calls[d]
  BY <1>4 DEF Inv, TypeOK
<1> QED
  BY <1>2, <1>3, <1>4, <1>5, FrameStep

\* A payment leaves every wallet a natural number of coins.
LEMMA SendType ==
  ASSUME TypeOK, NEW a \in Accounts, NEW b \in Accounts, NEW v \in Int, Send(a, b, v)
  PROVE  wallet' \in [Accounts -> Int]
  BY DEF TypeOK, Send

\* Counting a failure keeps the count a natural number.
LEMMA FaultType ==
  ASSUME TypeOK, Fault
  PROVE  faults' \in 0..MaxFaults
  BY DEF TypeOK, Fault

\* A failed payment changes no wallet, or those of a payment whose receipt was lost.
LEMMA SendFailsType ==
  ASSUME TypeOK, NEW a \in Accounts, NEW b \in Accounts, NEW v \in Int,
         SendFails(a, b, v)
  PROVE  wallet' \in [Accounts -> Int] /\ faults' \in 0..MaxFaults
<1>1. CASE UNCHANGED <<wallet, faults>>
  BY <1>1 DEF TypeOK
<1>2. CASE Fault /\ UNCHANGED wallet
  BY <1>2, FaultType DEF TypeOK
<1>3. CASE Fault /\ Send(a, b, v)
  BY <1>3, FaultType, SendType
<1> QED
  BY <1>1, <1>2, <1>3 DEF SendFails

\* A failed transfer leaves the token with its holder or with the receiver.
LEMMA SendTokenFailsType ==
  ASSUME TypeOK, NEW a, NEW b \in Accounts, SendTokenFails(a, b)
  PROVE  holder' \in Accounts /\ faults' \in 0..MaxFaults
  BY FaultType DEF SendTokenFails, SendToken, TypeOK

-----------------------------------------------------------------------------
(* The steps of startAuction                                                *)

\* startAuction begins: its checks passed, it holds the seller and the token.
LEMMA StartAuctionInv ==
  ASSUME Inv, NEW c \in Calls, NEW u \in Users, StartAuction(c, u)
  PROVE  Inv'
<1> DEFINE f == [IdleFrame EXCEPT !.pc = "deal", !.user = u]
<1>1. FrameOK(f)
  BY NoLotOK DEF IdleFrame, FrameOK, Frame, CallPC, Bidding, LotOK
<1>2. calls' \in [Calls -> Frame] /\ \A d \in Calls : FrameOK(calls'[d])
  BY <1>1, FrameStep DEF StartAuction
<1>3. HasDocument'
  BY DEF Inv, TypeOK, HasDocument, StartAuction, IdleFrame, document
<1>4. TypeOK'
  BY <1>2 DEF Inv, TypeOK, StartAuction, chain, document, history
<1> QED
  BY <1>2, <1>3, <1>4
     DEF Inv, EnderOK, PaidBeforeDelivery, StartAuction, document, history

\* The deal of startAuction, taken or failed.
LEMMA DealInv ==
  ASSUME Inv, NEW c \in Calls, Deal(c)
  PROVE  Inv'
<1>1. /\ calls' \in [Calls -> Frame] /\ \A d \in Calls : FrameOK(calls'[d])
      /\ calls'[c].pc \in {"save", "idle"} /\ \A d \in Calls \ {c} : calls'[d] = calls[d]
  BY ReturnStep, GotoStep DEF Deal, CallPC, Bidding
<1>2. holder' \in Accounts /\ faults' \in 0..MaxFaults
  BY SendTokenFailsType DEF Inv, TypeOK, Deal, SendToken, Accounts
<1>3. HasDocument'
  BY <1>1 DEF Inv, HasDocument, Deal, document
<1>4. TypeOK'
  BY <1>1, <1>2 DEF Inv, TypeOK, Deal, document, history
<1> QED
  BY <1>1, <1>3, <1>4
     DEF Inv, EnderOK, PaidBeforeDelivery, Deal, document, history

\* The first save of the document, or its failure.
LEMMA SaveAuctionInv ==
  ASSUME Inv, NEW c \in Calls, SaveAuction(c)
  PROVE  Inv'
<1>1. /\ calls' \in [Calls -> Frame] /\ \A d \in Calls : FrameOK(calls'[d])
      /\ calls'[c].pc \in {"addJob", "giveBack"}
      /\ \A d \in Calls \ {c} : calls'[d] = calls[d]
  BY GotoStep DEF SaveAuction, CallPC, Bidding
<1>2. calls[c].user \in Users
  BY DEF Inv, FrameOK, SaveAuction
<1>3. seller' \in Users \cup {Nobody} /\ (seller # Nobody => seller' = seller)
  BY <1>2 DEF Inv, TypeOK, SaveAuction
<1>4. calls'[c].pc = "addJob" => seller' # Nobody
  BY <1>2, GotoStep DEF SaveAuction, CallPC, Bidding
<1>5. faults' \in 0..MaxFaults
  BY FaultType DEF Inv, TypeOK, SaveAuction
<1>6. HasDocument'
  BY <1>1, <1>3, <1>4 DEF Inv, HasDocument, SaveAuction
<1>7. TypeOK'
  BY <1>1, <1>3, <1>5 DEF Inv, TypeOK, SaveAuction, chain, history
<1> QED
  BY <1>1, <1>6, <1>7
     DEF Inv, EnderOK, PaidBeforeDelivery, SaveAuction, history

\* The job is queued and its id saved, or the queue fails.
LEMMA AddJobInv ==
  ASSUME Inv, NEW c \in Calls, AddJob(c)
  PROVE  Inv'
<1>1. /\ calls' \in [Calls -> Frame] /\ \A d \in Calls : FrameOK(calls'[d])
      /\ calls'[c].pc \in {"idle", "giveBack"}
      /\ \A d \in Calls \ {c} : calls'[d] = calls[d]
  BY ReturnStep, GotoStep DEF AddJob, CallPC, Bidding
<1>2. faults' \in 0..MaxFaults
  BY FaultType DEF Inv, TypeOK, AddJob
<1>3. job' \in [state: JobState, runs: Nat, stalled: BOOLEAN]
  BY DEF Inv, TypeOK, AddJob, JobState
<1>4. HasDocument'
  BY <1>1 DEF Inv, HasDocument, AddJob, document
<1>5. TypeOK'
  BY <1>1, <1>2, <1>3 DEF Inv, TypeOK, AddJob, chain, document, history
<1> QED
  BY <1>1, <1>4, <1>5
     DEF Inv, EnderOK, PaidBeforeDelivery, AddJob, document, history

\* The catch block of startAuction returns the token.
LEMMA GiveBackInv ==
  ASSUME Inv, NEW c \in Calls, GiveBack(c)
  PROVE  Inv'
<1>1. /\ calls' \in [Calls -> Frame] /\ \A d \in Calls : FrameOK(calls'[d])
      /\ calls'[c].pc = "idle" /\ \A d \in Calls \ {c} : calls'[d] = calls[d]
  BY ReturnStep DEF GiveBack
<1>2. calls[c].user \in Accounts
  BY DEF Inv, FrameOK, GiveBack, Accounts
<1>3. holder' \in Accounts /\ faults' \in 0..MaxFaults
  BY <1>2, SendTokenFailsType DEF Inv, TypeOK, GiveBack, SendToken
<1>4. HasDocument'
  BY <1>1 DEF Inv, HasDocument, GiveBack, document
<1>5. TypeOK'
  BY <1>1, <1>3 DEF Inv, TypeOK, GiveBack, document, history
<1> QED
  BY <1>1, <1>4, <1>5
     DEF Inv, EnderOK, PaidBeforeDelivery, GiveBack, document, history

-----------------------------------------------------------------------------
(* The steps of bid                                                         *)

\* bid begins.
LEMMA BidInv ==
  ASSUME Inv, NEW c \in Calls, NEW u \in Users, NEW b \in Bids, Bid(c, u, b)
  PROVE  Inv'
<1> DEFINE f == [pc |-> "read", user |-> u, bid |-> b, late |-> expired, seen |-> NoLot]
<1>1. FrameOK(f)
  BY NoLotOK DEF FrameOK, Frame, CallPC, Bidding, LotOK, Inv, TypeOK
<1>2. calls' = [calls EXCEPT ![c] = f]
  BY DEF Bid
<1>3. calls' \in [Calls -> Frame] /\ \A d \in Calls : FrameOK(calls'[d])
  BY <1>1, <1>2, FrameStep
<1>4. HasDocument'
  BY DEF Inv, HasDocument, Bid, document
<1>5. TypeOK'
  BY <1>3 DEF Inv, TypeOK, Bid, chain, document, history
<1> QED
  BY <1>3, <1>4, <1>5 DEF Inv, EnderOK, PaidBeforeDelivery, Bid, document, history

\* The checks of bid put its amount above the snapshot it takes.
LEMMA ReadAuctionInv ==
  ASSUME Inv, NEW c \in Calls, ReadAuction(c)
  PROVE  Inv'
<1> DEFINE f == [calls[c] EXCEPT !.pc = "pay", !.seen = lot]
<1>1. calls[c] \in Frame /\ FrameOK(calls[c])
  BY DEF Inv, TypeOK
<1>2. /\ f \in Frame /\ f.pc = "pay" /\ f.user = calls[c].user
      /\ f.bid = calls[c].bid /\ f.seen = lot
  BY <1>1 DEF Frame, CallPC, Inv, LotOK
<1>3. \/ calls' = [calls EXCEPT ![c] = IdleFrame]
      \/ calls' = [calls EXCEPT ![c] = f] /\ ~TooLow(calls[c].bid, lot)
  BY DEF ReadAuction
<1>4. ~TooLow(calls[c].bid, lot) => FrameOK(f)
  BY <1>1, <1>2 DEF FrameOK, Inv, ReadAuction
<1>5. calls' \in [Calls -> Frame] /\ \A d \in Calls : FrameOK(calls'[d])
  BY <1>3, <1>4, IdleOK, FrameStep
<1>6. HasDocument'
  <2>1. calls'[c] \in {IdleFrame, f} /\ \A d \in Calls \ {c} : calls'[d] = calls[d]
    BY <1>3 DEF Inv, TypeOK
  <2>2. calls'[c].pc # "addJob"
    <3>1. f.pc = "pay" /\ IdleFrame.pc = "idle"
      BY <1>2 DEF IdleFrame
    <3> HIDE DEF f
    <3> QED
      BY <2>1, <3>1
  <2> QED
    BY <2>1, <2>2 DEF Inv, HasDocument, ReadAuction, document
<1>7. TypeOK'
  BY <1>5 DEF Inv, TypeOK, ReadAuction, chain, document, history
<1> QED
  BY <1>5, <1>6, <1>7
     DEF Inv, EnderOK, PaidBeforeDelivery, ReadAuction, document, history

\* A step of a bid that touches wallets and its own frame only.
LEMMA MoneyStep ==
  ASSUME Inv, NEW c \in Calls,
         calls' \in [Calls -> Frame], \A d \in Calls : FrameOK(calls'[d]),
         calls'[c].pc # "addJob", \A d \in Calls \ {c} : calls'[d] = calls[d],
         wallet' \in [Accounts -> Int], faults' \in 0..MaxFaults,
         UNCHANGED <<holder, document, expired, job, ender, crashes, history>>
  PROVE  Inv'
<1>1. HasDocument'
  BY DEF Inv, HasDocument, document
<1>2. TypeOK'
  BY DEF Inv, TypeOK, document, history
<1> QED
  BY <1>1, <1>2 DEF Inv, EnderOK, PaidBeforeDelivery, document, history

\* What the frame of a bid past its checks holds.
LEMMA BidFields ==
  ASSUME Inv, NEW c \in Calls
  PROVE  /\ calls[c].bid \in Int /\ calls[c].seen.bid \in Int
         /\ calls[c].pc # "idle" => calls[c].user \in Accounts
         /\ calls[c].pc = "refundOld" => calls[c].seen.bidder \in Accounts
         /\ Platform \in Accounts
<1>1. calls[c].bid \in Bids \cup {0} /\ calls[c].seen \in Lot
  BY DEF Inv, TypeOK, Frame
<1>2. Bids \cup {0} \subseteq Int
  OBVIOUS
<1>3. calls[c].pc # "idle" => calls[c].user \in Accounts
  BY DEF Inv, FrameOK, Accounts
<1>4. calls[c].pc = "refundOld" => calls[c].seen.bidder \in Users
  BY <1>1, LotFields DEF Inv, FrameOK, LotOK
<1> QED
  BY <1>1, <1>2, <1>3, <1>4, LotFields DEF Accounts

\* The new bidder pays, or the payment fails.
LEMMA PayInv ==
  ASSUME Inv, NEW c \in Calls, Pay(c)
  PROVE  Inv'
<1>1. /\ calls' \in [Calls -> Frame] /\ \A d \in Calls : FrameOK(calls'[d])
      /\ calls'[c].pc \in {"idle", "saveBid", "refundOld"}
      /\ \A d \in Calls \ {c} : calls'[d] = calls[d]
  BY ReturnStep, GotoStep DEF Pay, CallPC, Bidding
<1>2. wallet' \in [Accounts -> Int] /\ faults' \in 0..MaxFaults
  BY BidFields, SendType, SendFailsType DEF Pay, Inv, TypeOK
<1> QED
  BY <1>1, <1>2, MoneyStep DEF Pay

\* The old bidder is refunded, or the refund fails.
LEMMA RefundOldInv ==
  ASSUME Inv, NEW c \in Calls, RefundOld(c)
  PROVE  Inv'
<1>1. /\ calls' \in [Calls -> Frame] /\ \A d \in Calls : FrameOK(calls'[d])
      /\ calls'[c].pc \in {"notify", "refundNew"}
      /\ \A d \in Calls \ {c} : calls'[d] = calls[d]
  BY GotoStep DEF RefundOld, CallPC, Bidding
<1>2. wallet' \in [Accounts -> Int] /\ faults' \in 0..MaxFaults
  BY BidFields, SendType, SendFailsType DEF RefundOld, Inv, TypeOK
<1> QED
  BY <1>1, <1>2, MoneyStep DEF RefundOld

\* The outbid bidder is told, or the notification fails.
LEMMA NotifyOldInv ==
  ASSUME Inv, NEW c \in Calls, NotifyOld(c)
  PROVE  Inv'
<1>1. /\ calls' \in [Calls -> Frame] /\ \A d \in Calls : FrameOK(calls'[d])
      /\ calls'[c].pc \in {"saveBid", "refundNew"}
      /\ \A d \in Calls \ {c} : calls'[d] = calls[d]
  BY GotoStep DEF NotifyOld, CallPC, Bidding
<1>2. wallet' \in [Accounts -> Int] /\ faults' \in 0..MaxFaults
  BY FaultType DEF NotifyOld, Inv, TypeOK, chain
<1> QED
  BY <1>1, <1>2, MoneyStep DEF NotifyOld, chain

\* The catch block of bid refunds the new bidder.
LEMMA RefundNewInv ==
  ASSUME Inv, NEW c \in Calls, RefundNew(c)
  PROVE  Inv'
<1>1. /\ calls' \in [Calls -> Frame] /\ \A d \in Calls : FrameOK(calls'[d])
      /\ calls'[c].pc = "idle" /\ \A d \in Calls \ {c} : calls'[d] = calls[d]
  BY ReturnStep DEF RefundNew
<1>2. wallet' \in [Accounts -> Int] /\ faults' \in 0..MaxFaults
  BY BidFields, SendType, SendFailsType DEF RefundNew, Inv, TypeOK
<1> QED
  BY <1>1, <1>2, MoneyStep DEF RefundNew

\* The write of a bid: whatever the document holds by now, what replaces it is
\* built from a snapshot that the offer exceeds.
LEMMA SaveBidInv ==
  ASSUME Inv, NEW c \in Calls, SaveBid(c)
  PROVE  Inv'
<1>1. /\ calls' \in [Calls -> Frame] /\ \A d \in Calls : FrameOK(calls'[d])
      /\ calls'[c].pc \in {"idle", "refundNew"}
      /\ \A d \in Calls \ {c} : calls'[d] = calls[d]
  BY ReturnStep, GotoStep DEF SaveBid, CallPC, Bidding
<1>2. LotOK(lot')
  <2>1. FrameOK(calls[c]) /\ calls[c].pc \in Bidding
    BY DEF Inv, SaveBid, Bidding
  <2>2. LotOK(Outbid(calls[c]))
    BY <2>1, OutbidOK
  <2> QED
    BY <2>2 DEF Inv, SaveBid
<1>3. raced' \in BOOLEAN
  BY DEF SaveBid, Inv, TypeOK
<1>4. faults' \in 0..MaxFaults
  BY FaultType DEF SaveBid, Inv, TypeOK
<1>5. HasDocument'
  BY <1>1 DEF Inv, HasDocument, SaveBid
<1>6. TypeOK'
  BY <1>1, <1>2, <1>3, <1>4 DEF Inv, TypeOK, SaveBid, chain, LotOK
<1> QED
  BY <1>1, <1>2, <1>5, <1>6 DEF Inv, EnderOK, PaidBeforeDelivery, SaveBid

-----------------------------------------------------------------------------
(* The steps of the END_AUCTION job and endAuction                          *)

\* Steps that leave the calls alone.
LEMMA CallsStay ==
  ASSUME Inv, UNCHANGED <<seller, calls>>
  PROVE  /\ calls' \in [Calls -> Frame] /\ \A c \in Calls : FrameOK(calls'[c])
         /\ \A c \in Calls : calls'[c].pc = "addJob" => seller' # Nobody
  BY DEF Inv, TypeOK, HasDocument

\* The job fails.
LEMMA FailStep ==
  ASSUME Inv, ender.pc # "idle", UNCHANGED seller, JobFails
  PROVE  /\ EnderOK'
         /\ job' \in [state: JobState, runs: Nat, stalled: BOOLEAN]
         /\ ender'.pc # "idle" \/ job'.state # "none" => seller' # Nobody
<1>1. seller' # Nobody
  BY DEF Inv, HasDocument
<1>2. job' \in [state: JobState, runs: Nat, stalled: BOOLEAN]
  BY DEF JobFails, Inv, TypeOK, JobState
<1>3. EnderOK'
  BY NoLotOK DEF JobFails, IdleEnder, EnderOK, EnderPC, LotOK
<1> QED
  BY <1>1, <1>2, <1>3

\* endAuction moves on with the snapshot it has.
LEMMA EnderStep ==
  ASSUME Inv, ender.pc # "idle", UNCHANGED seller, NEW pc \in EnderPC, EndGoto(pc),
         pc \in {"paySeller", "sendToken"} => ender.seen.bid # 0,
         pc = "sendToken" => deliveries' < payouts'
  PROVE  /\ EnderOK'
         /\ job' \in [state: JobState, runs: Nat, stalled: BOOLEAN]
         /\ ender'.pc # "idle" \/ job'.state # "none" => seller' # Nobody
<1>1. seller' # Nobody
  BY DEF Inv, HasDocument
<1>2. job' \in [state: JobState, runs: Nat, stalled: BOOLEAN]
  BY DEF EndGoto, Inv, TypeOK
<1>3. ender' \in [pc: EnderPC, seen: Lot] /\ ender'.pc = pc /\ ender'.seen = ender.seen
  BY DEF EndGoto, Inv, EnderOK
<1>4. EnderOK'
  BY <1>3 DEF Inv, EnderOK
<1> QED
  BY <1>1, <1>2, <1>4

\* Steps of the clock and of Bull.
LEMMA QueueInv ==
  ASSUME Inv, Expire \/ PromoteJob \/ StartJob \/ RetryJob
  PROVE  Inv'
<1>1. /\ calls' \in [Calls -> Frame] /\ \A c \in Calls : FrameOK(calls'[c])
      /\ \A c \in Calls : calls'[c].pc = "addJob" => seller' # Nobody
  BY CallsStay DEF Expire, PromoteJob, StartJob, RetryJob, document
<1>2. job' \in [state: JobState, runs: Nat, stalled: BOOLEAN]
  <2>1. job \in [state: JobState, runs: Nat, stalled: BOOLEAN]
    BY DEF Inv, TypeOK
  <2>2. CASE Expire
    BY <2>1, <2>2 DEF Expire
  <2>3. CASE PromoteJob
    BY <2>1, <2>3 DEF PromoteJob, JobState
  <2>4. CASE RetryJob
    BY <2>1, <2>4 DEF RetryJob, JobState
  <2>5. CASE StartJob
    <3>1. job.runs + 1 \in Nat
      BY <2>1
    <3>2. job' = [job EXCEPT !.state = "active", !.runs = job.runs + 1]
      BY <2>5 DEF StartJob
    <3> QED
      BY <2>1, <3>1, <3>2 DEF JobState
  <2> QED
    BY <2>2, <2>3, <2>4, <2>5
<1>3. EnderOK'
  <2>1. CASE StartJob
    BY <2>1, NoLotOK DEF StartJob, IdleEnder, EnderOK, EnderPC, LotOK
  <2>2. CASE Expire \/ PromoteJob \/ RetryJob
    BY <2>2 DEF Expire, PromoteJob, RetryJob, Inv, EnderOK, history
  <2> QED
    BY <2>1, <2>2
<1>4. HasDocument'
  <2>1. job.state # "none" => seller' # Nobody
    BY DEF Expire, PromoteJob, StartJob, RetryJob, document, Inv, HasDocument
  <2>2. ender'.pc # "idle" \/ job'.state # "none" => seller' # Nobody
    BY <2>1 DEF Expire, PromoteJob, StartJob, RetryJob, document, Inv, HasDocument
  <2> QED
    BY <1>1, <2>2 DEF HasDocument
<1>5. expired' \in BOOLEAN
  BY DEF Expire, PromoteJob, StartJob, RetryJob, Inv, TypeOK
<1>6. TypeOK'
  BY <1>1, <1>2, <1>3, <1>5
     DEF Inv, TypeOK, EnderOK, Expire, PromoteJob, StartJob, RetryJob, chain, document, history
<1> QED
  BY <1>1, <1>3, <1>4, <1>6
     DEF Inv, PaidBeforeDelivery, Expire, PromoteJob, StartJob, RetryJob, document, history

\* endAuction reads the document and the remains of earlier runs.
LEMMA ReadEndInv ==
  ASSUME Inv, ReadEnd
  PROVE  Inv'
<1>1. /\ calls' \in [Calls -> Frame] /\ \A c \in Calls : FrameOK(calls'[c])
      /\ \A c \in Calls : calls'[c].pc = "addJob" => seller' # Nobody
  BY CallsStay DEF ReadEnd, document
<1>2. CASE JobFails
  <2>1. /\ EnderOK' /\ job' \in [state: JobState, runs: Nat, stalled: BOOLEAN]
        /\ ender'.pc # "idle" \/ job'.state # "none" => seller' # Nobody
    BY <1>2, FailStep DEF ReadEnd, document
  <2>2. faults' \in 0..MaxFaults
    BY <1>2, FaultType DEF ReadEnd, Inv, TypeOK
  <2>3. TypeOK'
    BY <1>1, <2>1, <2>2 DEF Inv, TypeOK, EnderOK, ReadEnd, chain, document, history
  <2> QED
    BY <1>1, <2>1, <2>3
       DEF Inv, HasDocument, PaidBeforeDelivery, ReadEnd, document, history
<1>3. CASE ender' = [pc |-> IF lot.bid = 0 THEN "returnToken" ELSE "paySeller", seen |-> lot]
           /\ UNCHANGED <<job, faults>>
  <2>1. EnderOK'
    BY <1>3 DEF EnderOK, EnderPC, Inv, TypeOK
  <2>2. ender'.pc # "idle" \/ job'.state # "none" => seller' # Nobody
    BY DEF Inv, HasDocument, ReadEnd, document
  <2>3. TypeOK'
    BY <1>1, <1>3, <2>1 DEF Inv, TypeOK, EnderOK, ReadEnd, chain, document, history
  <2> QED
    BY <1>1, <2>1, <2>2, <2>3
       DEF Inv, HasDocument, PaidBeforeDelivery, ReadEnd, document, history
<1> QED
  BY <1>2, <1>3 DEF ReadEnd

\* What is left for the seller after the tax is a payment of something.
LEMMA TaxLeavesSomething ==
  ASSUME NEW b \in Nat, b # 0
  PROVE  b - Tax(b) \in Int /\ b - Tax(b) > 0
  BY DEF Tax

\* The seller is paid, after which the delivery may follow.
LEMMA PaySellerInv ==
  ASSUME Inv, PaySeller
  PROVE  Inv'
<1> DEFINE received == ender.seen.bid - Tax(ender.seen.bid)
<1>1. /\ calls' \in [Calls -> Frame] /\ \A c \in Calls : FrameOK(calls'[c])
      /\ \A c \in Calls : calls'[c].pc = "addJob" => seller' # Nobody
  BY CallsStay DEF PaySeller, document
<1>2. ender.seen.bid # 0 /\ ender.seen.bid \in Nat
  BY LotFields DEF Inv, EnderOK, PaySeller
<1>3. received \in Int /\ received > 0
  BY <1>2, TaxLeavesSomething
<1>4. seller \in Users /\ seller \in Accounts /\ Platform \in Accounts /\ seller # Platform
  BY DEF Inv, TypeOK, HasDocument, PaySeller, Accounts
<1>5. wallet' \in [Accounts -> Int] /\ faults' \in 0..MaxFaults
  <2> HIDE DEF received
  <2>1. \/ Send(Platform, seller, received) /\ UNCHANGED faults
        \/ SendFails(Platform, seller, received)
    BY DEF PaySeller, received
  <2> QED
    BY <1>3, <1>4, <2>1, SendType, SendFailsType DEF Inv, TypeOK
<1>6. payouts' \in Nat /\ payouts' >= payouts
  BY DEF PaySeller, Inv, TypeOK
<1>7. deliveries' <= payouts'
  BY <1>6 DEF PaySeller, Inv, TypeOK, PaidBeforeDelivery
<1>8. Send(Platform, seller, received) => deliveries' < payouts'
  <2> SUFFICES ASSUME Send(Platform, seller, received) PROVE deliveries' < payouts'
    OBVIOUS
  <2>1. wallet'[Platform] = wallet[Platform] - received
    BY <1>3, <1>4 DEF Send, Inv, TypeOK
  <2>2. wallet[Platform] \in Int
    BY <1>4 DEF Inv, TypeOK
  <2>3. wallet' # wallet
    BY <1>3, <2>1, <2>2
  <2> QED
    BY <2>3 DEF PaySeller, Inv, TypeOK, PaidBeforeDelivery
<1>9. /\ EnderOK' /\ job' \in [state: JobState, runs: Nat, stalled: BOOLEAN]
      /\ ender'.pc # "idle" \/ job'.state # "none" => seller' # Nobody
  <2>1. CASE Send(Platform, seller, received) /\ EndGoto("sendToken")
    BY <1>2, <1>8, <2>1, EnderStep DEF PaySeller, document, EnderPC
  <2>2. CASE JobFails
    BY <2>2, FailStep DEF PaySeller, document
  <2> QED
    BY <2>1, <2>2 DEF PaySeller
<1>10. TypeOK'
  BY <1>1, <1>5, <1>6, <1>9 DEF Inv, TypeOK, EnderOK, PaySeller, document
<1> QED
  BY <1>1, <1>7, <1>9, <1>10 DEF Inv, HasDocument, PaidBeforeDelivery, PaySeller, document

\* The token goes to the last bidder: the seller was paid before.
LEMMA DeliverTokenInv ==
  ASSUME Inv, DeliverToken
  PROVE  Inv'
<1> DEFINE winner == ender.seen.bidder
<1>1. /\ calls' \in [Calls -> Frame] /\ \A c \in Calls : FrameOK(calls'[c])
      /\ \A c \in Calls : calls'[c].pc = "addJob" => seller' # Nobody
  BY CallsStay DEF DeliverToken, document
<1>2. winner \in Accounts
  BY LotFields DEF Inv, EnderOK, LotOK, DeliverToken, Accounts
<1>3. holder' \in Accounts /\ faults' \in 0..MaxFaults
  BY <1>2, SendTokenFailsType DEF DeliverToken, SendToken, Inv, TypeOK
<1>4. deliveries' \in Nat /\ deliveries' <= payouts'
  BY DEF DeliverToken, Inv, TypeOK, EnderOK, PaidBeforeDelivery
<1>5. /\ EnderOK' /\ job' \in [state: JobState, runs: Nat, stalled: BOOLEAN]
      /\ ender'.pc # "idle" \/ job'.state # "none" => seller' # Nobody
  BY EnderStep, FailStep DEF DeliverToken, document, EnderPC
<1>6. TypeOK'
  BY <1>1, <1>3, <1>4, <1>5 DEF Inv, TypeOK, EnderOK, DeliverToken, document
<1> QED
  BY <1>1, <1>4, <1>5, <1>6 DEF Inv, HasDocument, PaidBeforeDelivery, DeliverToken, document

\* Without a bid the token goes back to the seller.
LEMMA ReturnTokenInv ==
  ASSUME Inv, ReturnToken
  PROVE  Inv'
<1>1. /\ calls' \in [Calls -> Frame] /\ \A c \in Calls : FrameOK(calls'[c])
      /\ \A c \in Calls : calls'[c].pc = "addJob" => seller' # Nobody
  BY CallsStay DEF ReturnToken, document
<1>2. seller \in Accounts
  BY DEF Inv, TypeOK, HasDocument, ReturnToken, Accounts
<1>3. holder' \in Accounts /\ faults' \in 0..MaxFaults
  BY <1>2, SendTokenFailsType DEF ReturnToken, SendToken, Inv, TypeOK
<1>4. /\ EnderOK' /\ job' \in [state: JobState, runs: Nat, stalled: BOOLEAN]
      /\ ender'.pc # "idle" \/ job'.state # "none" => seller' # Nobody
  BY EnderStep, FailStep DEF ReturnToken, document, EnderPC
<1>5. TypeOK'
  BY <1>1, <1>3, <1>4 DEF Inv, TypeOK, EnderOK, ReturnToken, document, history
<1> QED
  BY <1>1, <1>4, <1>5
     DEF Inv, HasDocument, PaidBeforeDelivery, ReturnToken, document, history

\* The parties are told that the auction ended.
LEMMA NotifyEndInv ==
  ASSUME Inv, NotifyEnd
  PROVE  Inv'
<1>1. /\ calls' \in [Calls -> Frame] /\ \A c \in Calls : FrameOK(calls'[c])
      /\ \A c \in Calls : calls'[c].pc = "addJob" => seller' # Nobody
  BY CallsStay DEF NotifyEnd, document
<1>2. faults' \in 0..MaxFaults
  BY FaultType DEF NotifyEnd, Inv, TypeOK
<1>3. /\ EnderOK' /\ job' \in [state: JobState, runs: Nat, stalled: BOOLEAN]
      /\ ender'.pc # "idle" \/ job'.state # "none" => seller' # Nobody
  BY EnderStep, FailStep DEF NotifyEnd, document, EnderPC
<1>4. TypeOK'
  BY <1>1, <1>2, <1>3 DEF Inv, TypeOK, EnderOK, NotifyEnd, chain, document, history
<1> QED
  BY <1>1, <1>3, <1>4
     DEF Inv, HasDocument, PaidBeforeDelivery, NotifyEnd, document, history

\* endAuction saves the ended document and completes.
LEMMA MarkEndedInv ==
  ASSUME Inv, MarkEnded
  PROVE  Inv'
<1>1. /\ calls' \in [Calls -> Frame] /\ \A c \in Calls : FrameOK(calls'[c])
      /\ \A c \in Calls : calls'[c].pc = "addJob" => seller' # Nobody
  BY CallsStay DEF MarkEnded
<1>2. faults' \in 0..MaxFaults /\ isEnded' \in BOOLEAN
  <2>1. faults' \in 0..MaxFaults
    BY FaultType DEF MarkEnded, Inv, TypeOK
  <2>2. isEnded' \in BOOLEAN
    BY DEF MarkEnded, Inv, TypeOK
  <2> QED
    BY <2>1, <2>2
<1>3. /\ EnderOK' /\ job' \in [state: JobState, runs: Nat, stalled: BOOLEAN]
      /\ ender'.pc # "idle" \/ job'.state # "none" => seller' # Nobody
  <2>1. CASE JobFails
    BY <2>1, FailStep DEF MarkEnded
  <2>2. CASE ender' = IdleEnder /\ job' = [job EXCEPT !.state = "completed"]
    <3>1. job' \in [state: JobState, runs: Nat, stalled: BOOLEAN]
      BY <2>2 DEF Inv, TypeOK, JobState
    <3>2. seller' # Nobody
      BY DEF Inv, HasDocument, MarkEnded
    <3>3. EnderOK'
      BY <2>2, NoLotOK DEF IdleEnder, EnderOK, EnderPC, LotOK
    <3> QED
      BY <3>1, <3>2, <3>3
  <2> QED
    BY <2>1, <2>2 DEF MarkEnded
<1>4. TypeOK'
  BY <1>1, <1>2, <1>3 DEF Inv, TypeOK, EnderOK, MarkEnded, chain, history
<1> QED
  BY <1>1, <1>3, <1>4 DEF Inv, HasDocument, PaidBeforeDelivery, MarkEnded, history

\* The process dies: the frames are gone, the document and the money stay.
LEMMA CrashInv ==
  ASSUME Inv, Crash
  PROVE  Inv'
<1>1. calls' \in [Calls -> Frame] /\ \A c \in Calls : FrameOK(calls'[c])
  BY IdleOK DEF Crash, FrameOK
<1>2. \A c \in Calls : calls'[c].pc # "addJob"
  BY DEF Crash, IdleFrame
<1>3. crashes' \in 0..MaxCrashes
  BY DEF Crash, Inv, TypeOK
<1>4. job' \in [state: JobState, runs: Nat, stalled: BOOLEAN]
  <2>1. job \in [state: JobState, runs: Nat, stalled: BOOLEAN]
    BY DEF Inv, TypeOK
  <2>2. \/ job' = job
        \/ job' = [job EXCEPT !.state = "failed", !.stalled = TRUE]
        \/ job' = [job EXCEPT !.state = "waiting", !.stalled = TRUE]
    BY DEF Crash
  <2> QED
    BY <2>1, <2>2 DEF JobState
<1>5. job'.state # "none" => seller' # Nobody
  BY DEF Crash, Inv, HasDocument, document
<1>6. EnderOK'
  BY NoLotOK DEF Crash, IdleEnder, EnderOK, EnderPC, LotOK
<1>7. HasDocument'
  BY <1>2, <1>5 DEF HasDocument, Crash, IdleEnder
<1>8. TypeOK'
  BY <1>1, <1>3, <1>4, <1>6 DEF Inv, TypeOK, EnderOK, Crash, chain, document, history
<1> QED
  BY <1>1, <1>6, <1>7, <1>8 DEF Inv, PaidBeforeDelivery, Crash, document, history

-----------------------------------------------------------------------------
(* The theorems                                                             *)

\* Every step of the handlers, the queue and the process preserves Inv.
LEMMA InvNext == Inv /\ [Next]_vars => Inv'
<1> SUFFICES ASSUME Inv, [Next]_vars PROVE Inv'
  OBVIOUS
<1>1. ASSUME NEW c \in Calls, Serve(c) PROVE Inv'
  BY <1>1, DealInv, SaveAuctionInv, AddJobInv, GiveBackInv, ReadAuctionInv, PayInv,
     RefundOldInv, NotifyOldInv, RefundNewInv, SaveBidInv DEF Serve
<1>2. ASSUME NEW c \in Calls, NEW u \in Users, StartAuction(c, u) PROVE Inv'
  BY <1>2, StartAuctionInv
<1>3. ASSUME NEW c \in Calls, NEW u \in Users, NEW b \in Bids, Bid(c, u, b) PROVE Inv'
  BY <1>3, BidInv
<1>4. CASE Expire \/ PromoteJob \/ StartJob \/ RetryJob
  BY <1>4, QueueInv
<1>5. CASE EndAuction
  BY <1>5, ReadEndInv, PaySellerInv, DeliverTokenInv, ReturnTokenInv, NotifyEndInv,
     MarkEndedInv DEF EndAuction
<1>6. CASE Crash
  BY <1>6, CrashInv
<1>7. CASE UNCHANGED vars
  BY <1>7 DEF vars, Inv, TypeOK, EnderOK, HasDocument, PaidBeforeDelivery
<1> QED
  BY <1>1, <1>2, <1>3, <1>4, <1>5, <1>6, <1>7 DEF Next

\* Inv is an invariant of the auction: it holds at first, and every await of every
\* handler, every failure and every restart preserves it.
THEOREM Invariance == Spec => []Inv
<1> QED
  BY InvInit, InvNext, PTL DEF Spec

\* The variables of the auction keep their types: in particular a call never
\* acts for nobody, and the token never goes to an account that does not exist.
THEOREM TypeCorrect == Spec => []TypeOK
<1>1. Inv => TypeOK
  BY DEF Inv
<1> QED
  BY <1>1, Invariance, PTL

\* However bids, failures and restarts interleave, the bids that the document
\* records strictly increase and exceed startBid.
THEOREM BidsAlwaysIncrease == Spec => []BidsIncrease
<1>1. Inv => BidsIncrease
  BY DEF Inv, LotOK, Rising, BidsIncrease
<1> QED
  BY <1>1, Invariance, PTL

\* The token does not go to a winner more often than the seller was paid, however
\* often endAuction fails, is interrupted or is retried.
THEOREM PaymentPrecedesDelivery == Spec => []PaidBeforeDelivery
<1>1. Inv => PaidBeforeDelivery
  BY DEF Inv
<1> QED
  BY <1>1, Invariance, PTL

(***************************************************************************)
(* Who counts on the token: Custody.                                       *)
(***************************************************************************)
-----------------------------------------------------------------------------
(* The inductive invariant                                                  *)

\* endAuction runs while its job is active, and a job that left the waiting
\* list has been run.
Working ==
  /\ ender.pc # "idle" => job.state = "active"
  /\ job.state \in {"active", "completed", "failed"} => job.runs >= 1

\* One call at most is about to add the job, and there is none yet.  This rests
\* on the unique tokenId of the documents.
OneAdder ==
  /\ \A c \in Calls : calls[c].pc = "addJob" => job.state = "none"
  /\ \A c, d \in Calls : calls[c].pc = "addJob" /\ calls[d].pc = "addJob" => c = d

CustodyInv == Inv /\ Working /\ OneAdder /\ Custody

-----------------------------------------------------------------------------
(* Frames and keepers                                                       *)

\* A call counts on the token exactly between the deal and its end.
LEMMA KeeperPC ==
  ASSUME NEW c \in Calls
  PROVE  c \in Keepers <=> calls[c].pc \in {"save", "addJob", "giveBack"}
  BY DEF Keepers

\* A step of one call that neither takes nor keeps the token, and leaves the
\* token, the job and endAuction alone.
LEMMA BystanderStep ==
  ASSUME CustodyInv, NEW c \in Calls,
         calls[c].pc \notin {"save", "addJob", "giveBack"},
         calls'[c].pc \notin {"save", "addJob", "giveBack"},
         \A d \in Calls \ {c} : calls'[d] = calls[d],
         UNCHANGED <<holder, job, ender>>
  PROVE  Working' /\ OneAdder' /\ Custody'
<1>1. Keepers' = Keepers
  BY DEF Keepers
<1>2. JobKeeps' = JobKeeps
  BY DEF JobKeeps
<1> QED
  BY <1>1, <1>2 DEF CustodyInv, Working, OneAdder, Custody

\* The steps of a bid concern neither the token nor the job.
LEMMA BidderStep ==
  ASSUME CustodyInv, NEW c \in Calls,
         \/ \E u \in Users : StartAuction(c, u)
         \/ \E u \in Users, b \in Bids : Bid(c, u, b)
         \/ ReadAuction(c) \/ Pay(c) \/ RefundOld(c) \/ NotifyOld(c)
         \/ RefundNew(c) \/ SaveBid(c)
  PROVE  Working' /\ OneAdder' /\ Custody'
<1>1. calls[c].pc \notin {"save", "addJob", "giveBack"}
  BY DEF StartAuction, Bid, ReadAuction, Pay, RefundOld, NotifyOld, RefundNew, SaveBid
<1>2. UNCHANGED <<holder, job, ender>>
  BY DEF StartAuction, Bid, ReadAuction, Pay, RefundOld, NotifyOld, RefundNew, SaveBid,
         chain
<1>3. calls \in [Calls -> Frame]
  BY DEF CustodyInv, Inv, TypeOK
<1>4. /\ calls'[c].pc \notin {"save", "addJob", "giveBack"}
      /\ \A d \in Calls \ {c} : calls'[d] = calls[d]
  <2>1. CASE \E u \in Users : StartAuction(c, u)
    BY <1>3, <2>1 DEF StartAuction, IdleFrame
  <2>2. CASE \E u \in Users, b \in Bids : Bid(c, u, b)
    BY <1>3, <2>2 DEF Bid
  <2>3. CASE ReadAuction(c)
    BY <1>3, <2>3 DEF ReadAuction, IdleFrame, Frame
  <2>4. CASE Pay(c) \/ RefundOld(c) \/ NotifyOld(c) \/ RefundNew(c) \/ SaveBid(c)
    BY <1>3, <2>4 DEF Pay, RefundOld, NotifyOld, RefundNew, SaveBid, Goto, Return,
                      IdleFrame, Frame
  <2> QED
    BY <2>1, <2>2, <2>3, <2>4
<1> QED
  BY <1>1, <1>2, <1>4, BystanderStep

-----------------------------------------------------------------------------
(* The calls that hold the token                                            *)

\* Taking the token: its holder was a user, so nobody counted on it.
LEMMA DealCustody ==
  ASSUME CustodyInv, NEW c \in Calls, Deal(c)
  PROVE  Working' /\ OneAdder' /\ Custody'
<1>1. calls'[c].pc \in {"save", "idle"} /\ \A d \in Calls \ {c} : calls'[d] = calls[d]
  BY DEF CustodyInv, Inv, TypeOK, Deal, Goto, Return, IdleFrame, Frame
<1>2. UNCHANGED <<job, ender>>
  BY DEF Deal
<1>3. Working' /\ OneAdder' /\ JobKeeps' = JobKeeps
  BY <1>1, <1>2 DEF CustodyInv, Working, OneAdder, JobKeeps
<1>4. calls[c].user \in Users /\ calls[c].user # Platform
  BY DEF CustodyInv, Inv, FrameOK, Deal
<1>5. CASE holder' = holder
  <2>1. Keepers' = Keepers
    BY <1>1, <1>4, <1>5 DEF Deal, SendToken, Keepers, Goto, CustodyInv, Inv, TypeOK, Return,
                            IdleFrame
  <2> QED
    BY <1>2, <1>3, <1>5, <2>1 DEF CustodyInv, Custody
<1>6. CASE holder' # holder
  <2>1. holder # Platform /\ holder' = Platform
    BY <1>4, <1>6 DEF Deal, SendToken, SendTokenFails
  <2>2. job.runs <= 1 => Keepers = {} /\ ~JobKeeps
    BY <2>1 DEF CustodyInv, Custody
  <2>3. \A d \in Keepers' : d = c \/ d \in Keepers
    BY <1>1 DEF Keepers
  <2> QED
    BY <1>2, <1>3, <2>1, <2>2, <2>3 DEF Custody
<1> QED
  BY <1>3, <1>5, <1>6

\* Saving the document keeps the interest of the call in the token.
LEMMA SaveAuctionCustody ==
  ASSUME CustodyInv, NEW c \in Calls, SaveAuction(c)
  PROVE  Working' /\ OneAdder' /\ Custody'
<1>1. calls'[c].pc \in {"addJob", "giveBack"} /\ \A d \in Calls \ {c} : calls'[d] = calls[d]
  BY DEF CustodyInv, Inv, TypeOK, SaveAuction, Goto, Frame
<1>2. UNCHANGED <<holder, job, ender>>
  BY DEF SaveAuction, chain
<1>3. Working' /\ JobKeeps' = JobKeeps
  BY <1>2 DEF CustodyInv, Working, JobKeeps
<1>4. Keepers' = Keepers
  BY <1>1 DEF Keepers, SaveAuction
<1>5. Custody'
  BY <1>2, <1>3, <1>4 DEF CustodyInv, Custody
<1>6. calls'[c].pc = "addJob" => seller = Nobody
  BY DEF CustodyInv, Inv, TypeOK, SaveAuction, Goto, Frame
<1>7. calls'[c].pc = "addJob" =>
        job.state = "none" /\ \A d \in Calls : calls[d].pc # "addJob"
  BY <1>6 DEF CustodyInv, Inv, HasDocument
<1>8. OneAdder'
  BY <1>1, <1>2, <1>7 DEF CustodyInv, OneAdder
<1> QED
  BY <1>3, <1>5, <1>8

\* The call hands its interest in the token over to the job.
LEMMA AddJobCustody ==
  ASSUME CustodyInv, NEW c \in Calls, AddJob(c)
  PROVE  Working' /\ OneAdder' /\ Custody'
<1>1. calls[c].pc = "addJob" /\ c \in Keepers /\ job.state = "none"
  BY DEF CustodyInv, OneAdder, AddJob, Keepers
<1>2. ender.pc = "idle" /\ UNCHANGED <<holder, ender>>
  BY <1>1 DEF CustodyInv, Working, AddJob, chain
<1>3. calls'[c].pc \in {"idle", "giveBack"} /\ \A d \in Calls \ {c} : calls'[d] = calls[d]
  BY DEF CustodyInv, Inv, TypeOK, AddJob, Goto, Return, IdleFrame, Frame
<1>4. \A d \in Calls : calls'[d].pc # "addJob"
  BY <1>1, <1>3 DEF CustodyInv, OneAdder
<1>5. Keepers' \subseteq Keepers
  BY <1>1, <1>3 DEF Keepers
<1>6. job.runs <= 1 => Keepers = {c} /\ ~JobKeeps /\ holder = Platform
  BY <1>1 DEF CustodyInv, Custody
<1>7. CASE Return(c) /\ job' = [job EXCEPT !.state = "delayed"]
  <2>1. calls'[c].pc = "idle"
    BY <1>7 DEF Return, IdleFrame, CustodyInv, Inv, TypeOK
  <2>2. job'.state = "delayed" /\ job'.runs = job.runs
    BY <1>7 DEF CustodyInv, Inv, TypeOK
  <2>3. job.runs <= 1 => Keepers' = {}
    BY <1>5, <1>6, <2>1 DEF Keepers
  <2> QED
    BY <1>2, <1>4, <1>6, <2>2, <2>3 DEF Working, OneAdder, Custody
<1>8. CASE UNCHANGED job
  <2>1. JobKeeps' = JobKeeps /\ Working'
    BY <1>2, <1>8 DEF JobKeeps, Working, CustodyInv
  <2> QED
    BY <1>2, <1>4, <1>5, <1>6, <1>8, <2>1 DEF OneAdder, Custody
<1> QED
  BY <1>7, <1>8 DEF AddJob

\* The catch block gives the token back and the call is over.
LEMMA GiveBackCustody ==
  ASSUME CustodyInv, NEW c \in Calls, GiveBack(c)
  PROVE  Working' /\ OneAdder' /\ Custody'
<1>1. c \in Keepers
  BY DEF GiveBack, Keepers
<1>2. calls'[c].pc = "idle" /\ \A d \in Calls \ {c} : calls'[d] = calls[d]
  BY DEF CustodyInv, Inv, TypeOK, GiveBack, Return, IdleFrame
<1>3. UNCHANGED <<job, ender>>
  BY DEF GiveBack
<1>4. Working' /\ OneAdder' /\ JobKeeps' = JobKeeps
  BY <1>2, <1>3 DEF CustodyInv, Working, OneAdder, JobKeeps
<1>5. Keepers' = Keepers \ {c}
  BY <1>2 DEF Keepers
<1>6. job.runs <= 1 => Keepers = {c} /\ ~JobKeeps
  BY <1>1 DEF CustodyInv, Custody
<1>7. Custody'
  BY <1>3, <1>4, <1>5, <1>6 DEF Custody
<1> QED
  BY <1>4, <1>7

-----------------------------------------------------------------------------
(* The job and endAuction                                                   *)

\* Steps that leave the calls alone leave the same calls counting on the token.
LEMMA KeepersStay ==
  ASSUME UNCHANGED calls
  PROVE  Keepers' = Keepers
  BY DEF Keepers

\* A step of the queue or of endAuction that leaves the token where it is, and
\* after which the job counts on the token only if it did before.
LEMMA JobStep ==
  ASSUME CustodyInv, UNCHANGED <<holder, calls>>, Working',
         job'.runs \in Nat, job.runs <= job'.runs,
         job.state # "none" => job'.state # "none",
         job.state = "none" => job'.state = "none",
         job'.runs <= 1 => (JobKeeps' => JobKeeps)
  PROVE  Working' /\ OneAdder' /\ Custody'
<1>1. job.runs \in Nat
  BY DEF CustodyInv, Inv, TypeOK
<1>2. OneAdder'
  BY DEF CustodyInv, OneAdder
<1>3. Custody'
  BY <1>1, KeepersStay DEF CustodyInv, Custody
<1> QED
  BY <1>2, <1>3

\* Steps of the clock and of Bull.
LEMMA QueueCustody ==
  ASSUME CustodyInv, Expire \/ PromoteJob \/ StartJob \/ RetryJob
  PROVE  Working' /\ OneAdder' /\ Custody'
<1>1. job \in [state: JobState, runs: Nat, stalled: BOOLEAN]
  BY DEF CustodyInv, Inv, TypeOK
<1>2. CASE Expire
  BY <1>1, <1>2, JobStep DEF Expire, chain, Working, JobKeeps, CustodyInv
<1>3. CASE PromoteJob
  <2>1. /\ job'.state = "waiting" /\ job'.runs = job.runs /\ job.state = "delayed"
        /\ UNCHANGED <<holder, calls, ender>>
    BY <1>1, <1>3 DEF PromoteJob, chain
  <2> QED
    BY <1>1, <2>1, JobStep DEF Working, JobKeeps, CustodyInv
<1>4. CASE StartJob
  <2>1. /\ job'.state = "active" /\ job'.runs = job.runs + 1 /\ job.state = "waiting"
        /\ ender'.pc = "read" /\ UNCHANGED <<holder, calls>>
    BY <1>1, <1>4 DEF StartJob, chain, IdleEnder
  <2> QED
    BY <1>1, <2>1, JobStep DEF Working, JobKeeps, CustodyInv
<1>5. CASE RetryJob
  <2>1. /\ job'.state = "waiting" /\ job'.runs = job.runs /\ job.state = "failed"
        /\ UNCHANGED <<holder, calls, ender>>
    BY <1>1, <1>5 DEF RetryJob, chain
  <2> QED
    BY <1>1, <2>1, JobStep DEF Working, JobKeeps, CustodyInv
<1> QED
  BY <1>2, <1>3, <1>4, <1>5

\* The ways in which a step of endAuction leaves its job.
LEMMA EnderPhases ==
  ASSUME CustodyInv, EndAuction
  PROVE  /\ job.state = "active" /\ job.runs >= 1 /\ job'.runs = job.runs
         /\ \/ job' = job
            \/ job'.state \in {"failed", "completed"} /\ ender' = IdleEnder
         /\ UNCHANGED calls
<1>1. job.state = "active" /\ job.runs >= 1 /\ job \in [state: JobState, runs: Nat, stalled: BOOLEAN]
  BY DEF CustodyInv, Working, Inv, TypeOK, EndAuction, ReadEnd, PaySeller, DeliverToken,
         ReturnToken, NotifyEnd, MarkEnded
<1>2. UNCHANGED calls
  BY DEF EndAuction, ReadEnd, PaySeller, DeliverToken, ReturnToken, NotifyEnd, MarkEnded
<1>3. \/ UNCHANGED job
      \/ JobFails
      \/ ender' = IdleEnder /\ job' = [job EXCEPT !.state = "completed"]
  BY DEF EndAuction, ReadEnd, PaySeller, DeliverToken, ReturnToken, NotifyEnd, MarkEnded,
         EndGoto
<1> QED
  BY <1>1, <1>2, <1>3 DEF JobFails

\* Steps of endAuction that leave the token alone never start to count on it.
LEMMA EnderKeeps ==
  ASSUME CustodyInv, EndAuction, UNCHANGED holder,
         job' = job => (JobKeeps' => JobKeeps)
  PROVE  Working' /\ OneAdder' /\ Custody'
<1>1. job.runs \in Nat
  BY DEF CustodyInv, Inv, TypeOK
<1>2. CASE job' = job
  <2>1. Working'
    BY <1>2, EnderPhases DEF Working
  <2> QED
    BY <1>1, <1>2, <2>1, EnderPhases, JobStep
<1>3. CASE job'.state \in {"failed", "completed"} /\ ender' = IdleEnder
  <2>1. Working' /\ ~JobKeeps'
    BY <1>3, EnderPhases DEF Working, JobKeeps, IdleEnder
  <2> QED
    BY <1>1, <1>3, <2>1, EnderPhases, JobStep
<1> QED
  BY <1>2, <1>3, EnderPhases

\* The token leaves the platform: nobody counted on it but this run.
LEMMA TokenLeaves ==
  ASSUME CustodyInv, EndAuction, ender.pc \in {"sendToken", "returnToken"},
         job' = job => ender'.pc \notin {"read", "paySeller", "sendToken", "returnToken"}
  PROVE  Working' /\ OneAdder' /\ Custody'
<1>1. JobKeeps' => FALSE
  BY EnderPhases DEF JobKeeps, IdleEnder
<1>2. job.runs \in Nat /\ (job.runs <= 1 => Keepers = {})
  BY EnderPhases DEF CustodyInv, Inv, TypeOK, Custody, JobKeeps
<1>3. Custody'
  BY <1>1, <1>2, EnderPhases, KeepersStay DEF Custody
<1>4. Working'
  BY EnderPhases DEF Working, IdleEnder
<1>5. OneAdder'
  BY EnderPhases DEF CustodyInv, OneAdder
<1> QED
  BY <1>3, <1>4, <1>5

\* Every step of endAuction.
LEMMA EndAuctionCustody ==
  ASSUME CustodyInv, EndAuction
  PROVE  Working' /\ OneAdder' /\ Custody'
<1>1. ender \in [pc: EnderPC, seen: Lot]
  BY DEF CustodyInv, Inv, TypeOK
<1>2. CASE ReadEnd
  BY <1>2, EnderKeeps DEF ReadEnd, chain, JobKeeps, JobFails
<1>3. CASE PaySeller
  BY <1>1, <1>3, EnderKeeps DEF PaySeller, JobKeeps, EndGoto, JobFails, IdleEnder
<1>4. CASE DeliverToken
  <2>1. job' = job => ender'.pc \notin {"read", "paySeller", "sendToken", "returnToken"}
    BY <1>1, <1>4 DEF DeliverToken, EndGoto, JobFails, IdleEnder
  <2> QED
    BY <1>4, <2>1, TokenLeaves DEF DeliverToken
<1>5. CASE ReturnToken
  <2>1. job' = job => ender'.pc \notin {"read", "paySeller", "sendToken", "returnToken"}
    BY <1>1, <1>5 DEF ReturnToken, EndGoto, JobFails, IdleEnder
  <2> QED
    BY <1>5, <2>1, TokenLeaves DEF ReturnToken
<1>6. CASE NotifyEnd
  BY <1>1, <1>6, EnderKeeps DEF NotifyEnd, chain, JobKeeps, EndGoto, JobFails, IdleEnder
<1>7. CASE MarkEnded
  BY <1>1, <1>7, EnderKeeps DEF MarkEnded, chain, JobKeeps, JobFails, IdleEnder
<1> QED
  BY <1>2, <1>3, <1>4, <1>5, <1>6, <1>7 DEF EndAuction

\* The process dies: no call counts on the token any more.
LEMMA CrashCustody ==
  ASSUME CustodyInv, Crash
  PROVE  Working' /\ OneAdder' /\ Custody'
<1>1. job \in [state: JobState, runs: Nat, stalled: BOOLEAN]
  BY DEF CustodyInv, Inv, TypeOK
<1>2. Keepers' = {} /\ OneAdder'
  BY DEF Crash, Keepers, OneAdder, IdleFrame
<1>3. /\ ender'.pc = "idle" /\ job'.runs = job.runs /\ UNCHANGED holder
      /\ \/ job' = job /\ job.state # "active"
         \/ job.state = "active" /\ job'.state \in {"waiting", "failed"}
  <2>1. CASE job.state = "active" /\ job.stalled
    BY <1>1, <2>1 DEF Crash, IdleEnder, chain
  <2>2. CASE job.state = "active" /\ ~job.stalled
    BY <1>1, <2>2 DEF Crash, IdleEnder, chain
  <2>3. CASE job.state # "active"
    BY <1>1, <2>3 DEF Crash, IdleEnder, chain
  <2> QED
    BY <2>1, <2>2, <2>3
<1>4. Working'
  BY <1>3 DEF CustodyInv, Working
<1>5. JobKeeps' => JobKeeps
  BY <1>1, <1>3 DEF CustodyInv, Working, JobKeeps
<1>6. Custody'
  BY <1>2, <1>3, <1>5 DEF CustodyInv, Custody
<1> QED
  BY <1>2, <1>4, <1>6

-----------------------------------------------------------------------------
(* The theorem                                                              *)

\* Nobody counts on the token before the auction is created.
LEMMA CustodyInit == Init => CustodyInv
  BY InvInit DEF Init, CustodyInv, Working, OneAdder, Custody, Keepers, JobKeeps,
                 IdleFrame, IdleEnder

\* Every step preserves the custody invariant.
LEMMA CustodyNext == CustodyInv /\ [Next]_vars => CustodyInv'
<1> SUFFICES ASSUME CustodyInv, [Next]_vars PROVE Working' /\ OneAdder' /\ Custody'
  BY InvNext DEF CustodyInv
<1>1. ASSUME NEW c \in Calls, Serve(c) PROVE Working' /\ OneAdder' /\ Custody'
  BY <1>1, BidderStep, DealCustody, SaveAuctionCustody, AddJobCustody, GiveBackCustody
     DEF Serve
<1>2. ASSUME NEW c \in Calls, NEW u \in Users, StartAuction(c, u)
      PROVE  Working' /\ OneAdder' /\ Custody'
  BY <1>2, BidderStep
<1>3. ASSUME NEW c \in Calls, NEW u \in Users, NEW b \in Bids, Bid(c, u, b)
      PROVE  Working' /\ OneAdder' /\ Custody'
  BY <1>3, BidderStep
<1>4. CASE Expire \/ PromoteJob \/ StartJob \/ RetryJob
  BY <1>4, QueueCustody
<1>5. CASE EndAuction
  BY <1>5, EndAuctionCustody
<1>6. CASE Crash
  BY <1>6, CrashCustody
<1>7. CASE UNCHANGED vars
  BY <1>7 DEF vars, CustodyInv, Working, OneAdder, Custody, Keepers, JobKeeps
<1> QED
  BY <1>1, <1>2, <1>3, <1>4, <1>5, <1>6, <1>7 DEF Next

\* Until endAuction has run twice, at most one party counts on the token, and the
\* platform holds it while one does: no seller's call can take or return a token
\* under an armed auction, or under the first run of its end.
THEOREM CustodyHolds == Spec => []Custody
<1>1. CustodyInv => Custody
  BY DEF CustodyInv
<1> QED
  BY <1>1, CustodyInit, CustodyNext, PTL DEF Spec

(***************************************************************************)
(* The books: ClosedBooks.  The error of an account is what its wallet     *)
(* holds beyond the document, the run of endAuction and the calls in       *)
(* flight.  Every step moves a wallet and one of the others alike, or is   *)
(* charged as a failure or a further run, which allow for a bid each.      *)
(***************************************************************************)
-----------------------------------------------------------------------------
(* What is booked and what is in flight                                     *)

\* The largest bid.
Most == CHOOSE most \in Bids : \A bid \in Bids : bid <= most

\* What a call of bid has taken from its bidder, and paid back to the bidder of
\* its snapshot.
Taken(f) == IF f.pc \in {"refundOld", "notify", "refundNew", "saveBid"} THEN f.bid ELSE 0
Repaid(f) == IF f.pc \in {"notify", "saveBid"} THEN f.seen.bid ELSE 0

\* By how much the call has moved the wallet of an account.
Moved(f, a) ==
  IF a = Platform THEN Taken(f) - Repaid(f)
  ELSE (IF a = f.seen.bidder THEN Repaid(f) ELSE 0) - (IF a = f.user THEN Taken(f) ELSE 0)

MovedBy(a) == [c \in Calls |-> Moved(calls[c], a)]
InFlight(a) == SumFunctionOnSet(MovedBy(a), Calls)

\* What a run of endAuction that goes on has paid to the seller.
Payout == IF ender.pc \in {"sendToken", "noteBuyer", "noteSeller", "noteUnsold", "mark"}
          THEN ender.seen.bid - Tax(ender.seen.bid) ELSE 0
PaidOut(a) == IF a = Platform THEN 0 - Payout ELSE IF a = seller THEN Payout ELSE 0

\* What the document says that an account has more, or less, than at first.
Booked(a) == IF a = Platform THEN Held ELSE Earned(a) - Spent(a)

\* What the wallet of an account holds beyond what the books and the calls in flight
\* account for.
Error(a) == wallet[a] - Funds - Booked(a) - PaidOut(a) - InFlight(a)

\* The failures and repeated runs that may cost a bid each; the run that goes on has
\* not cost one yet.
Cost == faults + IF job.runs > 1 THEN job.runs - 1 ELSE 0
Charged == IF ender.pc # "idle" /\ job.runs > 1 THEN Cost - 1 ELSE Cost

-----------------------------------------------------------------------------
(* The inductive invariant                                                  *)

\* What ClosedBooks supposes.
Clean == ~raced /\ crashes = 0

\* A run that has read the document goes on knowing it, and the job shows how far the
\* end of the auction is.
EndKnown ==
  /\ ender.pc \notin {"idle", "read"} => ender.seen = lot
  /\ ender.pc = "returnToken" => lot.bid = 0
  /\ ender.pc # "idle" <=> job.state = "active"
  /\ isEnded <=> job.state = "completed"

\* The platform is off by one bid for each failure and each further run.
Bounded == -(Charged * Most) <= Error(Platform) /\ Error(Platform) <= Charged * Most

\* Nothing has failed: the users' books are exact, and the job runs once.
Exact ==
  /\ \A u \in Users : Error(u) = 0
  /\ \A c \in Calls : calls[c].pc # "refundNew"
  /\ job.state # "failed"
  /\ job.runs = IF job.state \in {"active", "completed"} THEN 1 ELSE 0

\* Nothing has failed: a document gets its job, and once the token has been sent, whoever
\* holds it is the winner, or sells it in vain.
Winning == IF lot.bidder = Nobody THEN seller ELSE lot.bidder
Sent == isEnded \/ ender.pc \in {"noteBuyer", "noteSeller", "noteUnsold", "mark"}
Delivered ==
  /\ seller # Nobody /\ job.state = "none" => \E c \in Calls : calls[c].pc = "addJob"
  /\ Sent => /\ Keepers = {} => holder = Winning
             /\ \A c \in Keepers : calls[c].user = Winning

BooksInv ==
  Clean => /\ EndKnown
           /\ Bounded
           /\ faults = 0 => Exact /\ Delivered

-----------------------------------------------------------------------------
(* Amounts                                                                  *)

\* No bid, and no field that holds one, exceeds the largest.
LEMMA MostLargest == Most \in Nat /\ \A b \in Bids \cup {0} : b \in Nat /\ b <= Most
<1>1. Most \in Bids /\ \A b \in Bids : b <= Most
  BY BidsAssumption DEF Most
<1> QED BY <1>1

\* The tax is a part of the bid.
LEMMA TaxPart ==
  ASSUME NEW b \in Nat
  PROVE  Tax(b) \in Nat /\ Tax(b) <= b
  BY DEF Tax

\* A failure, or a further run, allows for one bid more.
LEMMA Charge ==
  ASSUME NEW k \in Nat, NEW n \in Nat, NEW m \in Nat, NEW e \in Int, NEW f \in Int,
         -(k * m) <= e, e <= k * m, k <= n,
         \/ f = e
         \/ k + 1 <= n /\ f - e <= m /\ e - f <= m
         \/ e <= f /\ f <= m /\ k # 0
  PROVE  -(n * m) <= f /\ f <= n * m
<1>1. PICK d \in Nat : n = k + d
  <2>1. n - k \in Nat /\ n = k + (n - k)
    OBVIOUS
  <2> QED BY <2>1
<1>2. n * m = k * m + d * m /\ k * m \in Nat /\ d * m \in Nat
  BY <1>1
<1>3. k + 1 <= n => d * m >= m
  <2> SUFFICES ASSUME k + 1 <= n PROVE d * m >= m
    OBVIOUS
  <2>1. PICK i \in Nat : d = i + 1
    <3>1. d - 1 \in Nat /\ d = (d - 1) + 1
      BY <1>1
    <3> QED BY <3>1
  <2>2. d * m = i * m + m /\ i * m \in Nat
    BY <2>1
  <2> QED BY <2>2
<1>4. k # 0 => k * m >= m
  <2> SUFFICES ASSUME k # 0 PROVE k * m >= m
    OBVIOUS
  <2>1. PICK i \in Nat : k = i + 1
    <3>1. k - 1 \in Nat /\ k = (k - 1) + 1
      OBVIOUS
    <3> QED BY <3>1
  <2>2. k * m = i * m + m /\ i * m \in Nat
    BY <2>1
  <2> QED BY <2>2
<1>5. PICK km, dm, nm : km = k * m /\ dm = d * m /\ nm = n * m
  OBVIOUS
<1>6. km \in Nat /\ dm \in Nat /\ nm = km + dm /\ (k + 1 <= n => dm >= m) /\ (k # 0 => km >= m)
  BY <1>2, <1>3, <1>4, <1>5
<1>7. -km <= e /\ e <= km
  BY <1>5
<1> HIDE <1>2, <1>3, <1>4
<1>8. -nm <= f /\ f <= nm
  <2>1. CASE f = e
    BY <2>1, <1>6, <1>7
  <2>2. CASE k + 1 <= n /\ f - e <= m /\ e - f <= m
    BY <2>2, <1>6, <1>7
  <2>3. CASE e <= f /\ f <= m /\ k # 0
    BY <2>3, <1>6, <1>7
  <2> QED BY <2>1, <2>2, <2>3
<1> QED BY <1>5, <1>8

-----------------------------------------------------------------------------
(* What calls have in flight                                                *)

\* The amounts of a frame, and what it has moved.
LEMMA FrameAmounts ==
  ASSUME NEW f, FrameOK(f)
  PROVE  /\ f.bid \in Nat /\ f.bid <= Most
         /\ f.seen.bid \in Nat /\ f.seen.bid <= Most
         /\ f.pc \in Bidding => f.seen.bid < f.bid
         /\ \A a : Moved(f, a) \in Int
         /\ Moved(f, Platform) >= 0
<1>1. f.bid \in Bids \cup {0} /\ f.seen \in Lot
  BY DEF FrameOK, Frame
<1>2. /\ f.bid \in Nat /\ f.bid <= Most
      /\ f.seen.bid \in Nat /\ f.seen.bid <= Most
  BY <1>1, LotFields, MostLargest
<1>3. f.pc \in Bidding => f.seen.bid < f.bid
  BY <1>2 DEF FrameOK, TooLow
<1>4. Taken(f) \in Nat /\ Repaid(f) \in Nat /\ Repaid(f) <= Taken(f)
  BY <1>2, <1>3 DEF Taken, Repaid, Bidding
<1>5. \A a : Moved(f, a) \in Int
  BY <1>4 DEF Moved
<1>6. Moved(f, Platform) >= 0
  BY <1>4 DEF Moved
<1> QED BY <1>2, <1>3, <1>5, <1>6

\* A frame outside the payments of bid has moved nothing.
LEMMA NothingMoved ==
  ASSUME NEW f, f.pc \notin {"refundOld", "notify", "refundNew", "saveBid"}
  PROVE  \A a : Moved(f, a) = 0
  BY DEF Moved, Taken, Repaid

\* What is in flight is an integer.
LEMMA FlightInt == Inv => \A a : InFlight(a) \in Int
<1> SUFFICES ASSUME Inv, NEW a PROVE InFlight(a) \in Int
  OBVIOUS
<1>1. PICK f : f = MovedBy(a)
  OBVIOUS
<1>2. \A c \in Calls : f[c] \in Int
  BY <1>1, FrameAmounts DEF MovedBy, Inv
<1> QED BY <1>1, <1>2, CallsAssumption, SumInt DEF InFlight

\* The platform has in flight what each of the calls has.
LEMMA FlightCovers ==
  ASSUME Inv
  PROVE  /\ InFlight(Platform) >= 0
         /\ \A c \in Calls : Moved(calls[c], Platform) <= InFlight(Platform)
<1>1. PICK f : f = MovedBy(Platform)
  OBVIOUS
<1>2. \A c \in Calls : f[c] = Moved(calls[c], Platform) /\ f[c] \in Int /\ f[c] >= 0
  BY <1>1, FrameAmounts DEF MovedBy, Inv
<1>3. PICK z : z = [c \in Calls |-> 0]
  OBVIOUS
<1>4. ASSUME NEW S \in SUBSET Calls
      PROVE  0 <= SumFunctionOnSet(f, S) /\ SumFunctionOnSet(f, S) \in Int
  <2>1. IsFiniteSet(S)
    BY CallsAssumption, FS_Subset
  <2>2. \A c \in S : z[c] = 0 /\ z[c] \in Int /\ f[c] \in Int /\ z[c] <= f[c]
    BY <1>2, <1>3
  <2>3. SumFunctionOnSet(z, S) = 0
    BY <2>1, <2>2, SumZero
  <2>4. SumFunctionOnSet(z, S) <= SumFunctionOnSet(f, S)
    BY <2>1, <2>2, SumLeq
  <2>5. SumFunctionOnSet(f, S) \in Int
    BY <2>1, <2>2, SumInt
  <2> QED BY <2>3, <2>4, <2>5
<1>5. ASSUME NEW c \in Calls
      PROVE  Moved(calls[c], Platform) <= InFlight(Platform)
  <2>1. SumFunctionOnSet(f, Calls) = f[c] + SumFunctionOnSet(f, Calls \ {c})
    BY <1>2, CallsAssumption, SumRemove
  <2>2. Calls \ {c} \in SUBSET Calls
    OBVIOUS
  <2>3. 0 <= SumFunctionOnSet(f, Calls \ {c}) /\ SumFunctionOnSet(f, Calls \ {c}) \in Int
    BY <1>4, <2>2
  <2> QED BY <2>1, <2>3, <1>1, <1>2 DEF InFlight
<1> QED BY <1>1, <1>4, <1>5 DEF InFlight

\* A step of one call changes what is in flight by what it has moved.
LEMMA FlightStep ==
  ASSUME Inv, Inv', NEW c \in Calls, \A d \in Calls \ {c} : calls'[d] = calls[d], NEW a
  PROVE  InFlight(a)' = InFlight(a) - Moved(calls[c], a) + Moved(calls'[c], a)
<1>1. PICK f : f = MovedBy(a)
  OBVIOUS
<1>2. PICK g : g = MovedBy(a)'
  OBVIOUS
<1>3. \A d \in Calls : f[d] = Moved(calls[d], a) /\ f[d] \in Int
  BY <1>1, FrameAmounts DEF MovedBy, Inv
<1>4. \A d \in Calls : g[d] = Moved(calls'[d], a) /\ g[d] \in Int
  <2>1. \A d \in Calls : FrameOK(calls'[d])
    BY DEF Inv
  <2> QED BY <2>1, <1>2, FrameAmounts DEF MovedBy
<1>5. \A d \in Calls \ {c} : g[d] = f[d]
  BY <1>3, <1>4
<1>6. SumFunctionOnSet(g, Calls) = SumFunctionOnSet(f, Calls) - f[c] + g[c]
  BY <1>3, <1>4, <1>5, CallsAssumption, SumUpdate
<1> QED BY <1>1, <1>2, <1>3, <1>4, <1>6 DEF InFlight

-----------------------------------------------------------------------------
(* Errors                                                                   *)

\* The document, and the snapshot of endAuction, in numbers.
LEMMA LotAmounts == Inv => /\ lot.bid \in Nat /\ ender.seen.bid \in Nat
                           /\ lot.bid <= Most /\ ender.seen.bid <= Most
                           /\ Payout \in Nat /\ Payout <= ender.seen.bid
                           /\ Held \in Nat /\ Held <= lot.bid
<1> SUFFICES ASSUME Inv PROVE /\ lot.bid \in Nat /\ ender.seen.bid \in Nat
                              /\ lot.bid <= Most /\ ender.seen.bid <= Most
                              /\ Payout \in Nat /\ Payout <= ender.seen.bid
                              /\ Held \in Nat /\ Held <= lot.bid
  OBVIOUS
<1>1. lot \in Lot /\ ender.seen \in Lot
  BY DEF Inv, TypeOK
<1>2. /\ lot.bid \in Nat /\ ender.seen.bid \in Nat
      /\ lot.bid <= Most /\ ender.seen.bid <= Most
  BY <1>1, LotFields, MostLargest
<1>3. Tax(ender.seen.bid) \in Nat /\ Tax(ender.seen.bid) <= ender.seen.bid
  BY <1>2, TaxPart
<1>4. Payout \in Nat /\ Payout <= ender.seen.bid
  BY <1>2, <1>3 DEF Payout
<1>5. Held \in Nat /\ Held <= lot.bid
  BY <1>2, TaxPart DEF Held, Tax
<1> QED BY <1>2, <1>4, <1>5

\* All parts of an error are integers.
InIntegers ==
  \A a \in Accounts : /\ wallet[a] \in Int /\ Booked(a) \in Int
                      /\ PaidOut(a) \in Int /\ InFlight(a) \in Int
                      /\ Error(a) \in Int

LEMMA ErrorParts == Inv => InIntegers
<1> SUFFICES ASSUME Inv, NEW a \in Accounts
             PROVE  /\ wallet[a] \in Int /\ Booked(a) \in Int
                    /\ PaidOut(a) \in Int /\ InFlight(a) \in Int
                    /\ Error(a) \in Int
  BY DEF InIntegers
<1>1. wallet[a] \in Int /\ InFlight(a) \in Int
  BY FlightInt DEF Inv, TypeOK
<1>2. PaidOut(a) \in Int
  BY LotAmounts DEF PaidOut
<1>3. Booked(a) \in Int
  <2>1. Spent(a) \in Int /\ Earned(a) \in Int /\ Held \in Int
    BY LotAmounts, TaxPart DEF Spent, Earned, Tax
  <2> QED BY <2>1 DEF Booked
<1> QED BY <1>1, <1>2, <1>3 DEF Error

LEMMA ErrorPartsNext == Inv' => InIntegers'
  BY ErrorParts, PTL

\* An error changes with its parts.
LEMMA ErrorStep ==
  ASSUME Inv, Inv', NEW a \in Accounts
  PROVE  Error(a)' = Error(a) + (wallet'[a] - wallet[a]) - (Booked(a)' - Booked(a))
                      - (PaidOut(a)' - PaidOut(a)) - (InFlight(a)' - InFlight(a))
  BY ErrorParts, ErrorPartsNext DEF Error, InIntegers

\* A step of one call that writes no document.
LEMMA CallErrors ==
  ASSUME Inv, Inv', NEW c \in Calls, \A d \in Calls \ {c} : calls'[d] = calls[d],
         UNCHANGED <<seller, lot, isEnded, ender>>, NEW a \in Accounts
  PROVE  /\ wallet[a] \in Int /\ wallet'[a] \in Int
         /\ Error(a) \in Int /\ Error(a)' \in Int
         /\ Error(a)' = Error(a) + (wallet'[a] - wallet[a])
                         - (Moved(calls'[c], a) - Moved(calls[c], a))
<1>1. Booked(a)' = Booked(a) /\ PaidOut(a)' = PaidOut(a)
  BY DEF Booked, PaidOut, Payout, Held, Spent, Earned
<1>2. Moved(calls[c], a) \in Int /\ Moved(calls'[c], a) \in Int
  <2>1. FrameOK(calls[c]) /\ FrameOK(calls'[c])
    BY DEF Inv
  <2> QED BY <2>1, FrameAmounts
<1> QED BY <1>1, <1>2, ErrorParts, ErrorPartsNext, ErrorStep, FlightStep DEF InIntegers

\* A step of the job changes nothing in flight.
LEMMA JobErrors ==
  ASSUME Inv, Inv', UNCHANGED <<calls, seller, lot>>, NEW a \in Accounts
  PROVE  /\ Error(a) \in Int /\ Error(a)' \in Int
         /\ Error(a)' = Error(a) + (wallet'[a] - wallet[a]) - (Booked(a)' - Booked(a))
                         - (PaidOut(a)' - PaidOut(a))
<1>1. InFlight(a)' = InFlight(a)
  BY DEF InFlight, MovedBy
<1> QED BY <1>1, ErrorParts, ErrorPartsNext, ErrorStep DEF InIntegers

-----------------------------------------------------------------------------
(* The payments of bid                                                      *)

\* A payment between two accounts.
LEMMA SendMoves ==
  ASSUME Inv, NEW from \in Accounts, NEW to \in Accounts, from # to, NEW v \in Int,
         Send(from, to, v)
  PROVE  /\ wallet'[from] = wallet[from] - v /\ wallet'[to] = wallet[to] + v
         /\ \A a \in Accounts \ {from, to} : wallet'[a] = wallet[a]
  BY DEF Send, Inv, TypeOK

\* A call that moves on keeps the rest of its frame.
LEMMA GotoFrame ==
  ASSUME Inv, NEW c \in Calls, NEW pc, Goto(c, pc)
  PROVE  /\ calls'[c].pc = pc /\ calls'[c].user = calls[c].user
         /\ calls'[c].bid = calls[c].bid /\ calls'[c].seen = calls[c].seen
         /\ \A d \in Calls \ {c} : calls'[d] = calls[d]
<1>1. calls \in [Calls -> Frame] /\ calls[c] \in Frame
  BY DEF Inv, TypeOK
<1>2. PICK f : f = [calls[c] EXCEPT !.pc = pc]
  OBVIOUS
<1>3. f.pc = pc /\ f.user = calls[c].user /\ f.bid = calls[c].bid /\ f.seen = calls[c].seen
  BY <1>1, <1>2 DEF Frame
<1>4. calls' = [calls EXCEPT ![c] = f]
  BY <1>2 DEF Goto
<1>5. calls'[c] = f /\ \A d \in Calls \ {c} : calls'[d] = calls[d]
  BY <1>1, <1>4
<1> QED BY <1>3, <1>5

\* A call that returns has nothing in flight.
LEMMA ReturnFrame ==
  ASSUME Inv, NEW c \in Calls, Return(c)
  PROVE  /\ calls'[c] = IdleFrame /\ calls'[c].pc = "idle"
         /\ \A d \in Calls \ {c} : calls'[d] = calls[d]
         /\ \A a : Moved(calls'[c], a) = 0
<1>1. calls'[c] = IdleFrame /\ \A d \in Calls \ {c} : calls'[d] = calls[d]
  BY DEF Return, Inv, TypeOK
<1>2. calls'[c].pc = "idle"
  BY <1>1 DEF IdleFrame
<1> QED BY <1>1, <1>2, NothingMoved

\* The books and the run that goes on leave the platform a part of what it keeps.
LEMMA PlatformKeeps ==
  ASSUME Inv, EndKnown
  PROVE  /\ Booked(Platform) + PaidOut(Platform) >= 0
         /\ ender.pc = "paySeller" => Booked(Platform) + PaidOut(Platform) = lot.bid
<1>1. Booked(Platform) = Held /\ PaidOut(Platform) = 0 - Payout
  BY DEF Booked, PaidOut
<1>2. CASE isEnded
  <2>1. ender.pc = "idle" /\ Payout = 0
    BY <1>2 DEF EndKnown, Payout
  <2> QED BY <1>1, <2>1, LotAmounts
<1>3. CASE ~isEnded
  <2>1. Held = lot.bid
    BY <1>3 DEF Held
  <2>2. Payout = 0 \/ ender.seen = lot
    BY DEF EndKnown, Payout
  <2>3. ender.pc = "paySeller" => Payout = 0
    BY DEF Payout
  <2> QED BY <1>1, <2>1, <2>2, <2>3, LotAmounts
<1> QED BY <1>2, <1>3

\* A platform that is not off can pay back what is in flight, and pay the seller.
LEMMA Solvent ==
  ASSUME Inv, EndKnown, Error(Platform) = 0
  PROVE  /\ \A c \in Calls : wallet[Platform] >= Moved(calls[c], Platform)
         /\ ender.pc = "paySeller" => wallet[Platform] >= lot.bid
<1>1. Platform \in Accounts
  BY DEF Accounts
<1>2. /\ wallet[Platform] \in Int /\ Booked(Platform) \in Int
      /\ PaidOut(Platform) \in Int /\ InFlight(Platform) \in Int
  BY <1>1, ErrorParts DEF InIntegers
<1>3. wallet[Platform] = Funds + (Booked(Platform) + PaidOut(Platform)) + InFlight(Platform)
  BY <1>2 DEF Error
<1>4. \A c \in Calls : Moved(calls[c], Platform) \in Int
  BY FrameAmounts DEF Inv
<1> QED BY <1>2, <1>3, <1>4, PlatformKeeps, FlightCovers, LotAmounts

\* What a step of the auction does to the books: nothing, with no call turned back unless
\* the platform was off already; or it is a failure and costs one bid at most; or a
\* platform that is off cannot turn back a bid, and is less than that bid ahead.
Nothing(c) ==
  /\ faults' = faults
  /\ \A a \in Accounts : Error(a)' = Error(a)
  /\ calls'[c].pc = "refundNew" => Error(Platform) # 0
Costs ==
  /\ faults' = faults + 1
  /\ Error(Platform)' - Error(Platform) <= Most
  /\ Error(Platform) - Error(Platform)' <= Most
Stuck(c) ==
  /\ calls[c].pc = "refundNew"
  /\ faults' = faults
  /\ Error(Platform) # 0
  /\ Error(Platform) <= Error(Platform)' /\ Error(Platform)' <= Most

\* The bid is paid.
LEMMA PayMoney ==
  ASSUME Inv, Inv', NEW c \in Calls, Pay(c)
  PROVE  Nothing(c) \/ Costs
<1> DEFINE f == calls[c]
           g == calls'[c]
<1>1. /\ UNCHANGED <<seller, lot, isEnded, ender>> /\ FrameOK(f) /\ f.pc = "pay"
      /\ f.user \in Users /\ f.bid \in Nat /\ f.bid <= Most /\ f.seen.bid \in Nat
  BY FrameAmounts DEF Pay, document, Inv, FrameOK
<1>2. f.user \in Accounts /\ Platform \in Accounts /\ f.user # Platform /\ f.bid \in Int
  BY <1>1 DEF Accounts
<1>3. \A a : Moved(f, a) = 0
  BY <1>1, NothingMoved
<1>4. CASE Send(f.user, Platform, f.bid) /\ UNCHANGED faults
           /\ Goto(c, IF f.seen.bid = 0 THEN "saveBid" ELSE "refundOld")
  <2>1. /\ g.pc = (IF f.seen.bid = 0 THEN "saveBid" ELSE "refundOld")
        /\ g.user = f.user /\ g.bid = f.bid /\ g.seen = f.seen
        /\ \A d \in Calls \ {c} : calls'[d] = calls[d]
    BY <1>4, GotoFrame
  <2>2. Taken(g) = f.bid /\ Repaid(g) = 0
    BY <2>1 DEF Taken, Repaid
  <2>3. ASSUME NEW a \in Accounts PROVE Error(a)' = Error(a)
    <3>1. /\ wallet[a] \in Int /\ wallet'[a] \in Int
          /\ Error(a)' = Error(a) + (wallet'[a] - wallet[a]) - (Moved(g, a) - Moved(f, a))
          /\ Error(a) \in Int
      BY <1>1, <2>1, CallErrors
    <3>2. Moved(g, a) = IF a = Platform THEN f.bid ELSE IF a = f.user THEN -f.bid ELSE 0
      BY <1>1, <2>1, <2>2 DEF Moved
    <3>3. wallet'[a] - wallet[a] = Moved(g, a)
      BY <1>1, <1>2, <1>4, <3>1, <3>2, SendMoves
    <3> QED BY <1>1, <1>3, <3>1, <3>2, <3>3
  <2> QED BY <1>4, <2>1, <2>3 DEF Nothing
<1>5. CASE SendFails(f.user, Platform, f.bid) /\ Return(c)
  <2>1. /\ \A d \in Calls \ {c} : calls'[d] = calls[d]
        /\ g.pc = "idle" /\ \A a : Moved(g, a) = 0
    BY <1>5, ReturnFrame
  <2>2. ASSUME NEW a \in Accounts
        PROVE  /\ Error(a)' = Error(a) + (wallet'[a] - wallet[a])
               /\ Error(a) \in Int /\ wallet[a] \in Int /\ wallet'[a] \in Int
    <3>1. /\ wallet[a] \in Int /\ wallet'[a] \in Int /\ Error(a) \in Int
          /\ Error(a)' = Error(a) + (wallet'[a] - wallet[a]) - (Moved(g, a) - Moved(f, a))
      BY <1>1, <2>1, CallErrors
    <3> QED BY <1>3, <2>1, <3>1
  <2>3. CASE UNCHANGED <<wallet, faults>>
    BY <2>1, <2>2, <2>3 DEF Nothing
  <2>4. CASE Fault /\ UNCHANGED wallet
    BY <1>2, <2>2, <2>4, MostLargest DEF Costs, Fault
  <2>5. CASE Fault /\ Send(f.user, Platform, f.bid)
    <3>1. wallet'[Platform] = wallet[Platform] + f.bid
      BY <1>2, <2>5, SendMoves
    <3> QED BY <1>1, <1>2, <2>2, <2>5, <3>1, MostLargest DEF Costs, Fault
  <2> QED BY <1>5, <2>3, <2>4, <2>5 DEF SendFails
<1> QED BY <1>4, <1>5 DEF Pay

\* The bidder of the snapshot is paid back.
LEMMA RefundOldMoney ==
  ASSUME Inv, Inv', EndKnown, NEW c \in Calls, RefundOld(c)
  PROVE  Nothing(c) \/ Costs
<1> DEFINE f == calls[c]
           g == calls'[c]
<1>1. /\ UNCHANGED <<seller, lot, isEnded, ender>> /\ FrameOK(f) /\ f.pc = "refundOld"
      /\ f.user \in Users /\ f.bid \in Nat /\ f.bid <= Most
      /\ f.seen.bid \in Nat /\ f.seen.bid <= Most /\ f.seen.bid < f.bid
  BY FrameAmounts DEF RefundOld, document, Inv, FrameOK, Bidding
<1>2. f.seen.bidder \in Users
  <2>1. f.seen \in Lot /\ LotOK(f.seen) /\ f.seen.bid # 0
    BY <1>1 DEF FrameOK, LotOK
  <2> QED BY <2>1, LotFields DEF LotOK
<1>3. /\ f.user \in Accounts /\ Platform \in Accounts /\ f.user # Platform
      /\ f.seen.bidder \in Accounts /\ f.seen.bidder # Platform /\ f.seen.bid \in Int
  BY <1>1, <1>2 DEF Accounts
<1>4. Taken(f) = f.bid /\ Repaid(f) = 0
  BY <1>1 DEF Taken, Repaid
<1>5. CASE Send(Platform, f.seen.bidder, f.seen.bid) /\ Goto(c, "notify") /\ UNCHANGED faults
  <2>1. /\ g.pc = "notify"
        /\ g.user = f.user /\ g.bid = f.bid /\ g.seen = f.seen
        /\ \A d \in Calls \ {c} : calls'[d] = calls[d]
    BY <1>5, GotoFrame
  <2>2. Taken(g) = f.bid /\ Repaid(g) = f.seen.bid
    BY <2>1 DEF Taken, Repaid
  <2>3. ASSUME NEW a \in Accounts PROVE Error(a)' = Error(a)
    <3>1. /\ wallet[a] \in Int /\ wallet'[a] \in Int
          /\ Error(a)' = Error(a) + (wallet'[a] - wallet[a]) - (Moved(g, a) - Moved(f, a))
          /\ Error(a) \in Int
      BY <1>1, <2>1, CallErrors
    <3>2. /\ Moved(g, a) \in Int /\ Moved(f, a) \in Int
          /\ Moved(g, a) - Moved(f, a) = IF a = Platform THEN -f.seen.bid
                                         ELSE IF a = f.seen.bidder THEN f.seen.bid ELSE 0
      BY <1>1, <1>4, <2>1, <2>2 DEF Moved
    <3>3. wallet'[a] - wallet[a] = Moved(g, a) - Moved(f, a)
      BY <1>1, <1>3, <1>5, <3>1, <3>2, SendMoves
    <3> QED BY <3>1, <3>2, <3>3
  <2> QED BY <1>5, <2>1, <2>3 DEF Nothing
<1>6. CASE SendFails(Platform, f.seen.bidder, f.seen.bid) /\ Goto(c, "refundNew")
  <2>1. /\ g.pc = "refundNew"
        /\ g.user = f.user /\ g.bid = f.bid /\ g.seen = f.seen
        /\ \A d \in Calls \ {c} : calls'[d] = calls[d]
    BY <1>6, GotoFrame
  <2>2. Taken(g) = f.bid /\ Repaid(g) = 0
    BY <2>1 DEF Taken, Repaid
  <2>3. ASSUME NEW a \in Accounts
        PROVE  /\ Error(a)' = Error(a) + (wallet'[a] - wallet[a])
               /\ Error(a) \in Int /\ wallet[a] \in Int /\ wallet'[a] \in Int
    <3>1. /\ wallet[a] \in Int /\ wallet'[a] \in Int /\ Error(a) \in Int
          /\ Error(a)' = Error(a) + (wallet'[a] - wallet[a]) - (Moved(g, a) - Moved(f, a))
      BY <1>1, <2>1, CallErrors
    <3>2. Moved(g, a) = Moved(f, a) /\ Moved(f, a) \in Int
      BY <1>1, <1>4, <2>1, <2>2 DEF Moved
    <3> QED BY <3>1, <3>2
  <2>4. CASE ~CanSend(Platform, f.seen.bid) /\ UNCHANGED <<wallet, faults>>
    <3>1. Moved(f, Platform) = f.bid
      BY <1>1, <1>4 DEF Moved
    <3>2. Error(Platform) # 0
      BY <1>1, <1>3, <2>3, <2>4, <3>1, Solvent DEF CanSend
    <3> QED BY <2>3, <2>4, <3>2 DEF Nothing
  <2>5. CASE Fault /\ UNCHANGED wallet
    BY <1>3, <2>3, <2>5, MostLargest DEF Costs, Fault
  <2>6. CASE Fault /\ Send(Platform, f.seen.bidder, f.seen.bid)
    <3>1. wallet'[Platform] = wallet[Platform] - f.seen.bid
      BY <1>3, <2>6, SendMoves
    <3> QED BY <1>1, <1>3, <2>3, <2>6, <3>1, MostLargest DEF Costs, Fault
  <2> QED BY <1>6, <2>4, <2>5, <2>6 DEF SendFails
<1> QED BY <1>5, <1>6 DEF RefundOld

\* A bid that is turned back after the old one was paid back is short of that one.
LEMMA TurnedBack ==
  ASSUME Inv, Inv', NEW c \in Calls, Goto(c, "refundNew"), calls[c].pc \in {"notify", "saveBid"},
         Fault, UNCHANGED <<wallet, seller, lot, isEnded, ender>>
  PROVE  Costs
<1> DEFINE f == calls[c]
           g == calls'[c]
<1>1. /\ f.bid \in Nat /\ f.bid <= Most /\ f.seen.bid \in Nat /\ f.seen.bid <= Most
  BY FrameAmounts DEF Inv
<1>2. /\ g.pc = "refundNew"
      /\ g.user = f.user /\ g.bid = f.bid /\ g.seen = f.seen
      /\ \A d \in Calls \ {c} : calls'[d] = calls[d]
  BY GotoFrame
<1>3. Moved(f, Platform) = f.bid - f.seen.bid /\ Moved(g, Platform) = f.bid
  BY <1>1, <1>2 DEF Moved, Taken, Repaid
<1>4. Platform \in Accounts
  BY DEF Accounts
<1>5. /\ wallet[Platform] \in Int /\ wallet'[Platform] \in Int /\ Error(Platform) \in Int
      /\ Error(Platform)' = Error(Platform) + (wallet'[Platform] - wallet[Platform])
                              - (Moved(g, Platform) - Moved(f, Platform))
  BY <1>2, <1>4, CallErrors
<1> QED BY <1>1, <1>3, <1>5, MostLargest DEF Costs, Fault

\* He is notified.
LEMMA NotifyOldMoney ==
  ASSUME Inv, Inv', NEW c \in Calls, NotifyOld(c)
  PROVE  Nothing(c) \/ Costs
<1> DEFINE f == calls[c]
           g == calls'[c]
<1>1. /\ UNCHANGED <<wallet, seller, lot, isEnded, ender>> /\ f.pc = "notify" /\ FrameOK(f)
  BY DEF NotifyOld, document, chain, Inv
<1>2. CASE Goto(c, "saveBid") /\ UNCHANGED faults
  <2>1. /\ g.pc = "saveBid"
        /\ g.user = f.user /\ g.bid = f.bid /\ g.seen = f.seen
        /\ \A d \in Calls \ {c} : calls'[d] = calls[d]
    BY <1>2, GotoFrame
  <2>2. ASSUME NEW a \in Accounts PROVE Error(a)' = Error(a)
    <3>1. /\ wallet[a] \in Int /\ wallet'[a] \in Int
          /\ Error(a)' = Error(a) + (wallet'[a] - wallet[a]) - (Moved(g, a) - Moved(f, a))
          /\ Error(a) \in Int
      BY <1>1, <2>1, CallErrors
    <3>2. Moved(g, a) = Moved(f, a)
      BY <1>1, <2>1 DEF Moved, Taken, Repaid
    <3>3. Moved(f, a) \in Int
      BY <1>1, FrameAmounts
    <3> QED BY <1>1, <3>1, <3>2, <3>3
  <2> QED BY <1>2, <2>1, <2>2 DEF Nothing
<1>3. CASE Fault /\ Goto(c, "refundNew")
  BY <1>1, <1>3, TurnedBack
<1> QED BY <1>2, <1>3 DEF NotifyOld

\* The new bid is turned back.
LEMMA RefundNewMoney ==
  ASSUME Inv, Inv', EndKnown, NEW c \in Calls, RefundNew(c)
  PROVE  Nothing(c) \/ Costs \/ Stuck(c)
<1> DEFINE f == calls[c]
           g == calls'[c]
<1>1. /\ UNCHANGED <<seller, lot, isEnded, ender>> /\ FrameOK(f) /\ f.pc = "refundNew"
      /\ f.user \in Users /\ f.bid \in Nat /\ f.bid <= Most
  BY FrameAmounts DEF RefundNew, document, Inv, FrameOK
<1>2. f.user \in Accounts /\ Platform \in Accounts /\ f.user # Platform /\ f.bid \in Int
  BY <1>1 DEF Accounts
<1>3. \A a \in Accounts :
        Moved(f, a) = IF a = Platform THEN f.bid ELSE IF a = f.user THEN -f.bid ELSE 0
  BY <1>1 DEF Moved, Taken, Repaid
<1>4. /\ \A d \in Calls \ {c} : calls'[d] = calls[d]
      /\ g.pc = "idle" /\ \A a : Moved(g, a) = 0
  BY ReturnFrame DEF RefundNew
<1>5. ASSUME NEW a \in Accounts
      PROVE  /\ Error(a)' = Error(a) + (wallet'[a] - wallet[a]) + Moved(f, a)
             /\ Error(a) \in Int /\ wallet[a] \in Int /\ wallet'[a] \in Int
  <2>1. /\ wallet[a] \in Int /\ wallet'[a] \in Int /\ Error(a) \in Int
        /\ Error(a)' = Error(a) + (wallet'[a] - wallet[a]) - (Moved(g, a) - Moved(f, a))
    BY <1>1, <1>4, CallErrors
  <2>2. Moved(f, a) \in Int
    BY <1>1, <1>3
  <2> QED BY <1>4, <2>1, <2>2
<1>6. CASE Send(Platform, f.user, f.bid)
  <2>1. ASSUME NEW a \in Accounts PROVE wallet'[a] - wallet[a] = -Moved(f, a) /\ Moved(f, a) \in Int
    BY <1>1, <1>2, <1>3, <1>5, <1>6, SendMoves
  <2>2. ASSUME NEW a \in Accounts PROVE Error(a)' = Error(a)
    BY <1>5, <2>1
  <2>3. faults' = faults \/ faults' = faults + 1
    BY DEF RefundNew, SendFails, Fault
  <2> QED BY <1>2, <1>4, <1>5, <2>2, <2>3, MostLargest DEF Nothing, Costs
<1>7. CASE Fault /\ UNCHANGED wallet
  BY <1>1, <1>2, <1>3, <1>5, <1>7, MostLargest DEF Costs, Fault
<1>8. CASE ~CanSend(Platform, f.bid) /\ UNCHANGED <<wallet, faults>>
  <2>1. Moved(f, Platform) = f.bid /\ wallet[Platform] < f.bid
    BY <1>2, <1>3, <1>5, <1>8 DEF CanSend
  <2>2. Error(Platform) # 0
    BY <1>1, <1>2, <1>5, <2>1, Solvent
  <2>3. Error(Platform)' = Error(Platform) + f.bid
    BY <1>1, <1>2, <1>5, <1>8, <2>1
  <2>4. Error(Platform) = wallet[Platform] - Funds - (Booked(Platform) + PaidOut(Platform))
                            - InFlight(Platform)
    BY <1>2, ErrorParts DEF Error, InIntegers
  <2>5. f.bid <= InFlight(Platform)
    BY <2>1, FlightCovers
  <2>6. Error(Platform)' <= Most
    <3>1. /\ wallet[Platform] \in Int /\ Booked(Platform) \in Int
          /\ PaidOut(Platform) \in Int /\ InFlight(Platform) \in Int
      BY <1>2, ErrorParts DEF InIntegers
    <3> QED BY <1>1, <2>1, <2>3, <2>4, <2>5, <3>1, PlatformKeeps, MostLargest
  <2> QED BY <1>1, <1>2, <1>5, <1>8, <2>2, <2>3, <2>6 DEF Stuck
<1> QED BY <1>6, <1>7, <1>8 DEF RefundNew, SendFails

\* The bid is saved over the document it has read.
LEMMA SaveBidMoney ==
  ASSUME Inv, Inv', EndKnown, NEW c \in Calls, SaveBid(c), ~raced'
  PROVE  Nothing(c) \/ Costs
<1> DEFINE f == calls[c]
           g == calls'[c]
<1>1. /\ UNCHANGED <<wallet, seller, isEnded, ender>> /\ FrameOK(f) /\ f.pc = "saveBid"
      /\ f.user \in Users /\ f.bid \in Nat /\ f.bid <= Most
      /\ f.seen.bid \in Nat /\ f.seen.bid < f.bid
  BY FrameAmounts DEF SaveBid, chain, Inv, FrameOK, Bidding
<1>2. CASE Fault /\ Goto(c, "refundNew") /\ UNCHANGED <<lot, raced>>
  BY <1>1, <1>2, TurnedBack
<1>3. CASE lot' = Outbid(f) /\ raced' = (raced \/ lot # f.seen \/ EndHasRead)
           /\ Return(c) /\ UNCHANGED faults
  <2>1. /\ \A d \in Calls \ {c} : calls'[d] = calls[d]
        /\ g.pc = "idle" /\ \A a : Moved(g, a) = 0
    BY <1>3, ReturnFrame
  <2>2. lot = f.seen /\ ~isEnded /\ ender.pc \in {"idle", "read"}
    BY <1>3 DEF EndHasRead
  <2>3. lot'.bid = f.bid /\ lot'.bidder = f.user
    BY <1>3 DEF Outbid
  <2>4. Payout = 0 /\ Payout' = 0
    BY <1>1, <2>2 DEF Payout
  <2>5. ASSUME NEW a \in Accounts PROVE Error(a)' = Error(a)
    <3>1. PaidOut(a) = 0 /\ PaidOut(a)' = 0
      <4>1. 0 - Payout = 0 /\ 0 - Payout' = 0
        BY <2>4
      <4> QED BY <1>1, <2>4, <4>1 DEF PaidOut
    <3>2. Booked(a) = IF a = Platform THEN lot.bid ELSE 0 - (IF lot.bidder = a THEN lot.bid ELSE 0)
      BY <2>2 DEF Booked, Held, Earned, Spent
    <3>3. Booked(a)' = IF a = Platform THEN f.bid ELSE 0 - (IF f.user = a THEN f.bid ELSE 0)
      BY <1>1, <2>2, <2>3 DEF Booked, Held, Earned, Spent
    <3>4. Moved(f, a) = IF a = Platform THEN f.bid - lot.bid
                        ELSE (IF a = lot.bidder THEN lot.bid ELSE 0)
                               - (IF a = f.user THEN f.bid ELSE 0)
      BY <1>1, <2>2 DEF Moved, Taken, Repaid
    <3>5. InFlight(a)' = InFlight(a) - Moved(f, a)
      <4>1. Moved(f, a) \in Int
        BY <1>1, FrameAmounts
      <4>2. InFlight(a) \in Int
        BY ErrorParts DEF InIntegers
      <4> QED BY <2>1, <4>1, <4>2, FlightStep
    <3>6. /\ wallet[a] \in Int /\ InFlight(a) \in Int /\ Error(a) \in Int /\ lot.bid \in Nat
      BY ErrorParts, LotAmounts DEF InIntegers
    <3>7. Booked(a)' - Booked(a) = Moved(f, a)
      BY <1>1, <3>2, <3>3, <3>4, <3>6
    <3>8. Booked(a) \in Int /\ Booked(a)' \in Int /\ Moved(f, a) \in Int
      BY <1>1, <3>2, <3>3, <3>4, <3>6
    <3>9. Error(a)' = Error(a) + (wallet'[a] - wallet[a]) - (Booked(a)' - Booked(a))
                        - (PaidOut(a)' - PaidOut(a)) - (InFlight(a)' - InFlight(a))
      BY ErrorStep
    <3> QED BY <1>1, <3>1, <3>5, <3>6, <3>7, <3>8, <3>9
  <2> QED BY <1>3, <2>1, <2>5 DEF Nothing
<1> QED BY <1>2, <1>3 DEF SaveBid

\* The steps of a call that pay nothing.
Unpaid(c) ==
  \/ \E u \in Users : StartAuction(c, u)
  \/ \E u \in Users, b \in Bids : Bid(c, u, b)
  \/ Deal(c) \/ SaveAuction(c) \/ AddJob(c) \/ GiveBack(c) \/ ReadAuction(c)

\* Where they lead: they are outside the payments of bid before and after.
LEMMA UnpaidFrames ==
  ASSUME Inv, NEW c \in Calls, Unpaid(c)
  PROVE  /\ \A d \in Calls \ {c} : calls'[d] = calls[d]
         /\ calls[c].pc \in {"idle", "deal", "save", "addJob", "giveBack", "read"}
         /\ calls'[c].pc \in {"idle", "deal", "save", "addJob", "giveBack", "read", "pay"}
         /\ UNCHANGED <<wallet, lot, isEnded, ender, raced, crashes>>
         /\ faults' = faults \/ faults' = faults + 1
<1>1. calls \in [Calls -> Frame]
  BY DEF Inv, TypeOK
<1>2. CASE \E u \in Users : StartAuction(c, u)
  BY <1>1, <1>2 DEF StartAuction, IdleFrame, chain, document, history
<1>3. CASE \E u \in Users, b \in Bids : Bid(c, u, b)
  BY <1>1, <1>3 DEF Bid, chain, document, history
<1>4. CASE Deal(c)
  BY <1>4, GotoFrame, ReturnFrame DEF Deal, SendTokenFails, Fault, document, history
<1>5. CASE SaveAuction(c)
  BY <1>5, GotoFrame DEF SaveAuction, Fault, chain, history
<1>6. CASE AddJob(c)
  BY <1>6, GotoFrame, ReturnFrame DEF AddJob, Fault, chain, document, history
<1>7. CASE GiveBack(c)
  BY <1>7, ReturnFrame DEF GiveBack, SendTokenFails, Fault, document, history
<1>8. CASE ReadAuction(c)
  BY <1>1, <1>8 DEF ReadAuction, IdleFrame, Frame, chain, document, history
<1> QED BY <1>2, <1>3, <1>4, <1>5, <1>6, <1>7, <1>8 DEF Unpaid

\* They leave the books alone.
LEMMA UnpaidMoney ==
  ASSUME Inv, Inv', EndKnown, NEW c \in Calls, Unpaid(c)
  PROVE  Nothing(c) \/ Costs
<1>1. \A a : Moved(calls[c], a) = 0 /\ Moved(calls'[c], a) = 0
  BY UnpaidFrames, NothingMoved
<1>2. seller' = seller \/ (ender.pc = "idle" /\ ~isEnded)
  <2>1. CASE SaveAuction(c) /\ seller = Nobody
    BY <2>1 DEF Inv, HasDocument, EndKnown
  <2>2. CASE SaveAuction(c) /\ seller # Nobody
    BY <2>2 DEF SaveAuction
  <2>3. CASE ~SaveAuction(c)
    BY <2>3 DEF Unpaid, StartAuction, Bid, Deal, AddJob, GiveBack, ReadAuction, document
  <2> QED BY <2>1, <2>2, <2>3
<1>3. UNCHANGED <<wallet, lot, isEnded, ender>>
  BY UnpaidFrames
<1>4. ASSUME NEW a \in Accounts PROVE Error(a)' = Error(a) /\ Error(a) \in Int
  <2>1. Booked(a)' = Booked(a) /\ PaidOut(a)' = PaidOut(a)
    BY <1>2, <1>3 DEF Booked, PaidOut, Payout, Held, Spent, Earned
  <2>2. /\ wallet[a] \in Int /\ Booked(a) \in Int /\ PaidOut(a) \in Int
        /\ InFlight(a) \in Int /\ Error(a) \in Int
    BY ErrorParts DEF InIntegers
  <2>3. InFlight(a)' = InFlight(a)
    BY <1>1, <2>2, UnpaidFrames, FlightStep
  <2> QED BY <1>3, <2>1, <2>2, <2>3, ErrorStep
<1>5. Platform \in Accounts
  BY DEF Accounts
<1> QED BY <1>4, <1>5, UnpaidFrames, MostLargest DEF Nothing, Costs

-----------------------------------------------------------------------------
(* Calls preserve the invariant                                             *)

\* The charges are a number.
LEMMA ChargedNat == Inv => Charged \in Nat /\ faults \in Nat
<1> SUFFICES ASSUME Inv PROVE Charged \in Nat /\ faults \in Nat
  OBVIOUS
<1>1. faults \in Nat /\ job.runs \in Nat
  BY DEF Inv, TypeOK
<1> QED BY <1>1 DEF Charged, Cost

LEMMA ChargedNatNext == Inv' => (Charged \in Nat /\ faults \in Nat)'
  BY ChargedNat, PTL

\* Without a charge the platform is not off, and without a failure there is no charge.
LEMMA NoCharge ==
  ASSUME Inv, Bounded
  PROVE  /\ Charged = 0 => Error(Platform) = 0
         /\ faults = 0 /\ Exact => Charged = 0
<1>1. Platform \in Accounts
  BY DEF Accounts
<1>2. Error(Platform) \in Int /\ Most \in Nat
  BY <1>1, ErrorParts, MostLargest DEF InIntegers
<1>3. Charged = 0 => Charged * Most = 0
  BY <1>2
<1>4. Charged = 0 => Error(Platform) = 0
  BY <1>2, <1>3 DEF Bounded
<1>5. faults = 0 /\ Exact => Charged = 0
  BY DEF Exact, Charged, Cost
<1> QED BY <1>4, <1>5

\* A step that the charges account for leaves the platform off by no more than they allow.
LEMMA ChargeStep ==
  ASSUME Inv, Inv', Bounded, Charged <= Charged',
         \/ Error(Platform)' = Error(Platform)
         \/ /\ Charged + 1 <= Charged'
            /\ Error(Platform)' - Error(Platform) <= Most
            /\ Error(Platform) - Error(Platform)' <= Most
         \/ /\ Error(Platform) <= Error(Platform)' /\ Error(Platform)' <= Most
            /\ Error(Platform) # 0
  PROVE  Bounded'
<1>1. Platform \in Accounts
  BY DEF Accounts
<1>2. PICK k, n, m, e, f : k = Charged /\ n = Charged' /\ m = Most
                           /\ e = Error(Platform) /\ f = Error(Platform)'
  OBVIOUS
<1>3. k \in Nat /\ n \in Nat /\ m \in Nat /\ e \in Int /\ f \in Int
  BY <1>1, <1>2, ChargedNat, ChargedNatNext, ErrorParts, ErrorPartsNext, MostLargest DEF InIntegers
<1>4. -(k * m) <= e /\ e <= k * m /\ k <= n
  BY <1>2 DEF Bounded
<1>5. e # 0 => k # 0
  BY <1>2, NoCharge
<1>6. \/ f = e
      \/ k + 1 <= n /\ f - e <= m /\ e - f <= m
      \/ e <= f /\ f <= m /\ k # 0
  BY <1>2, <1>5
<1> HIDE <1>2
<1>7. -(n * m) <= f /\ f <= n * m
  BY <1>3, <1>4, <1>6, Charge
<1> QED BY <1>2, <1>7 DEF Bounded

\* The steps of a call.
CallStep(c) == Unpaid(c) \/ Pay(c) \/ RefundOld(c) \/ NotifyOld(c) \/ RefundNew(c) \/ SaveBid(c)

\* What they do to the books.
LEMMA CallMoney ==
  ASSUME Inv, Inv', EndKnown, NEW c \in Calls, CallStep(c), Clean'
  PROVE  Nothing(c) \/ Costs \/ Stuck(c)
  BY UnpaidMoney, PayMoney, RefundOldMoney, NotifyOldMoney, RefundNewMoney, SaveBidMoney
     DEF CallStep, Clean

\* What they leave alone.
LEMMA CallLeaves ==
  ASSUME Inv, NEW c \in Calls, CallStep(c), Clean'
  PROVE  /\ Clean /\ UNCHANGED <<isEnded, ender>>
         /\ job' = job \/ AddJob(c)
         /\ lot' = lot \/ (~isEnded /\ ender.pc \in {"idle", "read"})
         /\ seller' = seller \/ (seller = Nobody /\ SaveAuction(c))
         /\ \A d \in Calls \ {c} : calls'[d] = calls[d]
<1>1. CASE Unpaid(c)
  <2>1. UNCHANGED <<wallet, lot, isEnded, ender, raced, crashes>>
        /\ \A d \in Calls \ {c} : calls'[d] = calls[d]
    BY <1>1, UnpaidFrames
  <2>2. job' = job \/ AddJob(c)
    BY <1>1 DEF Unpaid, StartAuction, Bid, Deal, SaveAuction, GiveBack, ReadAuction
  <2>3. seller' = seller \/ (seller = Nobody /\ SaveAuction(c))
    BY <1>1 DEF Unpaid, StartAuction, Bid, Deal, SaveAuction, AddJob, GiveBack, ReadAuction,
                document
  <2> QED BY <2>1, <2>2, <2>3 DEF Clean
<1>2. CASE Pay(c) \/ RefundOld(c) \/ NotifyOld(c) \/ RefundNew(c)
  <2>1. UNCHANGED <<isEnded, ender, job, lot, seller, raced, crashes>>
    BY <1>2 DEF Pay, RefundOld, NotifyOld, RefundNew, document, history
  <2>2. \A d \in Calls \ {c} : calls'[d] = calls[d]
    <3>1. Return(c) \/ \E pc \in CallPC : Goto(c, pc)
      BY <1>2 DEF Pay, RefundOld, NotifyOld, RefundNew, CallPC
    <3> QED BY <3>1, ReturnFrame, GotoFrame
  <2> QED BY <2>1, <2>2 DEF Clean
<1>3. CASE SaveBid(c)
  <2>1. UNCHANGED <<isEnded, ender, job, seller, crashes>>
    BY <1>3 DEF SaveBid
  <2>2. ~raced /\ (lot' = lot \/ (~isEnded /\ ender.pc \in {"idle", "read"}))
    <3>1. CASE UNCHANGED <<lot, raced>>
      BY <3>1 DEF Clean
    <3>2. CASE raced' = (raced \/ lot # calls[c].seen \/ EndHasRead)
      BY <3>2 DEF EndHasRead, Clean
    <3> QED BY <1>3, <3>1, <3>2 DEF SaveBid
  <2>3. \A d \in Calls \ {c} : calls'[d] = calls[d]
    <3>1. Return(c) \/ Goto(c, "refundNew")
      BY <1>3 DEF SaveBid
    <3> QED BY <3>1, ReturnFrame, GotoFrame
  <2> QED BY <2>1, <2>2, <2>3 DEF Clean
<1> QED BY <1>1, <1>2, <1>3 DEF CallStep

\* The job that startAuction adds.
LEMMA AddedJob ==
  ASSUME CustodyInv, EndKnown, NEW c \in Calls, AddJob(c)
  PROVE  /\ job.state = "none" /\ ender.pc = "idle" /\ ~isEnded
         /\ job' = job \/ (job'.state = "delayed" /\ job'.runs = job.runs)
<1>1. job.state = "none"
  BY DEF CustodyInv, OneAdder, AddJob
<1>2. job' = job \/ (job'.state = "delayed" /\ job'.runs = job.runs)
  BY DEF AddJob, CustodyInv, Inv, TypeOK
<1> QED BY <1>1, <1>2 DEF EndKnown

\* A run keeps what it knows, as no bid is saved behind its back.
LEMMA CallEndKnown ==
  ASSUME CustodyInv, EndKnown, NEW c \in Calls, CallStep(c), Clean'
  PROVE  EndKnown'
<1>1. Inv
  BY DEF CustodyInv
<1>2. CASE job' = job
  BY <1>1, <1>2, CallLeaves DEF EndKnown
<1>3. CASE AddJob(c)
  BY <1>1, <1>3, CallLeaves, AddedJob DEF EndKnown
<1> QED BY <1>1, <1>2, <1>3, CallLeaves

\* A step of a call charges its failure.
LEMMA CallBounded ==
  ASSUME CustodyInv, Inv', EndKnown, Bounded, NEW c \in Calls, CallStep(c), Clean'
  PROVE  Bounded'
<1>1. Inv
  BY DEF CustodyInv
<1>2. job'.runs = job.runs /\ ender' = ender
  BY <1>1, CallLeaves, AddedJob
<1>3. Charged' = Charged + (faults' - faults)
  <2>1. faults \in Nat /\ faults' \in Nat /\ job.runs \in Nat
    BY <1>1, ChargedNat, ChargedNatNext DEF Inv, TypeOK
  <2> QED BY <1>2, <2>1 DEF Charged, Cost
<1>4. Charged \in Nat /\ faults \in Nat
  BY <1>1, ChargedNat
<1>5. CASE Nothing(c)
  <2>1. Error(Platform)' = Error(Platform) /\ Charged' = Charged
    BY <1>3, <1>4, <1>5 DEF Nothing, Accounts
  <2> QED BY <1>1, <1>4, <2>1, ChargeStep
<1>6. CASE Costs
  <2>1. Charged' = Charged + 1
    BY <1>3, <1>4, <1>6 DEF Costs
  <2> QED BY <1>1, <1>4, <1>6, <2>1, ChargeStep DEF Costs
<1>7. CASE Stuck(c)
  <2>1. Charged' = Charged
    BY <1>3, <1>4, <1>7 DEF Stuck
  <2> QED BY <1>1, <1>4, <1>7, <2>1, ChargeStep DEF Stuck
<1> QED BY <1>1, <1>5, <1>6, <1>7, CallMoney

\* Without a failure the books stay exact.
LEMMA CallExact ==
  ASSUME CustodyInv, Inv', EndKnown, Bounded, NEW c \in Calls, CallStep(c), Clean', faults' = 0,
         faults = 0 => Exact
  PROVE  faults = 0 /\ Exact'
<1>1. Inv
  BY DEF CustodyInv
<1>2. faults \in Nat
  BY <1>1, ChargedNat
<1>3. faults = 0
  BY <1>1, <1>2, CallMoney DEF Nothing, Costs, Stuck
<1>4. Exact /\ Error(Platform) = 0
  BY <1>1, <1>3, NoCharge
<1>5. Nothing(c)
  BY <1>1, <1>2, <1>3, <1>4, CallMoney DEF Costs, Stuck
<1>6. \A u \in Users : Error(u)' = 0
  BY <1>4, <1>5 DEF Nothing, Exact, Accounts
<1>7. \A d \in Calls : calls'[d].pc # "refundNew"
  BY <1>1, <1>4, <1>5, CallLeaves DEF Nothing, Exact
<1>8. /\ job'.state # "failed"
      /\ job'.runs = IF job'.state \in {"active", "completed"} THEN 1 ELSE 0
  <2>1. CASE job' = job
    BY <1>4, <2>1 DEF Exact
  <2>2. CASE AddJob(c)
    BY <1>4, <2>2, AddedJob DEF Exact
  <2> QED BY <1>1, <2>1, <2>2, CallLeaves
<1> QED BY <1>3, <1>6, <1>7, <1>8 DEF Exact

\* A document whose job is still to be added has a call about to.
LEMMA CallArms ==
  ASSUME CustodyInv, EndKnown, NEW c \in Calls, CallStep(c), Clean', faults' = faults,
         Delivered, seller' # Nobody, job'.state = "none"
  PROVE  \E d \in Calls : calls'[d].pc = "addJob"
<1>1. Inv
  BY DEF CustodyInv
<1>2. CASE SaveAuction(c) /\ seller = Nobody
  <2>1. Goto(c, "addJob")
    BY <1>2, ChargedNat, <1>1 DEF SaveAuction, Fault, CustodyInv, Inv, TypeOK
  <2> QED BY <1>1, <2>1, GotoFrame
<1>3. CASE AddJob(c)
  <2>1. job' = job
    BY <1>3, AddedJob
  <2>2. Fault
    BY <1>3, <2>1, AddedJob DEF AddJob, CustodyInv, Inv, TypeOK
  <2> QED BY <1>1, <2>2, ChargedNat DEF Fault
<1>4. CASE seller' = seller /\ job' = job /\ ~AddJob(c)
  <2>1. PICK d \in Calls : calls[d].pc = "addJob"
    BY <1>4 DEF Delivered
  <2>2. calls[c].pc # "addJob"
    BY <1>4 DEF CallStep, Unpaid, StartAuction, Bid, Deal, SaveAuction, GiveBack, ReadAuction,
                Pay, RefundOld, NotifyOld, RefundNew, SaveBid
  <2> QED BY <1>1, <2>1, <2>2, CallLeaves
<1> QED BY <1>1, <1>2, <1>3, <1>4, CallLeaves

\* Once the token was sent, a call takes it from the winner only, and gives it back.
LEMMA CallWinner ==
  ASSUME CustodyInv, CustodyInv', EndKnown, NEW c \in Calls, CallStep(c), Clean',
         faults' = faults, Exact, Delivered, Sent'
  PROVE  /\ Keepers' = {} => holder' = Winning'
         /\ \A d \in Keepers' : calls'[d].user = Winning'
<1>1. Inv
  BY DEF CustodyInv
<1>2. Sent /\ job.state \in {"active", "completed"} /\ job.runs = 1
  <2>1. Sent
    BY <1>1, CallLeaves DEF Sent
  <2> QED BY <2>1 DEF Sent, EndKnown, Exact
<1>3. Winning' = Winning /\ UNCHANGED <<seller, job>> /\ seller # Nobody
  <2>1. lot' = lot
    BY <1>1, <1>2, CallLeaves DEF Sent
  <2>2. seller # Nobody
    BY <1>1, <1>2 DEF Inv, HasDocument
  <2>3. job' = job
    BY <1>1, <1>2, CallLeaves, AddedJob
  <2> QED BY <1>1, <2>1, <2>2, <2>3, CallLeaves DEF Winning
<1>4. Keepers # {} => holder = Platform
  BY <1>2 DEF CustodyInv, Custody
<1>5. /\ Keepers = {} => holder = Winning
      /\ \A d \in Keepers : calls[d].user = Winning
      /\ \A d, e \in Keepers : d = e
  BY <1>2 DEF Delivered, CustodyInv, Custody
<1>6. \A d \in Calls \ {c} : calls'[d] = calls[d] /\ (d \in Keepers' <=> d \in Keepers)
  BY <1>1, CallLeaves DEF Keepers
<1>7. CASE holder' = holder /\ (c \in Keepers' <=> c \in Keepers) /\ calls'[c].user = calls[c].user
  <2>1. Keepers' = Keepers
    BY <1>6, <1>7 DEF Keepers
  <2>2. \A d \in Keepers : d \in Calls /\ calls'[d].user = calls[d].user
    BY <1>6, <1>7 DEF Keepers
  <2>3. Keepers' = {} => holder' = Winning'
    BY <1>3, <1>5, <1>7, <2>1
  <2>4. \A d \in Keepers' : calls'[d].user = Winning'
    BY <1>3, <1>5, <2>1, <2>2
  <2> QED BY <2>3, <2>4
<1>8. CASE holder' = holder /\ c \notin Keepers' /\ c \notin Keepers
  <2>1. Keepers' = Keepers
    BY <1>6, <1>8 DEF Keepers
  <2>2. \A d \in Keepers : calls'[d] = calls[d]
    BY <1>6, <1>8 DEF Keepers
  <2> QED BY <1>3, <1>5, <1>8, <2>1, <2>2
<1>9. CASE Deal(c)
  <2>1. calls[c].user \in Users /\ calls[c].user # Platform /\ c \notin Keepers
    BY <1>1, <1>9 DEF Inv, FrameOK, Deal, Keepers
  <2>2. CASE SendToken(calls[c].user, Platform) /\ Goto(c, "save")
    <3>1. Keepers = {} /\ calls[c].user = Winning
      BY <1>4, <1>5, <2>1, <2>2 DEF SendToken
    <3>2. calls'[c].pc = "save" /\ calls'[c].user = Winning
      BY <1>1, <2>2, <3>1, GotoFrame
    <3>3. Keepers' = {c}
      BY <1>6, <3>1, <3>2 DEF Keepers
    <3> QED BY <1>3, <3>2, <3>3
  <2>3. CASE SendTokenFails(calls[c].user, Platform) /\ Return(c)
    <3>1. holder' = holder
      BY <1>1, <2>3, ChargedNat DEF SendTokenFails, Fault
    <3>2. c \notin Keepers'
      BY <1>1, <2>3, ReturnFrame DEF Keepers
    <3> QED BY <1>8, <2>1, <3>1, <3>2
  <2> QED BY <1>9, <2>2, <2>3 DEF Deal
<1>10. CASE GiveBack(c)
  <2>1. c \in Keepers /\ c \notin Keepers'
    BY <1>1, <1>10, ReturnFrame DEF GiveBack, Keepers
  <2>2. Keepers = {c} /\ Keepers' = {} /\ holder = Platform /\ calls[c].user = Winning
    BY <1>4, <1>5, <1>6, <2>1 DEF Keepers
  <2>3. holder' = calls[c].user
    BY <1>1, <1>10, <2>2, ChargedNat DEF GiveBack, SendToken, SendTokenFails, Fault
  <2> QED BY <1>3, <2>2, <2>3
<1>11. CASE SaveAuction(c)
  <2>1. /\ calls[c].pc = "save" /\ calls'[c].pc \in {"addJob", "giveBack"}
        /\ calls'[c].user = calls[c].user /\ holder' = holder
    BY <1>1, <1>11, GotoFrame DEF SaveAuction, chain
  <2> QED BY <1>7, <2>1 DEF Keepers
<1>12. CASE AddJob(c)
  BY <1>2, <1>12, AddedJob
<1>13. CASE \/ \E u \in Users : StartAuction(c, u)
            \/ \E u \in Users, b \in Bids : Bid(c, u, b)
            \/ ReadAuction(c)
  <2>1. /\ calls[c].pc \notin {"save", "addJob", "giveBack"}
        /\ holder' = holder
    BY <1>13 DEF StartAuction, Bid, ReadAuction, chain
  <2>2. calls'[c].pc \notin {"save", "addJob", "giveBack"}
    <3>1. calls \in [Calls -> Frame]
      BY <1>1 DEF Inv, TypeOK
    <3>2. CASE \E u \in Users : StartAuction(c, u)
      BY <3>1, <3>2 DEF StartAuction, IdleFrame
    <3>3. CASE \E u \in Users, b \in Bids : Bid(c, u, b)
      BY <3>1, <3>3 DEF Bid
    <3>4. CASE ReadAuction(c)
      BY <3>1, <3>4 DEF ReadAuction, IdleFrame, Frame
    <3> QED BY <1>13, <3>2, <3>3, <3>4
  <2> QED BY <1>8, <2>1, <2>2 DEF Keepers
<1>14. CASE Pay(c) \/ RefundOld(c) \/ NotifyOld(c) \/ RefundNew(c) \/ SaveBid(c)
  <2>1. /\ calls[c].pc \notin {"save", "addJob", "giveBack"}
        /\ holder' = holder
    BY <1>14 DEF Pay, RefundOld, NotifyOld, RefundNew, SaveBid, chain
  <2>2. calls'[c].pc \notin {"save", "addJob", "giveBack"}
    <3>1. Return(c) \/ \E pc \in Bidding : Goto(c, pc)
      BY <1>14 DEF Pay, RefundOld, NotifyOld, RefundNew, SaveBid, Bidding
    <3>2. CASE Return(c)
      BY <1>1, <3>2, ReturnFrame
    <3>3. CASE \E pc \in Bidding : Goto(c, pc)
      BY <1>1, <3>3, GotoFrame DEF Bidding
    <3> QED BY <3>1, <3>2, <3>3
  <2> QED BY <1>8, <2>1, <2>2 DEF Keepers
<1> QED BY <1>9, <1>10, <1>11, <1>12, <1>13, <1>14 DEF CallStep, Unpaid

\* A step of a call preserves the invariant.
LEMMA CallBooks ==
  ASSUME CustodyInv, CustodyInv', BooksInv, NEW c \in Calls, CallStep(c)
  PROVE  BooksInv'
<1> SUFFICES ASSUME Clean' PROVE EndKnown' /\ Bounded' /\ (faults' = 0 => Exact' /\ Delivered')
  BY DEF BooksInv
<1>1. Inv /\ Inv'
  BY DEF CustodyInv
<1>2. Clean
  BY <1>1, CallLeaves
<1>3. EndKnown /\ Bounded /\ (faults = 0 => Exact /\ Delivered)
  BY <1>2 DEF BooksInv
<1>4. EndKnown' /\ Bounded'
  BY <1>1, <1>3, CallEndKnown, CallBounded
<1>5. ASSUME faults' = 0 PROVE Exact' /\ Delivered'
  <2>1. faults = 0 /\ Exact'
    BY <1>1, <1>3, <1>5, CallExact
  <2>2. Exact /\ Delivered /\ faults' = faults
    BY <1>3, <1>5, <2>1
  <2>3. seller' # Nobody /\ job'.state = "none" => \E d \in Calls : calls'[d].pc = "addJob"
    BY <1>3, <2>2, CallArms
  <2>4. Sent' => /\ Keepers' = {} => holder' = Winning'
                 /\ \A d \in Keepers' : calls'[d].user = Winning'
    BY <1>3, <2>2, CallWinner
  <2> QED BY <2>1, <2>3, <2>4 DEF Delivered
<1> QED BY <1>4, <1>5

-----------------------------------------------------------------------------
(* endAuction preserves the invariant                                       *)

\* What a step of endAuction leads to: the run goes on, and its books with it; or it
\* fails, and what it has paid is off the books; or it ends.
GoesOn ==
  /\ job' = job /\ faults' = faults /\ isEnded' = isEnded
  /\ ender'.pc \notin {"idle", "read"} /\ ender'.seen = lot
  /\ ender'.pc = "returnToken" => lot.bid = 0
  /\ \A a \in Accounts : Error(a)' = Error(a)
  /\ Sent' => \/ Sent /\ holder' = holder
              \/ ender.pc \in {"sendToken", "returnToken"} /\ holder' = Winning
Fails ==
  /\ JobFails /\ isEnded' = isEnded
  /\ faults' = faults \/ faults' = faults + 1
  /\ \/ Error(Platform)' = Error(Platform)
     \/ /\ faults' = faults + 1 \/ job.runs > 1
        /\ Error(Platform)' - Error(Platform) <= Most
        /\ Error(Platform) - Error(Platform)' <= Most
  /\ job.runs = 1 /\ Error(Platform) = 0 => faults' = faults + 1
Ends ==
  /\ ender' = IdleEnder /\ isEnded' = TRUE /\ job' = [job EXCEPT !.state = "completed"]
  /\ faults' = faults /\ holder' = holder /\ ender.pc = "mark"
  /\ \A a \in Accounts : Error(a)' = Error(a)

\* The run, its job and its document.
LEMMA RunFacts ==
  ASSUME CustodyInv, EndKnown, EndAuction
  PROVE  /\ Inv /\ ender \in [pc: EnderPC, seen: Lot] /\ ender.pc # "idle"
         /\ job \in [state: JobState, runs: Nat, stalled: BOOLEAN]
         /\ job.state = "active" /\ job.runs >= 1 /\ ~isEnded
         /\ seller \in Users /\ seller \in Accounts /\ Platform \in Accounts /\ seller # Platform
         /\ ender.pc # "read" => ender.seen = lot
         /\ UNCHANGED <<calls, seller, lot, raced, crashes>>
<1>1. Inv /\ ender \in [pc: EnderPC, seen: Lot] /\ job \in [state: JobState, runs: Nat, stalled: BOOLEAN]
  BY DEF CustodyInv, Inv, TypeOK
<1>2. ender.pc # "idle"
  BY DEF EndAuction, ReadEnd, PaySeller, DeliverToken, ReturnToken, NotifyEnd, MarkEnded
<1>3. job.state = "active" /\ job.runs >= 1 /\ ~isEnded
  BY <1>2, EnderPhases DEF EndKnown
<1>4. seller \in Users
  BY <1>1, <1>2 DEF Inv, TypeOK, HasDocument
<1>5. UNCHANGED <<calls, seller, lot, raced, crashes>>
  BY DEF EndAuction, ReadEnd, PaySeller, DeliverToken, ReturnToken, NotifyEnd, MarkEnded,
         document, history
<1> QED BY <1>1, <1>2, <1>3, <1>4, <1>5 DEF EndKnown, Accounts

\* What a run that does not end yet does to the errors.
LEMMA RunErrors ==
  ASSUME CustodyInv, Inv', EndKnown, EndAuction, isEnded' = isEnded, NEW a \in Accounts
  PROVE  /\ wallet[a] \in Int /\ wallet'[a] \in Int /\ Error(a) \in Int
         /\ PaidOut(a) \in Int /\ PaidOut(a)' \in Int
         /\ Error(a)' = Error(a) + (wallet'[a] - wallet[a]) - (PaidOut(a)' - PaidOut(a))
<1>1. Inv /\ UNCHANGED <<calls, seller, lot>>
  BY RunFacts
<1>2. Booked(a)' = Booked(a)
  BY <1>1 DEF Booked, Held, Spent, Earned
<1>3. /\ wallet[a] \in Int /\ Booked(a) \in Int /\ PaidOut(a) \in Int /\ Error(a) \in Int
      /\ wallet'[a] \in Int /\ PaidOut(a)' \in Int
  BY <1>1, ErrorParts, ErrorPartsNext DEF InIntegers
<1>4. Error(a)' = Error(a) + (wallet'[a] - wallet[a]) - (Booked(a)' - Booked(a))
                   - (PaidOut(a)' - PaidOut(a))
  BY <1>1, JobErrors
<1> QED BY <1>2, <1>3, <1>4

\* A run that fails is off by what it has paid.
LEMMA RunFails ==
  ASSUME CustodyInv, Inv', EndKnown, EndAuction, JobFails, isEnded' = isEnded,
         wallet' = wallet,
         faults' = faults + 1
           \/ (faults' = faults /\ (job.runs = 1 => Payout = 0 /\ Error(Platform) # 0))
  PROVE  Fails
<1>1. Platform \in Accounts /\ Inv
  BY RunFacts
<1>2. PaidOut(Platform) = 0 - Payout /\ PaidOut(Platform)' = 0 - Payout'
  BY DEF PaidOut
<1>3. Payout' = 0
  BY DEF Payout, JobFails, IdleEnder
<1>4. Payout \in Nat /\ Payout <= Most /\ Most \in Nat
  <2>1. Payout \in Nat /\ Payout <= ender.seen.bid /\ ender.seen.bid <= Most /\ ender.seen.bid \in Nat
    BY <1>1, LotAmounts
  <2> QED BY <2>1, MostLargest
<1>5. /\ wallet[Platform] \in Int /\ Error(Platform) \in Int
      /\ Error(Platform)' = Error(Platform) + (wallet'[Platform] - wallet[Platform])
                             - (PaidOut(Platform)' - PaidOut(Platform))
  BY <1>1, RunErrors
<1>6. Error(Platform)' = Error(Platform) - Payout
  BY <1>2, <1>3, <1>4, <1>5
<1>7. job.runs = 1 \/ job.runs > 1
  BY RunFacts
<1>8. /\ Error(Platform)' - Error(Platform) <= Most
      /\ Error(Platform) - Error(Platform)' <= Most
      /\ Payout = 0 => Error(Platform)' = Error(Platform)
  BY <1>4, <1>5, <1>6
<1> QED BY <1>7, <1>8 DEF Fails

\* endAuction reads the document.
LEMMA ReadEndMoney ==
  ASSUME CustodyInv, Inv', EndKnown, ReadEnd
  PROVE  GoesOn \/ Fails
<1>1. EndAuction /\ UNCHANGED <<wallet, holder, isEnded, seller>> /\ ender.pc = "read"
  BY DEF EndAuction, ReadEnd, chain, document
<1>2. Payout = 0
  BY <1>1 DEF Payout
<1>3. CASE /\ ender' = [pc |-> IF lot.bid = 0 THEN "returnToken" ELSE "paySeller", seen |-> lot]
           /\ UNCHANGED <<job, faults>>
  <2>1. /\ ender'.pc = (IF lot.bid = 0 THEN "returnToken" ELSE "paySeller") /\ ender'.seen = lot
    BY <1>3
  <2>2. Payout' = 0
    BY <2>1 DEF Payout
  <2>3. ASSUME NEW a \in Accounts PROVE Error(a)' = Error(a)
    <3>1. PaidOut(a)' = PaidOut(a)
      BY <1>1, <1>2, <2>2 DEF PaidOut
    <3> QED BY <1>1, <3>1, RunErrors
  <2>4. ~Sent'
    BY <1>1, <2>1, RunFacts DEF Sent
  <2> QED BY <1>1, <1>3, <2>1, <2>3, <2>4 DEF GoesOn
<1>4. CASE Fault /\ JobFails
  BY <1>1, <1>4, RunFails DEF Fault
<1> QED BY <1>3, <1>4 DEF ReadEnd

\* A run that goes on changes the phase alone.
LEMMA PhaseOn ==
  ASSUME CustodyInv, EndKnown, EndAuction, NEW pc, EndGoto(pc), ender.pc # "read"
  PROVE  ender'.pc = pc /\ ender'.seen = lot /\ job' = job
<1>1. ender \in [pc: EnderPC, seen: Lot] /\ ender.seen = lot
  BY RunFacts
<1> QED BY <1>1 DEF EndGoto

\* endAuction pays the seller.
LEMMA PaySellerMoney ==
  ASSUME CustodyInv, Inv', EndKnown, PaySeller
  PROVE  GoesOn \/ Fails
<1> DEFINE received == ender.seen.bid - Tax(ender.seen.bid)
<1>1. EndAuction /\ UNCHANGED <<holder, isEnded, seller>> /\ ender.pc = "paySeller"
  BY DEF EndAuction, PaySeller, document
<1>2. /\ Inv /\ ender.seen = lot /\ seller \in Accounts /\ Platform \in Accounts
      /\ seller # Platform /\ ~isEnded
  BY <1>1, RunFacts
<1>3. received \in Nat /\ received <= lot.bid /\ lot.bid \in Nat /\ lot.bid <= Most /\ Most \in Nat
  BY <1>2, LotAmounts, TaxPart, MostLargest
<1>4. Payout = 0
  BY <1>1 DEF Payout
<1>5. CASE Send(Platform, seller, received) /\ EndGoto("sendToken") /\ UNCHANGED faults
  <2>1. ender'.pc = "sendToken" /\ ender'.seen = lot /\ job' = job
    BY <1>1, <1>5, PhaseOn
  <2>2. Payout' = received
    BY <1>2, <2>1 DEF Payout, Tax
  <2>3. ASSUME NEW a \in Accounts PROVE Error(a)' = Error(a)
    <3>1. /\ wallet[a] \in Int /\ wallet'[a] \in Int /\ Error(a) \in Int
          /\ Error(a)' = Error(a) + (wallet'[a] - wallet[a]) - (PaidOut(a)' - PaidOut(a))
      BY <1>1, RunErrors
    <3>2. CASE a = Platform
      <4>1. PaidOut(a) = 0 /\ PaidOut(a)' = 0 - received
        BY <1>4, <2>2, <3>2 DEF PaidOut
      <4>2. wallet'[a] = wallet[a] - received
        BY <1>2, <1>3, <1>5, <3>2, SendMoves
      <4> QED BY <1>3, <3>1, <4>1, <4>2
    <3>3. CASE a = seller
      <4>1. PaidOut(a) = 0 /\ PaidOut(a)' = received
        BY <1>1, <1>2, <1>4, <2>2, <3>3 DEF PaidOut
      <4>2. wallet'[a] = wallet[a] + received
        BY <1>2, <1>3, <1>5, <3>3, SendMoves
      <4> QED BY <1>3, <3>1, <4>1, <4>2
    <3>4. CASE a \notin {Platform, seller}
      <4>1. PaidOut(a) = 0 /\ PaidOut(a)' = 0
        BY <1>1, <3>4 DEF PaidOut
      <4>2. wallet'[a] = wallet[a]
        BY <1>2, <1>3, <1>5, <3>4, SendMoves
      <4> QED BY <3>1, <4>1, <4>2
    <3> QED BY <3>2, <3>3, <3>4
  <2>4. ~Sent'
    BY <1>1, <1>2, <2>1 DEF Sent
  <2> QED BY <1>1, <1>5, <2>1, <2>3, <2>4 DEF GoesOn
<1>6. CASE SendFails(Platform, seller, received) /\ JobFails
  <2>1. CASE ~CanSend(Platform, received) /\ UNCHANGED <<wallet, faults>>
    <3>1. Error(Platform) # 0
      <4>1. wallet[Platform] \in Int
        BY <1>2 DEF Inv, TypeOK
      <4> QED BY <1>1, <1>2, <1>3, <2>1, <4>1, Solvent DEF CanSend
    <3> QED BY <1>1, <1>4, <1>6, <2>1, <3>1, RunFails
  <2>2. CASE Fault /\ UNCHANGED wallet
    BY <1>1, <1>6, <2>2, RunFails DEF Fault
  <2>3. CASE Fault /\ Send(Platform, seller, received)
    <3>1. wallet'[Platform] = wallet[Platform] - received
      BY <1>2, <1>3, <2>3, SendMoves
    <3>2. Payout' = 0
      BY <1>6 DEF Payout, JobFails, IdleEnder
    <3>3. PaidOut(Platform) = 0 /\ PaidOut(Platform)' = 0
      BY <1>4, <3>2 DEF PaidOut
    <3>4. /\ wallet[Platform] \in Int /\ wallet'[Platform] \in Int /\ Error(Platform) \in Int
          /\ Error(Platform)' = Error(Platform) + (wallet'[Platform] - wallet[Platform])
                                 - (PaidOut(Platform)' - PaidOut(Platform))
      BY <1>1, <1>2, RunErrors
    <3>5. Error(Platform)' = Error(Platform) - received
      BY <1>3, <3>1, <3>3, <3>4
    <3> QED BY <1>1, <1>3, <1>6, <2>3, <3>4, <3>5 DEF Fails, Fault
  <2> QED BY <1>6, <2>1, <2>2, <2>3 DEF SendFails
<1> QED BY <1>5, <1>6 DEF PaySeller

\* Steps that pay nothing, and leave what the run has paid, leave the errors.
LEMMA RunKeeps ==
  ASSUME CustodyInv, Inv', EndKnown, EndAuction, isEnded' = isEnded, wallet' = wallet,
         Payout' = Payout
  PROVE  \A a \in Accounts : Error(a)' = Error(a)
<1> SUFFICES ASSUME NEW a \in Accounts PROVE Error(a)' = Error(a)
  OBVIOUS
<1>1. seller' = seller
  BY RunFacts
<1>2. PaidOut(a)' = PaidOut(a)
  BY <1>1 DEF PaidOut
<1> QED BY <1>2, RunErrors

\* What has been paid after the seller's part of a run.
LEMMA PaidPhases ==
  ASSUME CustodyInv, Inv', EndKnown, EndAuction,
         ender.pc \in {"sendToken", "noteBuyer", "noteSeller", "noteUnsold", "mark"},
         ender'.pc \in {"noteBuyer", "noteSeller", "noteUnsold", "mark"}, ender'.seen = lot
  PROVE  Payout' = Payout
<1>1. ender.seen = lot
  BY RunFacts
<1> QED BY <1>1 DEF Payout, Tax

\* The platform holds the token until the first run sends it.
LEMMA RunHolds ==
  ASSUME CustodyInv, EndAuction, ender.pc \in {"sendToken", "returnToken"}, job.runs = 1
  PROVE  holder = Platform /\ Keepers = {}
  BY DEF CustodyInv, Custody, JobKeeps

\* endAuction sends the token to the winner.
LEMMA DeliverTokenMoney ==
  ASSUME CustodyInv, Inv', EndKnown, DeliverToken
  PROVE  GoesOn \/ Fails
<1>1. EndAuction /\ UNCHANGED <<wallet, isEnded, seller, lot>> /\ ender.pc = "sendToken"
  BY DEF EndAuction, DeliverToken, document
<1>2. Inv /\ ender.seen = lot
  BY <1>1, RunFacts
<1>3. CASE SendToken(Platform, ender.seen.bidder) /\ EndGoto("noteBuyer") /\ UNCHANGED faults
  <2>1. ender'.pc = "noteBuyer" /\ ender'.seen = lot /\ job' = job
    BY <1>1, <1>3, PhaseOn
  <2>2. \A a \in Accounts : Error(a)' = Error(a)
    BY <1>1, <2>1, PaidPhases, RunKeeps
  <2>3. lot.bidder # Nobody
    BY <1>1, <1>2 DEF Inv, EnderOK, LotOK
  <2>4. holder' = Winning
    BY <1>2, <1>3, <2>3 DEF SendToken, Winning
  <2> QED BY <1>1, <1>3, <2>1, <2>2, <2>4 DEF GoesOn
<1>4. CASE SendTokenFails(Platform, ender.seen.bidder) /\ JobFails
  <2>1. faults' = faults + 1 \/ (faults' = faults /\ job.runs # 1)
    BY <1>1, <1>4, RunHolds DEF SendTokenFails, Fault
  <2> QED BY <1>1, <1>4, <2>1, RunFails
<1> QED BY <1>3, <1>4 DEF DeliverToken

\* endAuction sends the token back to the seller.
LEMMA ReturnTokenMoney ==
  ASSUME CustodyInv, Inv', EndKnown, ReturnToken
  PROVE  GoesOn \/ Fails
<1>1. /\ EndAuction /\ UNCHANGED <<wallet, isEnded, seller, lot>>
      /\ ender.pc = "returnToken"
  BY DEF EndAuction, ReturnToken, chain, document
<1>2. Inv /\ ender.seen = lot /\ lot.bid = 0
  BY <1>1, RunFacts DEF EndKnown
<1>3. CASE SendToken(Platform, seller) /\ EndGoto("noteUnsold") /\ UNCHANGED faults
  <2>1. ender'.pc = "noteUnsold" /\ ender'.seen = lot /\ job' = job
    BY <1>1, <1>3, PhaseOn
  <2>2. Payout = 0 /\ Payout' = 0
    BY <1>1, <1>2, <2>1 DEF Payout, Tax
  <2>3. \A a \in Accounts : Error(a)' = Error(a)
    BY <1>1, <2>2, RunKeeps
  <2>4. lot.bidder = Nobody
    BY <1>2 DEF Inv, LotOK
  <2>5. holder' = Winning
    BY <1>3, <2>4 DEF SendToken, Winning
  <2> QED BY <1>1, <1>3, <2>1, <2>3, <2>5 DEF GoesOn
<1>4. CASE SendTokenFails(Platform, seller) /\ JobFails
  <2>1. faults' = faults + 1 \/ (faults' = faults /\ job.runs # 1)
    BY <1>1, <1>4, RunHolds DEF SendTokenFails, Fault
  <2> QED BY <1>1, <1>4, <2>1, RunFails
<1> QED BY <1>3, <1>4 DEF ReturnToken

\* endAuction notifies.
LEMMA NotifyEndMoney ==
  ASSUME CustodyInv, Inv', EndKnown, NotifyEnd
  PROVE  GoesOn \/ Fails
<1>1. /\ EndAuction /\ UNCHANGED <<wallet, holder, isEnded, seller, lot>>
      /\ ender.pc \in {"noteBuyer", "noteSeller", "noteUnsold"}
  BY DEF EndAuction, NotifyEnd, chain, document
<1>2. CASE (EndGoto("noteSeller") \/ EndGoto("mark")) /\ UNCHANGED faults
  <2>1. /\ ender'.pc \in {"noteSeller", "mark"} /\ ender'.seen = lot /\ job' = job
    BY <1>1, <1>2, PhaseOn
  <2>2. \A a \in Accounts : Error(a)' = Error(a)
    BY <1>1, <2>1, PaidPhases, RunKeeps
  <2>3. Sent
    BY <1>1 DEF Sent
  <2> QED BY <1>1, <1>2, <2>1, <2>2, <2>3 DEF GoesOn
<1>3. CASE Fault /\ JobFails
  BY <1>1, <1>3, RunFails DEF Fault
<1> QED BY <1>2, <1>3 DEF NotifyEnd

\* endAuction marks the document, whose books then say what the run has paid.
LEMMA MarkEndedMoney ==
  ASSUME CustodyInv, Inv', EndKnown, MarkEnded
  PROVE  Ends \/ Fails
<1>1. EndAuction /\ UNCHANGED <<wallet, holder, seller, lot>> /\ ender.pc = "mark"
  BY DEF EndAuction, MarkEnded, chain
<1>2. /\ Inv /\ ender.seen = lot /\ seller \in Accounts /\ Platform \in Accounts
      /\ seller # Platform /\ ~isEnded /\ calls' = calls
  BY <1>1, RunFacts
<1>3. CASE /\ isEnded' = TRUE /\ ender' = IdleEnder
           /\ job' = [job EXCEPT !.state = "completed"] /\ UNCHANGED faults
  <2>1. lot.bid \in Nat /\ Tax(lot.bid) \in Nat /\ Tax(lot.bid) <= lot.bid
    BY <1>2, LotAmounts, TaxPart
  <2>2. PICK part : part = lot.bid - Tax(lot.bid)
    OBVIOUS
  <2>3. part \in Nat /\ Payout = part /\ Payout' = 0
    BY <1>1, <1>2, <1>3, <2>1, <2>2 DEF Payout, IdleEnder
  <2>4. Held = lot.bid /\ Held' = lot.bid - part
    BY <1>1, <1>2, <1>3, <2>1, <2>2 DEF Held, Tax
  <2>5. ASSUME NEW a \in Accounts PROVE Error(a)' = Error(a)
    <3>1. /\ Error(a) \in Int
          /\ Error(a)' = Error(a) + (wallet'[a] - wallet[a]) - (Booked(a)' - Booked(a))
                          - (PaidOut(a)' - PaidOut(a))
      BY <1>1, <1>2, JobErrors
    <3>2. wallet'[a] = wallet[a] /\ wallet[a] \in Int
      BY <1>1, <1>2 DEF Inv, TypeOK
    <3>3. CASE a = Platform
      <4>1. /\ Booked(a) = lot.bid /\ Booked(a)' = lot.bid - part
            /\ PaidOut(a) = 0 - part /\ PaidOut(a)' = 0
        BY <2>3, <2>4, <3>3 DEF Booked, PaidOut
      <4> QED BY <2>1, <2>3, <3>1, <3>2, <4>1
    <3>4. CASE a # Platform
      <4>1. Spent(a)' = Spent(a) /\ Spent(a) \in Int
        BY <1>1, <2>1 DEF Spent
      <4>2. Earned(a) = 0 /\ Earned(a)' = (IF a = seller THEN part ELSE 0)
        BY <1>1, <1>2, <1>3, <2>2 DEF Earned, Tax
      <4>3. PaidOut(a) = (IF a = seller THEN part ELSE 0) /\ PaidOut(a)' = 0
        BY <1>1, <2>3, <3>4 DEF PaidOut
      <4>4. Booked(a) = 0 - Spent(a) /\ Booked(a)' = Earned(a)' - Spent(a)
        BY <3>4, <4>1, <4>2 DEF Booked
      <4> QED BY <2>3, <3>1, <3>2, <4>1, <4>2, <4>3, <4>4
    <3> QED BY <3>3, <3>4
  <2> QED BY <1>1, <1>3, <2>5 DEF Ends
<1>4. CASE Fault /\ JobFails /\ UNCHANGED isEnded
  BY <1>1, <1>4, RunFails DEF Fault
<1> QED BY <1>3, <1>4 DEF MarkEnded

\* A step of endAuction, one way or another.
LEMMA EnderMoney ==
  ASSUME CustodyInv, Inv', EndKnown, EndAuction
  PROVE  GoesOn \/ Fails \/ Ends
  BY ReadEndMoney, PaySellerMoney, DeliverTokenMoney, ReturnTokenMoney, NotifyEndMoney,
     MarkEndedMoney DEF EndAuction

\* The run goes on.
LEMMA GoesOnBooks ==
  ASSUME CustodyInv, CustodyInv', EndAuction, EndKnown, Bounded, faults = 0 => Exact /\ Delivered,
         GoesOn
  PROVE  EndKnown' /\ Bounded' /\ (faults' = 0 => Exact' /\ Delivered')
<1>1. /\ Inv /\ Inv' /\ ender.pc # "idle" /\ Platform \in Accounts
      /\ job.state = "active" /\ ~isEnded
      /\ UNCHANGED <<calls, seller, lot, raced, crashes>>
  BY RunFacts DEF CustodyInv
<1>2. EndKnown'
  BY <1>1 DEF GoesOn, EndKnown
<1>3. Bounded'
  <2>1. Charged' = Charged /\ Charged \in Nat
    BY <1>1, ChargedNat DEF GoesOn, Charged, Cost
  <2> QED BY <1>1, <2>1, ChargeStep DEF GoesOn
<1>4. ASSUME faults' = 0 PROVE Exact' /\ Delivered'
  <2>1. Exact /\ Delivered /\ job.runs = 1
    BY <1>1, <1>4 DEF GoesOn, Exact
  <2>2. Exact'
    BY <1>1, <2>1 DEF Exact, GoesOn, Accounts
  <2>3. Keepers' = Keepers /\ Winning' = Winning
    BY <1>1, KeepersStay DEF Winning
  <2>4. ASSUME Sent' PROVE /\ Keepers = {} => holder' = Winning
                           /\ \A c \in Keepers : calls[c].user = Winning
    <3>1. CASE Sent /\ holder' = holder
      BY <2>1, <3>1 DEF Delivered
    <3>2. CASE ender.pc \in {"sendToken", "returnToken"} /\ holder' = Winning
      BY <2>1, <3>2, RunHolds
    <3> QED BY <2>4, <3>1, <3>2 DEF GoesOn
  <2>5. seller' # Nobody /\ job'.state = "none" => \E c \in Calls : calls'[c].pc = "addJob"
    BY <1>1 DEF GoesOn
  <2>6. ASSUME Sent' PROVE /\ Keepers' = {} => holder' = Winning'
                           /\ \A c \in Keepers' : calls'[c].user = Winning'
    BY <1>1, <2>3, <2>4, <2>6
  <2> QED BY <2>2, <2>5, <2>6 DEF Delivered
<1> QED BY <1>2, <1>3, <1>4

\* The run fails.
LEMMA FailsBooks ==
  ASSUME CustodyInv, CustodyInv', EndAuction, EndKnown, Bounded, faults = 0 => Exact /\ Delivered,
         Fails
  PROVE  EndKnown' /\ Bounded' /\ (faults' = 0 => Exact' /\ Delivered')
<1>1. /\ Inv /\ Inv' /\ ender.pc # "idle" /\ Platform \in Accounts
      /\ job \in [state: JobState, runs: Nat, stalled: BOOLEAN]
      /\ job.state = "active" /\ job.runs >= 1 /\ ~isEnded
      /\ UNCHANGED <<calls, seller, lot, raced, crashes>>
  BY RunFacts DEF CustodyInv
<1>2. ender'.pc = "idle" /\ job'.state = "failed" /\ job'.runs = job.runs /\ isEnded' = isEnded
  BY <1>1 DEF Fails, JobFails, IdleEnder
<1>3. EndKnown'
  BY <1>1, <1>2 DEF EndKnown
<1>4. faults \in Nat /\ faults' \in Nat /\ Charged \in Nat /\ Charged' \in Nat
  BY <1>1, ChargedNat, ChargedNatNext
<1>5. Charged' = Charged + (faults' - faults) + (IF job.runs > 1 THEN 1 ELSE 0)
  BY <1>1, <1>2, <1>4 DEF Charged, Cost
<1>6. Bounded'
  <2> DEFINE r == IF job.runs > 1 THEN 1 ELSE 0
  <2>1. Charged' = Charged + r \/ Charged' = Charged + 1 + r
    <3>1. CASE faults' = faults
      BY <1>4, <1>5, <3>1
    <3>2. CASE faults' = faults + 1
      <4>1. faults' - faults = 1
        BY <1>4, <3>2
      <4> QED BY <1>4, <1>5, <4>1
    <3> QED BY <3>1, <3>2 DEF Fails
  <2>2. r \in {0, 1} /\ (job.runs > 1 => r = 1)
    OBVIOUS
  <2>3. faults' = faults + 1 => Charged' = Charged + 1 + r
    BY <1>4, <1>5
  <2> HIDE DEF r
  <2>4. CASE Error(Platform)' = Error(Platform)
    <3>1. Charged <= Charged'
      BY <1>4, <2>1, <2>2
    <3> QED BY <1>1, <2>4, <3>1, ChargeStep
  <2>5. CASE /\ faults' = faults + 1 \/ job.runs > 1
             /\ Error(Platform)' - Error(Platform) <= Most
             /\ Error(Platform) - Error(Platform)' <= Most
    <3>1. Charged + 1 <= Charged'
      BY <1>4, <2>1, <2>2, <2>3, <2>5
    <3> QED BY <1>1, <1>4, <2>5, <3>1, ChargeStep
  <2> QED BY <2>4, <2>5 DEF Fails
<1>7. faults' # 0
  <2> SUFFICES ASSUME faults' = 0 PROVE FALSE
    OBVIOUS
  <2>1. faults = 0 /\ Exact
    BY <1>4 DEF Fails
  <2>2. job.runs = 1 /\ Error(Platform) = 0
    BY <1>1, <2>1, NoCharge DEF Exact
  <2> QED BY <1>4, <2>1, <2>2 DEF Fails
<1> QED BY <1>3, <1>6, <1>7

\* The run ends.
LEMMA EndsBooks ==
  ASSUME CustodyInv, CustodyInv', EndAuction, EndKnown, Bounded, faults = 0 => Exact /\ Delivered,
         Ends
  PROVE  EndKnown' /\ Bounded' /\ (faults' = 0 => Exact' /\ Delivered')
<1>1. /\ Inv /\ Inv' /\ ender.pc # "idle" /\ Platform \in Accounts
      /\ job \in [state: JobState, runs: Nat, stalled: BOOLEAN]
      /\ job.state = "active" /\ job.runs >= 1 /\ ~isEnded
      /\ UNCHANGED <<calls, seller, lot, raced, crashes>>
  BY RunFacts DEF CustodyInv
<1>2. /\ ender'.pc = "idle" /\ job'.state = "completed" /\ job'.runs = job.runs
      /\ isEnded' = TRUE /\ faults' = faults
  BY <1>1 DEF Ends, IdleEnder
<1>3. EndKnown'
  BY <1>1, <1>2 DEF EndKnown
<1>4. faults \in Nat /\ faults' \in Nat /\ Charged \in Nat /\ Charged' \in Nat
  BY <1>1, ChargedNat, ChargedNatNext
<1>5. Bounded'
  <2>1. Charged <= Charged'
    BY <1>1, <1>2, <1>4 DEF Charged, Cost
  <2> QED BY <1>1, <2>1, ChargeStep DEF Ends
<1>6. ASSUME faults' = 0 PROVE Exact' /\ Delivered'
  <2>1. Exact /\ Delivered /\ job.runs = 1 /\ Sent
    BY <1>1, <1>2, <1>6 DEF Exact, Sent, Ends
  <2>2. Exact'
    BY <1>1, <1>2, <2>1 DEF Exact, Ends, Accounts
  <2>3. Keepers' = Keepers /\ Winning' = Winning /\ holder' = holder
    BY <1>1, KeepersStay DEF Winning, Ends
  <2>4. /\ Keepers = {} => holder = Winning
        /\ \A c \in Keepers : calls[c].user = Winning
    BY <2>1 DEF Delivered
  <2>5. /\ Keepers' = {} => holder' = Winning'
        /\ \A c \in Keepers' : calls'[c].user = Winning'
    BY <1>1, <2>3, <2>4
  <2> QED BY <1>2, <2>2, <2>5 DEF Delivered
<1> QED BY <1>3, <1>5, <1>6

\* A step of endAuction preserves the invariant.
LEMMA EnderBooks ==
  ASSUME CustodyInv, CustodyInv', BooksInv, EndAuction
  PROVE  BooksInv'
<1> SUFFICES ASSUME Clean' PROVE EndKnown' /\ Bounded' /\ (faults' = 0 => Exact' /\ Delivered')
  BY DEF BooksInv
<1>1. UNCHANGED <<raced, crashes>>
  BY DEF EndAuction, ReadEnd, PaySeller, DeliverToken, ReturnToken, NotifyEnd, MarkEnded,
         history
<1>2. Clean
  BY <1>1 DEF Clean
<1>3. EndKnown /\ Bounded /\ (faults = 0 => Exact /\ Delivered)
  BY <1>2 DEF BooksInv
<1>4. GoesOn \/ Fails \/ Ends
  BY <1>3, EnderMoney DEF CustodyInv
<1> QED BY <1>3, <1>4, GoesOnBooks, FailsBooks, EndsBooks

-----------------------------------------------------------------------------
(* The job preserves the invariant                                          *)

\* The clock and Bull move no money, and no token.
LEMMA QueueBooks ==
  ASSUME CustodyInv, CustodyInv', BooksInv,
         Expire \/ PromoteJob \/ StartJob \/ RetryJob \/ UNCHANGED vars
  PROVE  BooksInv'
<1> SUFFICES ASSUME Clean' PROVE EndKnown' /\ Bounded' /\ (faults' = 0 => Exact' /\ Delivered')
  BY DEF BooksInv
<1>1. /\ Inv /\ Inv' /\ Platform \in Accounts
      /\ job \in [state: JobState, runs: Nat, stalled: BOOLEAN]
  BY DEF CustodyInv, Inv, TypeOK, Accounts
<1>2. UNCHANGED <<wallet, holder, seller, lot, isEnded, calls, faults, raced, crashes>>
  BY DEF Expire, PromoteJob, StartJob, RetryJob, vars, chain, document, history
<1>3. EndKnown /\ Bounded /\ (faults = 0 => Exact /\ Delivered)
  BY <1>2 DEF BooksInv, Clean
<1>4. \/ job' = job /\ ender' = ender
      \/ /\ ender' = ender /\ job'.runs = job.runs
         /\ job.state \in {"delayed", "failed"} /\ job'.state = "waiting"
      \/ /\ job.state = "waiting" /\ job'.state = "active" /\ job'.runs = job.runs + 1
         /\ ender'.pc = "read"
  BY <1>1 DEF Expire, PromoteJob, StartJob, RetryJob, vars, IdleEnder
<1>5. EndKnown'
  BY <1>2, <1>3, <1>4 DEF EndKnown
<1>6. Payout' = Payout
  BY <1>2, <1>3, <1>4 DEF EndKnown, Payout
<1>7. \A a \in Accounts : Error(a)' = Error(a)
  <2> SUFFICES ASSUME NEW a \in Accounts PROVE Error(a)' = Error(a)
    OBVIOUS
  <2>1. PaidOut(a)' = PaidOut(a) /\ Booked(a)' = Booked(a)
    BY <1>2, <1>6 DEF PaidOut, Booked, Held, Earned, Spent
  <2>2. InFlight(a)' = InFlight(a)
    BY <1>2 DEF InFlight, MovedBy
  <2> QED BY <1>2, <2>1, <2>2 DEF Error
<1>8. Bounded'
  <2>1. Charged' = Charged /\ Charged \in Nat
    BY <1>1, <1>2, <1>3, <1>4, ChargedNat DEF Charged, Cost, EndKnown
  <2>2. Error(Platform)' = Error(Platform)
    BY <1>1, <1>7
  <2> QED BY <1>1, <1>3, <2>1, <2>2, ChargeStep
<1>9. ASSUME faults' = 0 PROVE Exact' /\ Delivered'
  <2>1. Exact /\ Delivered
    BY <1>2, <1>3, <1>9
  <2>2. Exact'
    BY <1>1, <1>2, <1>4, <1>7, <2>1 DEF Exact, Accounts
  <2>3. Keepers' = Keepers /\ Winning' = Winning
    BY <1>2, KeepersStay DEF Winning
  <2>4. Sent' => Sent
    BY <1>2, <1>4 DEF Sent
  <2>5. Sent => /\ Keepers = {} => holder = Winning
                /\ \A c \in Keepers : calls[c].user = Winning
    BY <2>1 DEF Delivered
  <2>6. Sent' => /\ Keepers' = {} => holder' = Winning'
                 /\ \A c \in Keepers' : calls'[c].user = Winning'
    BY <1>2, <2>3, <2>4, <2>5
  <2>7. seller' # Nobody /\ job'.state = "none" => \E c \in Calls : calls'[c].pc = "addJob"
    BY <1>2, <1>4, <2>1 DEF Delivered
  <2> QED BY <2>2, <2>6, <2>7 DEF Delivered
<1> QED BY <1>5, <1>8, <1>9

-----------------------------------------------------------------------------
(* The theorem                                                              *)

\* Nothing is in flight while no call is.
LEMMA QuietFlight ==
  ASSUME Inv, \A c \in Calls : calls[c].pc = "idle"
  PROVE  \A a : InFlight(a) = 0
<1> SUFFICES ASSUME NEW a PROVE InFlight(a) = 0
  OBVIOUS
<1>1. PICK f : f = MovedBy(a)
  OBVIOUS
<1>2. \A c \in Calls : f[c] = 0
  BY <1>1, NothingMoved DEF MovedBy
<1> QED BY <1>1, <1>2, CallsAssumption, SumZero DEF InFlight

\* The books are blank at first.
LEMMA BooksInit == Init => BooksInv
<1> SUFFICES ASSUME Init PROVE EndKnown /\ Bounded /\ Exact /\ Delivered
  BY DEF BooksInv
<1>1. Inv
  BY InvInit
<1>2. \A c \in Calls : calls[c] = IdleFrame /\ calls[c].pc = "idle"
  BY DEF Init, IdleFrame
<1>3. \A a : InFlight(a) = 0
  BY <1>1, <1>2, QuietFlight
<1>4. /\ ender.pc = "idle" /\ job.state = "none" /\ job.runs = 0 /\ ~isEnded /\ seller = Nobody
      /\ lot = NoLot /\ faults = 0
  BY DEF Init, IdleEnder
<1>5. lot.bid = 0 /\ lot.bidder = Nobody
  BY <1>4 DEF NoLot
<1>6. \A a \in Accounts : Error(a) = 0
  <2> SUFFICES ASSUME NEW a \in Accounts PROVE Error(a) = 0
    OBVIOUS
  <2>1. wallet[a] = Funds
    BY DEF Init
  <2>2. Booked(a) = 0
    BY <1>4, <1>5 DEF Booked, Held, Earned, Spent
  <2>3. PaidOut(a) = 0
    BY <1>4 DEF PaidOut, Payout
  <2> QED BY <1>3, <2>1, <2>2, <2>3 DEF Error
<1>7. Bounded
  <2>1. Charged = 0 /\ Most \in Nat /\ Error(Platform) = 0
    BY <1>4, <1>6, MostLargest DEF Charged, Cost, Accounts
  <2>2. Charged * Most = 0
    BY <2>1
  <2> QED BY <2>1, <2>2 DEF Bounded
<1> QED BY <1>2, <1>4, <1>6, <1>7 DEF EndKnown, Exact, Delivered, Sent, Accounts

\* Every step preserves the invariant.
LEMMA BooksNext == CustodyInv /\ CustodyInv' /\ BooksInv /\ [Next]_vars => BooksInv'
<1> SUFFICES ASSUME CustodyInv, CustodyInv', BooksInv, [Next]_vars PROVE BooksInv'
  OBVIOUS
<1>1. ASSUME NEW c \in Calls, Serve(c) \/ (\E u \in Users : StartAuction(c, u))
                              \/ \E u \in Users, b \in Bids : Bid(c, u, b)
      PROVE  BooksInv'
  <2>1. CallStep(c)
    BY <1>1 DEF Serve, CallStep, Unpaid
  <2> QED BY <2>1, CallBooks
<1>2. CASE EndAuction
  BY <1>2, EnderBooks
<1>3. CASE Expire \/ PromoteJob \/ StartJob \/ RetryJob \/ UNCHANGED vars
  BY <1>3, QueueBooks
<1>4. CASE Crash
  <2>1. crashes' # 0
    BY <1>4 DEF Crash, CustodyInv, Inv, TypeOK
  <2> QED BY <2>1 DEF BooksInv, Clean
<1> QED BY <1>1, <1>2, <1>3, <1>4 DEF Next

\* The invariant gives the books.
LEMMA BooksClosed == CustodyInv /\ BooksInv => ClosedBooks
<1> SUFFICES ASSUME CustodyInv, BooksInv, Quiet, ~raced, crashes = 0
             PROVE  /\ OffByAtMost(faults + IF job.runs > 1 THEN job.runs - 1 ELSE 0)
                    /\ faults = 0 =>
                         /\ \A u \in Users : wallet[u] = Funds - Spent(u) + Earned(u)
                         /\ isEnded => holder = IF lot.bidder = Nobody THEN seller ELSE lot.bidder
                         /\ seller # Nobody /\ ~isEnded => holder = Platform
  BY DEF ClosedBooks
<1>1. Inv /\ EndKnown /\ Bounded /\ (faults = 0 => Exact /\ Delivered)
  BY DEF CustodyInv, BooksInv, Clean
<1>2. ender.pc = "idle" /\ \A c \in Calls : calls[c].pc = "idle"
  BY DEF Quiet
<1>3. \A a : InFlight(a) = 0 /\ PaidOut(a) = 0
  <2>1. Payout = 0
    BY <1>2 DEF Payout
  <2> QED BY <1>1, <1>2, <2>1, QuietFlight DEF PaidOut
<1>4. \A a \in Accounts : /\ wallet[a] \in Int /\ Booked(a) \in Int
                          /\ Error(a) = wallet[a] - Funds - Booked(a)
  BY <1>1, <1>3, ErrorParts DEF InIntegers, Error
<1>5. OffByAtMost(Cost)
  <2>1. PICK most \in Bids : most = Most
    BY BidsAssumption DEF Most
  <2>2. Charged = Cost
    BY <1>2 DEF Charged
  <2>3. PICK e, k : e = Error(Platform) /\ k = Cost * most
    OBVIOUS
  <2>4. k \in Nat /\ -k <= e /\ e <= k
    <3>1. Cost \in Nat /\ most \in Nat
      BY <1>1, <2>2, ChargedNat
    <3> QED BY <1>1, <2>1, <2>2, <2>3, <3>1 DEF Bounded
  <2>5. Booked(Platform) = Held /\ Platform \in Accounts
    BY DEF Booked, Accounts
  <2>6. wallet[Platform] \in Int /\ Held \in Int /\ e = wallet[Platform] - Funds - Held
    BY <1>4, <2>3, <2>5
  <2>7. wallet[Platform] - (Funds + Held) <= k /\ (Funds + Held) - wallet[Platform] <= k
    BY <2>4, <2>6
  <2> QED BY <2>3, <2>7 DEF OffByAtMost
<1>6. ASSUME faults = 0, NEW u \in Users PROVE wallet[u] = Funds - Spent(u) + Earned(u)
  <2>1. u \in Accounts /\ u # Platform /\ Error(u) = 0
    BY <1>1, <1>6 DEF Exact, Accounts
  <2>2. Booked(u) = Earned(u) - Spent(u)
    BY <2>1 DEF Booked
  <2>3. Earned(u) \in Int /\ Spent(u) \in Int
    BY <1>1, LotAmounts DEF Earned, Spent
  <2> QED BY <1>4, <2>1, <2>2, <2>3
<1>7. Keepers = {}
  BY <1>2 DEF Keepers
<1>8. ASSUME faults = 0, isEnded
      PROVE  holder = IF lot.bidder = Nobody THEN seller ELSE lot.bidder
  BY <1>1, <1>7, <1>8 DEF Delivered, Sent, Winning
<1>9. ASSUME faults = 0, seller # Nobody, ~isEnded PROVE holder = Platform
  <2>1. job.state \in JobState
    BY <1>1 DEF Inv, TypeOK
  <2>2. job.state \notin {"none", "failed", "active", "completed"}
    BY <1>1, <1>2, <1>9 DEF Delivered, Exact, EndKnown
  <2>3. job.runs = 0 /\ JobKeeps
    BY <1>1, <1>9, <2>1, <2>2 DEF JobState, Exact, JobKeeps
  <2> QED BY <2>3 DEF CustodyInv, Custody
<1> QED BY <1>5, <1>6, <1>8, <1>9 DEF Cost

\* The books close, whatever the number of users and calls and whatever they bid:
\* while no bid was saved over another one or over the end and the process did not
\* restart, the platform is off by one bid at most for each failure and each further
\* run, and without a failure every wallet and the token are where the document says.
THEOREM BooksClose == Spec => []ClosedBooks
  BY CustodyInit, CustodyNext, BooksInit, BooksNext, BooksClosed, PTL DEF Spec
=============================================================================
