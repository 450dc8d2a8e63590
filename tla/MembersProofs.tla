--------------------------- MODULE MembersProofs ---------------------------
(* Theorems about Members, for every number of clients, overlapping pushes,  *)
(* users, notifications, failures and restarts.                              *)
EXTENDS Members, DataLemmas

USE MembersAssumption

-----------------------------------------------------------------------------
(* The inductive invariant                                                  *)

\* The fields of the frames, the subscriptions and the documents.
SignupFields == {"pc", "input", "wallet"}
PushFields == {"pc", "note", "owner"}
FeedFields == {"user", "queue", "heard", "before"}
NoteFields == {"owner", "isRead"}

\* A record with these fields.
Rec(r, fields) == DOMAIN r = fields /\ r = [x \in fields |-> r[x]]

\* A sign-up that is about to save a user has a wallet, paid for in development.
SignupOK(f) ==
  /\ Rec(f, SignupFields)
  /\ f.pc = "save" => f.wallet \in Nat /\ (IsDev => f.wallet \in funded)

\* What holds of the accounts, whatever the notifications do.
AccountInv ==
  /\ DOMAIN signups = Clients /\ signups = [c \in Clients |-> signups[c]]
  /\ \A c \in Clients : SignupOK(signups[c])
  /\ wallets \in Nat
  /\ DOMAIN users \subseteq Nat
  /\ IsDev => DOMAIN users \subseteq funded

\* What is published is stored, and what is not yet stored is stored by nobody.
PushOK(f, stored) ==
  /\ Rec(f, PushFields)
  /\ f.pc \in {"idle", "save", "publish"}
  /\ f.pc = "idle" => f.note = NoId
  /\ f.pc # "idle" => f.note \in N!NoteIds /\ f.owner \in Nat
  /\ f.pc = "save" => f.note \notin DOMAIN stored
  /\ f.pc = "publish" => f.note \in DOMAIN stored /\ stored[f.note].owner = f.owner

\* Calls of push that overlap have different notes.
PushesOK ==
  /\ DOMAIN pushes = Pushers /\ pushes = [k \in Pushers |-> pushes[k]]
  /\ \A k \in Pushers : PushOK(pushes[k], notes)
  /\ \A k, l \in Pushers : pushes[k].note = pushes[l].note /\ pushes[k].pc # "idle" => k = l

\* What is stored are notifications.
NotesOK ==
  /\ DOMAIN notes \subseteq N!NoteIds /\ notes = [n \in DOMAIN notes |-> notes[n]]
  /\ \A n \in DOMAIN notes : Rec(notes[n], NoteFields)

\* What push publishes.
Payload == [note: N!NoteIds, owner: Nat]

\* What waits for a subscriber is stored, and a client who is not subscribed waits
\* for nothing and has heard nothing.
FeedOK(f, stored) ==
  /\ Rec(f, FeedFields)
  /\ f.queue \in Seq(Payload)
  /\ \A i \in 1..Len(f.queue) :
       f.queue[i].note \in DOMAIN stored /\ stored[f.queue[i].note].owner = f.queue[i].owner
  /\ \A n \in f.heard : n \in DOMAIN stored /\ stored[n].owner = f.user
  /\ f.user = NoId => f.queue = <<>> /\ f.heard = {}

\* Every subscription is as FeedOK says.
FeedsOK ==
  /\ DOMAIN feeds = Clients /\ feeds = [c \in Clients |-> feeds[c]]
  /\ \A c \in Clients : FeedOK(feeds[c], notes)

\* The parts together: NothingMissed needs all the others to be inductive.
Inv == AccountInv /\ PushesOK /\ NotesOK /\ FeedsOK /\ NothingMissed

-----------------------------------------------------------------------------
(* Accounts                                                                 *)

\* A step of the notifications leaves the accounts as they are.
LEMMA AccountStays ==
  ASSUME AccountInv, UNCHANGED <<users, accountVars>>
  PROVE  AccountInv'
  BY DEF AccountInv, SignupOK, accountVars

\* One sign-up goes on.
LEMMA OneSignup ==
  ASSUME AccountInv, NEW c \in Clients, NEW f, signups' = [signups EXCEPT ![c] = f],
         funded \subseteq funded', Rec(f, SignupFields),
         f.pc = "save" => f.wallet \in Nat /\ (IsDev => f.wallet \in funded'),
         wallets' \in Nat, DOMAIN users' \subseteq Nat, IsDev => DOMAIN users' \subseteq funded'
  PROVE  AccountInv'
  BY DEF AccountInv, SignupOK

\* A client who is not signing up.
LEMMA NoSignupFields == Rec(A!NoSignup, SignupFields) /\ A!NoSignup.pc = "idle"
  BY DEF Rec, SignupFields, A!NoSignup

\* Sign-ups and log-ins, await by await, keep what the invariant says of accounts.
LEMMA AccountStep ==
  ASSUME AccountInv, A!Next
  PROVE  AccountInv'
<1>1. PICK c \in Clients : \/ \E input \in A!Input : A!Signup(c, input)
                           \/ A!CreateWallet(c) \/ A!SaveUser(c)
                           \/ \E e \in Emails, w \in Passwords : A!Login(c, e, w)
  BY DEF A!Next
<1>2. CASE \E input \in A!Input : A!Signup(c, input)
  <2>1. PICK input : A!Signup(c, input)
    BY <1>2
  <2>2. PICK f : f = [pc |-> "wallet", input |-> input, wallet |-> NoId]
    OBVIOUS
  <2>3. Rec(f, SignupFields) /\ f.pc # "save"
    BY <2>2 DEF Rec, SignupFields
  <2> QED
    BY <2>1, <2>2, <2>3, OneSignup DEF A!Signup, AccountInv
<1>3. CASE A!CreateWallet(c)
  <2>0. wallets' \in Nat /\ users' = users
    BY <1>3 DEF A!CreateWallet, AccountInv
  <2>1. CASE A!Return(c)
    <3>1. funded \subseteq funded'
      BY <1>3 DEF A!CreateWallet
    <3> QED
      BY <2>0, <2>1, <3>1, NoSignupFields, OneSignup DEF A!Return, AccountInv
  <2>2. CASE ~A!Return(c)
    <3>1. /\ funded' = IF IsDev THEN funded \cup {wallets'} ELSE funded
          /\ signups' = [signups EXCEPT ![c].pc = "save", ![c].wallet = wallets']
      BY <1>3, <2>2 DEF A!CreateWallet
    <3>2. PICK f : f = [signups[c] EXCEPT !.pc = "save", !.wallet = wallets']
      OBVIOUS
    <3>3. Rec(f, SignupFields) /\ f.wallet = wallets'
      BY <3>2 DEF Rec, SignupFields, AccountInv, SignupOK
    <3>4. signups' = [signups EXCEPT ![c] = f]
      BY <3>1, <3>2 DEF AccountInv
    <3> QED
      BY <2>0, <3>1, <3>3, <3>4, OneSignup DEF AccountInv
  <2> QED
    BY <2>1, <2>2
<1>4. CASE A!SaveUser(c)
  <2>1. A!Return(c) /\ UNCHANGED <<funded, wallets>> /\ signups[c].pc = "save"
        /\ users' \in {users, A!With(users, signups[c].wallet, signups[c].input)}
    BY <1>4 DEF A!SaveUser
  <2>2. signups[c].wallet \in Nat /\ (IsDev => signups[c].wallet \in funded)
    BY <2>1 DEF AccountInv, SignupOK
  <2>3. DOMAIN users' \subseteq Nat /\ (IsDev => DOMAIN users' \subseteq funded)
    BY <2>1, <2>2 DEF AccountInv, A!With
  <2> QED
    BY <2>1, <2>3, NoSignupFields, OneSignup DEF A!Return, AccountInv
<1>5. CASE \E e \in Emails, w \in Passwords : A!Login(c, e, w)
  BY <1>5, AccountStays DEF A!Login, accountVars
<1> QED
  BY <1>1, <1>2, <1>3, <1>4, <1>5

-----------------------------------------------------------------------------
(* Notifications                                                            *)

\* The variables of Notification without those it shares with Account.
noteState == <<notes, pushes, feeds, dropped>>

\* A step of the accounts.
LEMMA NotesStay ==
  ASSUME PushesOK, NotesOK, FeedsOK, NothingMissed, UNCHANGED noteState
  PROVE  PushesOK' /\ NotesOK' /\ FeedsOK' /\ NothingMissed'
  BY DEF noteState, PushesOK, PushOK, NotesOK, FeedsOK, FeedOK, NothingMissed,
         N!NothingMissed

\* Notifications only grow, and keep their owners.
Grown ==
  \A n \in DOMAIN notes : n \in DOMAIN notes' /\ notes'[n].owner = notes[n].owner

\* A queue with its first payload taken, and with one more.
LEMMA TailFact ==
  ASSUME NEW q \in Seq(Payload), q # <<>>
  PROVE  /\ Tail(q) \in Seq(Payload) /\ Len(Tail(q)) = Len(q) - 1
         /\ \A i \in 1..Len(Tail(q)) : i + 1 \in 1..Len(q) /\ Tail(q)[i] = q[i + 1]
         /\ Head(q) = q[1] /\ Len(q) \in Nat \ {0}
  OBVIOUS

\* A queue with one payload more at its end.
LEMMA AppendFact ==
  ASSUME NEW q \in Seq(Payload), NEW p \in Payload
  PROVE  /\ Append(q, p) \in Seq(Payload) /\ Len(Append(q, p)) = Len(q) + 1
         /\ \A i \in 1..Len(q) : Append(q, p)[i] = q[i] /\ i \in 1..Len(Append(q, p))
         /\ Append(q, p)[Len(q) + 1] = p /\ Len(q) \in Nat
         /\ Len(q) + 1 \in 1..Len(Append(q, p))
  OBVIOUS

\* A feed that does not change stays in order.
LEMMA FeedsStay ==
  ASSUME FeedsOK, Grown, feeds' = feeds
  PROVE  FeedsOK'
  BY DEF FeedsOK, FeedOK, Grown

\* One subscription goes on, while what is stored stays.
LEMMA OneFeed ==
  ASSUME FeedsOK, notes' = notes, NEW c \in Clients, NEW f, FeedOK(f, notes),
         feeds' = [feeds EXCEPT ![c] = f]
  PROVE  FeedsOK'
<1>1. /\ DOMAIN feeds' = Clients /\ feeds' = [d \in Clients |-> feeds'[d]]
      /\ \A d \in Clients : feeds'[d] = IF d = c THEN f ELSE feeds[d]
  BY DEF FeedsOK
<1>2. \A d \in Clients : FeedOK(feeds'[d], notes)
  BY <1>1 DEF FeedsOK
<1> QED
  BY <1>1, <1>2 DEF FeedsOK

\* A client who is not subscribed.
LEMMA NoFeedOK ==
  ASSUME NEW stored
  PROVE  FeedOK(N!NoFeed, stored) /\ N!NoFeed.user = NoId
<1>1. <<>> \in Seq(Payload) /\ Len(<<>>) = 0
  OBVIOUS
<1>2. /\ Rec(N!NoFeed, FeedFields) /\ N!NoFeed.queue = <<>>
      /\ N!NoFeed.heard = {} /\ N!NoFeed.user = NoId
  BY DEF Rec, FeedFields, N!NoFeed
<1>3. \A i \in 1..Len(N!NoFeed.queue) : FALSE
  BY <1>1, <1>2
<1> QED
  BY <1>1, <1>2, <1>3 DEF FeedOK

\* A call of push that has not begun, or has returned.
LEMMA NoPushFact ==
  /\ Rec(N!NoPush, PushFields) /\ N!NoPush.pc = "idle" /\ N!NoPush.note = NoId
  /\ NoId \notin N!NoteIds
  BY DEF Rec, PushFields, N!NoPush, N!NoteIds

\* One push goes on with a note that no other one has, or returns.
LEMMA OnePush ==
  ASSUME PushesOK, Grown, NEW k \in Pushers, NEW f, pushes' = [pushes EXCEPT ![k] = f],
         PushOK(f, notes'),
         f.pc # "idle" => \A l \in Pushers : l # k => pushes[l].note # f.note,
         \A l \in Pushers : l # k /\ pushes[l].pc = "save" => pushes[l].note \notin DOMAIN notes'
  PROVE  PushesOK'
<1>1. DOMAIN pushes' = Pushers /\ pushes' = [l \in Pushers |-> pushes'[l]]
      /\ pushes'[k] = f /\ \A l \in Pushers : l # k => pushes'[l] = pushes[l]
  BY DEF PushesOK
<1>2. \A l \in Pushers : l # k => PushOK(pushes[l], notes')
  BY DEF PushesOK, PushOK, Grown
<1>3. \A l \in Pushers : PushOK(pushes'[l], notes')
  BY <1>1, <1>2
<1>4. ASSUME NEW l \in Pushers, NEW m \in Pushers, pushes'[l].note = pushes'[m].note,
             pushes'[l].pc # "idle"
      PROVE  l = m
  BY <1>1, <1>4, <1>3, NoPushFact DEF PushesOK, PushOK
<1> QED
  BY <1>1, <1>2, <1>4 DEF PushesOK

\* push takes an id that no note and no other call has.
LEMMA PushStep ==
  ASSUME Inv, NEW k \in Pushers, NEW u \in DOMAIN users, N!Push(k, u)
  PROVE  PushesOK' /\ NotesOK' /\ FeedsOK' /\ NothingMissed'
<1> USE DEF Inv
<1>1. PICK n \in N!NoteIds :
        /\ n \notin DOMAIN notes /\ \A l \in Pushers : pushes[l].note # n
        /\ pushes' = [pushes EXCEPT ![k] = [pc |-> "save", note |-> n, owner |-> u]]
  BY DEF N!Push, N!Unused
<1>2. UNCHANGED <<notes, feeds, dropped>> /\ pushes[k].pc = "idle" /\ u \in Nat
  BY DEF N!Push, AccountInv
<1>3. PICK f : f = [pc |-> "save", note |-> n, owner |-> u]
  OBVIOUS
<1>4. PushOK(f, notes') /\ f.note = n
  BY <1>1, <1>2, <1>3 DEF PushOK, Rec, PushFields
<1>5. Grown
  BY <1>2 DEF Grown
<1>6. \A l \in Pushers : pushes[l].pc = "save" => pushes[l].note \notin DOMAIN notes'
  BY <1>2 DEF PushesOK, PushOK
<1>7. PushesOK'
  BY <1>1, <1>3, <1>4, <1>5, <1>6, OnePush
<1>8. \A m \in DOMAIN notes : \A l \in Pushers : pushes[l].note = m => pushes'[l].note = m
  BY <1>1, <1>2, NoPushFact DEF PushesOK, PushOK, NotesOK
<1>9. NothingMissed'
  BY <1>2, <1>8 DEF NothingMissed, N!NothingMissed
<1> QED
  BY <1>2, <1>5, <1>7, <1>9, FeedsStay DEF NotesOK

\* push saves its note, and goes on to publish it or fails.
LEMMA SaveNoteStep ==
  ASSUME Inv, NEW k \in Pushers, N!SaveNote(k)
  PROVE  PushesOK' /\ NotesOK' /\ FeedsOK' /\ NothingMissed'
<1> USE DEF Inv
<1> DEFINE n == pushes[k].note
           saved == N!With(notes, n, [owner |-> pushes[k].owner, isRead |-> FALSE])
<1>1. /\ pushes[k].pc = "save" /\ feeds' = feeds /\ n \notin DOMAIN notes
      /\ PushOK(pushes[k], notes) /\ n \in N!NoteIds
  BY DEF N!SaveNote, PushesOK, PushOK
<1>2. \/ notes' = saved /\ pushes' = [pushes EXCEPT ![k].pc = "publish"] /\ dropped' = dropped
      \/ notes' = saved /\ N!Return(k) /\ dropped' = dropped \cup {n}
      \/ notes' = notes /\ N!Return(k) /\ dropped' = dropped
  BY DEF N!SaveNote
<1>3. /\ DOMAIN saved = DOMAIN notes \cup {n}
      /\ saved[n] = [owner |-> pushes[k].owner, isRead |-> FALSE]
      /\ \A m \in DOMAIN notes : saved[m] = notes[m]
      /\ saved = [m \in DOMAIN saved |-> saved[m]]
  BY <1>1 DEF N!With
<1> HIDE DEF saved
<1>4. Grown
  BY <1>2, <1>3 DEF Grown
<1>5. NotesOK'
  <2>1. Rec([owner |-> pushes[k].owner, isRead |-> FALSE], NoteFields)
    BY DEF Rec, NoteFields
  <2> QED
    BY <1>1, <1>2, <1>3, <2>1 DEF NotesOK
<1>6. \A l \in Pushers : l # k => pushes[l].note # n
  BY <1>1 DEF PushesOK
<1>7. \A l \in Pushers : l # k /\ pushes[l].pc = "save" => pushes[l].note \notin DOMAIN notes'
  BY <1>2, <1>3, <1>6 DEF PushesOK, PushOK
<1>8. CASE notes' = saved /\ pushes' = [pushes EXCEPT ![k].pc = "publish"] /\ dropped' = dropped
  <2>1. PICK f : f = [pushes[k] EXCEPT !.pc = "publish"]
    OBVIOUS
  <2>2. f.note = n /\ f.owner = pushes[k].owner /\ f.pc = "publish" /\ Rec(f, PushFields)
    BY <1>1, <2>1 DEF PushOK, Rec, PushFields
  <2>3. pushes' = [pushes EXCEPT ![k] = f] /\ notes'[n].owner = f.owner /\ n \in DOMAIN notes'
    BY <1>3, <1>8, <2>1, <2>2 DEF PushesOK
  <2>4. PushOK(f, notes')
    BY <1>1, <2>2, <2>3 DEF PushOK
  <2>5. PushesOK'
    BY <1>4, <1>6, <1>7, <2>2, <2>3, <2>4, OnePush
  <2>6. \A l \in Pushers : pushes'[l].note = pushes[l].note
    BY <2>2, <2>3 DEF PushesOK
  <2>7. NothingMissed'
    BY <1>1, <1>3, <1>8, <2>6 DEF NothingMissed, N!NothingMissed
  <2> QED
    BY <1>1, <1>4, <1>5, <2>5, <2>7, FeedsStay
<1>9. CASE /\ N!Return(k)
           /\ \/ notes' = saved /\ dropped' = dropped \cup {n}
              \/ notes' = notes /\ dropped' = dropped
  <2>1. pushes' = [pushes EXCEPT ![k] = N!NoPush]
    BY <1>9 DEF N!Return
  <2>2. PushOK(N!NoPush, notes')
    BY NoPushFact DEF PushOK
  <2>3. PushesOK'
    BY <1>4, <1>7, <2>1, <2>2, NoPushFact, OnePush
  <2>4. \A l \in Pushers : l # k => pushes'[l].note = pushes[l].note
    BY <2>1 DEF PushesOK
  <2>5. NothingMissed'
    BY <1>1, <1>3, <1>9, <2>4 DEF NothingMissed, N!NothingMissed
  <2> QED
    BY <1>1, <1>4, <1>5, <2>3, <2>5, FeedsStay
<1> QED
  BY <1>2, <1>8, <1>9

\* push publishes its note to every subscriber's queue, or fails.
LEMMA PublishStep ==
  ASSUME Inv, NEW k \in Pushers, N!Publish(k)
  PROVE  PushesOK' /\ NotesOK' /\ FeedsOK' /\ NothingMissed'
<1> USE DEF Inv
<1>1. PICK p : p = [note |-> pushes[k].note, owner |-> pushes[k].owner]
  OBVIOUS
<1>2. /\ p \in Payload /\ p.note \in DOMAIN notes /\ notes[p.note].owner = p.owner
      /\ p.note = pushes[k].note
  BY <1>1 DEF N!Publish, PushesOK, PushOK, Payload
<1>3. pushes' = [pushes EXCEPT ![k] = N!NoPush] /\ notes' = notes
  BY DEF N!Publish, N!Return
<1>4. Grown /\ NotesOK'
  BY <1>3 DEF Grown, NotesOK
<1>5. PushesOK'
  <2>1. PushOK(N!NoPush, notes')
    BY NoPushFact DEF PushOK
  <2>2. \A l \in Pushers : pushes[l].pc = "save" => pushes[l].note \notin DOMAIN notes'
    BY <1>3 DEF PushesOK, PushOK
  <2> QED
    BY <1>3, <1>4, <2>1, <2>2, NoPushFact, OnePush
<1>6. \A l \in Pushers : l # k => pushes'[l].note = pushes[l].note
  BY <1>3 DEF PushesOK
<1>7. CASE feeds' = [c \in Clients |->
                       IF feeds[c].user = NoId THEN feeds[c]
                       ELSE [feeds[c] EXCEPT !.queue = Append(@, p)]]
           /\ dropped' = dropped
  <2>1. ASSUME NEW c \in Clients, feeds[c].user # NoId
        PROVE  /\ FeedOK(feeds'[c], notes') /\ feeds'[c].user = feeds[c].user
               /\ feeds'[c].heard = feeds[c].heard /\ feeds'[c].before = feeds[c].before
               /\ feeds'[c].queue = Append(feeds[c].queue, p)
    <3>1. FeedOK(feeds[c], notes) /\ feeds'[c] = [feeds[c] EXCEPT !.queue = Append(@, p)]
      BY <1>7, <2>1 DEF FeedsOK
    <3>2. /\ Rec(feeds'[c], FeedFields) /\ feeds'[c].user = feeds[c].user
          /\ feeds'[c].heard = feeds[c].heard /\ feeds'[c].before = feeds[c].before
          /\ feeds'[c].queue = Append(feeds[c].queue, p)
      BY <3>1 DEF FeedOK, Rec, FeedFields
    <3>3. feeds[c].queue \in Seq(Payload)
      BY <3>1 DEF FeedOK
    <3>4. /\ feeds'[c].queue \in Seq(Payload)
          /\ \A i \in 1..Len(feeds'[c].queue) :
               \/ i \in 1..Len(feeds[c].queue) /\ feeds'[c].queue[i] = feeds[c].queue[i]
               \/ feeds'[c].queue[i] = p
      BY <1>2, <3>2, <3>3, AppendFact
    <3>5. \A i \in 1..Len(feeds'[c].queue) :
            /\ feeds'[c].queue[i].note \in DOMAIN notes
            /\ notes[feeds'[c].queue[i].note].owner = feeds'[c].queue[i].owner
      BY <1>2, <3>1, <3>4 DEF FeedOK
    <3>6. \A n \in feeds'[c].heard :
            n \in DOMAIN notes /\ notes[n].owner = feeds'[c].user
      BY <3>1, <3>2 DEF FeedOK
    <3>7. FeedOK(feeds'[c], notes)
      BY <2>1, <3>2, <3>4, <3>5, <3>6 DEF FeedOK
    <3> QED
      BY <1>3, <3>2, <3>7
  <2>2. \A c \in Clients : feeds[c].user = NoId => feeds'[c] = feeds[c]
    BY <1>7
  <2>3. FeedsOK'
    <3>1. \A c \in Clients : FeedOK(feeds'[c], notes')
      BY <1>3, <2>1, <2>2 DEF FeedsOK
    <3>2. DOMAIN feeds' = Clients /\ feeds' = [c \in Clients |-> feeds'[c]]
      BY <1>7
    <3> QED
      BY <3>1, <3>2 DEF FeedsOK
  <2>4. ASSUME NEW c \in Clients, NEW n \in DOMAIN notes, feeds[c].user # NoId,
               \/ \E i \in 1..Len(feeds[c].queue) : feeds[c].queue[i].note = n
               \/ p.note = n
        PROVE  \E i \in 1..Len(feeds'[c].queue) : feeds'[c].queue[i].note = n
    <3>1. PICK q : q = feeds[c].queue
      OBVIOUS
    <3>2. q \in Seq(Payload) /\ feeds'[c].queue = Append(q, p)
      BY <2>1, <2>4, <3>1 DEF FeedsOK, FeedOK
    <3>3. /\ \A i \in 1..Len(q) : Append(q, p)[i] = q[i] /\ i \in 1..Len(Append(q, p))
          /\ Append(q, p)[Len(q) + 1] = p /\ Len(q) + 1 \in 1..Len(Append(q, p))
      BY <1>2, <3>2, AppendFact
    <3>4. CASE \E i \in 1..Len(q) : q[i].note = n
      BY <3>2, <3>3, <3>4
    <3>5. CASE p.note = n
      BY <3>2, <3>3, <3>5
    <3> QED
      BY <2>4, <3>1, <3>4, <3>5
  <2>5. NothingMissed'
    <3> SUFFICES ASSUME NEW c \in Clients, NEW n \in DOMAIN notes, feeds'[c].user # NoId,
                        notes[n].owner = feeds'[c].user
                 PROVE  \/ n \in feeds'[c].before \cup feeds'[c].heard \cup dropped
                        \/ \E l \in Pushers : pushes'[l].note = n
                        \/ \E i \in 1..Len(feeds'[c].queue) : feeds'[c].queue[i].note = n
      BY <1>3, <1>7 DEF NothingMissed, N!NothingMissed
    <3>1. feeds[c].user # NoId /\ notes[n].owner = feeds[c].user
      BY <2>1, <2>2
    <3>2. \/ n \in feeds[c].before \cup feeds[c].heard \cup dropped
          \/ \E l \in Pushers : pushes[l].note = n
          \/ \E i \in 1..Len(feeds[c].queue) : feeds[c].queue[i].note = n
      BY <3>1 DEF NothingMissed, N!NothingMissed
    <3>3. CASE \E l \in Pushers : pushes[l].note = n
      BY <1>2, <1>6, <2>4, <3>1, <3>3
    <3> QED
      BY <2>1, <2>4, <3>1, <3>2, <3>3
  <2> QED
    BY <1>4, <1>5, <2>3, <2>5
<1>8. CASE feeds' = feeds /\ dropped' = dropped \cup {p.note}
  <2>1. NothingMissed'
    BY <1>2, <1>3, <1>6, <1>8 DEF NothingMissed, N!NothingMissed
  <2> QED
    BY <1>4, <1>5, <1>8, <2>1, FeedsStay
<1> QED
  BY <1>1, <1>7, <1>8 DEF N!Publish

\* A client subscribes, hears the first payload of his queue, or leaves.
LEMMA SubscriberStep ==
  ASSUME Inv, NEW c \in Clients, N!Subscribe(c) \/ N!Unsubscribe(c) \/ N!Hear(c)
  PROVE  PushesOK' /\ NotesOK' /\ FeedsOK' /\ NothingMissed'
<1> USE DEF Inv
<1>0. UNCHANGED <<notes, pushes, dropped>> /\ FeedOK(feeds[c], notes)
  BY DEF N!Subscribe, N!Unsubscribe, N!Hear, FeedsOK
<1>1. PushesOK' /\ NotesOK'
  BY <1>0 DEF PushesOK, PushOK, NotesOK
<1>2. ASSUME NEW f, FeedOK(f, notes), feeds' = [feeds EXCEPT ![c] = f],
             \A n \in DOMAIN notes :
               f.user # NoId /\ notes[n].owner = f.user =>
                 \/ n \in f.before \cup f.heard \cup dropped
                 \/ \E k \in Pushers : pushes[k].note = n
                 \/ \E i \in 1..Len(f.queue) : f.queue[i].note = n
      PROVE  FeedsOK' /\ NothingMissed'
  <2>1. FeedsOK' /\ \A d \in Clients : feeds'[d] = IF d = c THEN f ELSE feeds[d]
    BY <1>0, <1>2, OneFeed DEF FeedsOK
  <2> QED
    BY <1>0, <1>2, <2>1 DEF NothingMissed, N!NothingMissed
<1>3. CASE N!Subscribe(c)
  <2>1. PICK f : f = [feeds[c] EXCEPT !.user = session[c], !.before = DOMAIN notes]
    OBVIOUS
  <2>2. feeds' = [feeds EXCEPT ![c] = f]
    BY <1>3, <2>1 DEF N!Subscribe, FeedsOK
  <2>3. /\ Rec(f, FeedFields) /\ f.before = DOMAIN notes /\ f.queue = feeds[c].queue
        /\ f.heard = feeds[c].heard /\ f.user = session[c]
    BY <1>0, <2>1 DEF FeedOK, Rec, FeedFields
  <2>4. f.user # NoId /\ f.queue = <<>> /\ f.heard = {}
    BY <1>0, <1>3, <2>3 DEF N!Subscribe, FeedOK
  <2>5. FeedOK(f, notes)
    BY <1>0, <2>3, <2>4 DEF FeedOK
  <2> QED
    BY <1>1, <1>2, <2>2, <2>3, <2>5
<1>4. CASE N!Unsubscribe(c)
  <2>1. feeds' = [feeds EXCEPT ![c] = N!NoFeed]
    BY <1>4 DEF N!Unsubscribe
  <2>2. PICK f : f = N!NoFeed
    OBVIOUS
  <2> QED
    BY <1>1, <1>2, <2>1, <2>2, NoFeedOK
<1>5. CASE N!Hear(c)
  <2> DEFINE q == feeds[c].queue
             heard == IF N!Wanted(c, Head(q)) THEN feeds[c].heard \cup {Head(q).note}
                                              ELSE feeds[c].heard
  <2>1. PICK f : f = [feeds[c] EXCEPT !.queue = Tail(@), !.heard = heard]
    OBVIOUS
  <2>2. feeds' = [feeds EXCEPT ![c] = f] /\ q # <<>>
    BY <1>5, <2>1 DEF N!Hear, FeedsOK
  <2>3. /\ Rec(f, FeedFields) /\ f.before = feeds[c].before /\ f.queue = Tail(q)
        /\ f.heard = heard /\ f.user = feeds[c].user
    BY <1>0, <2>1 DEF FeedOK, Rec, FeedFields
  <2>4. q \in Seq(Payload) /\ feeds[c].user # NoId
    BY <1>0, <2>2 DEF FeedOK
  <2>5. /\ f.queue \in Seq(Payload) /\ Len(f.queue) = Len(q) - 1
        /\ \A i \in 1..Len(f.queue) : i + 1 \in 1..Len(q) /\ f.queue[i] = q[i + 1]
        /\ Head(q) = q[1] /\ Len(q) \in Nat \ {0}
    BY <2>2, <2>3, <2>4, TailFact
  <2>6. Head(q).note \in DOMAIN notes /\ notes[Head(q).note].owner = Head(q).owner
    BY <1>0, <2>5 DEF FeedOK
  <2>7. \A n \in f.heard : n \in DOMAIN notes /\ notes[n].owner = f.user
    BY <1>0, <2>3, <2>6 DEF FeedOK, N!Wanted
  <2>8. FeedOK(f, notes)
    BY <1>0, <2>3, <2>4, <2>5, <2>7 DEF FeedOK
  <2>9. ASSUME NEW n \in DOMAIN notes, notes[n].owner = f.user
        PROVE  \/ n \in f.before \cup f.heard \cup dropped
               \/ \E k \in Pushers : pushes[k].note = n
               \/ \E i \in 1..Len(f.queue) : f.queue[i].note = n
    <3>1. CASE \E i \in 1..Len(q) : q[i].note = n
      <4>1. PICK i \in 1..Len(q) : q[i].note = n
        BY <3>1
      <4>2. CASE i = 1
        BY <2>3, <2>5, <2>6, <2>9, <4>1, <4>2 DEF N!Wanted
      <4>3. CASE i # 1
        <5>1. i - 1 \in 1..Len(f.queue) /\ (i - 1) + 1 = i
          BY <2>5, <4>3
        <5> QED
          BY <2>5, <4>1, <5>1
      <4> QED
        BY <4>2, <4>3
    <3>2. CASE n \in feeds[c].before \cup feeds[c].heard \cup dropped
      BY <2>3, <3>2
    <3> QED
      BY <2>3, <2>4, <2>9, <3>1, <3>2 DEF NothingMissed, N!NothingMissed
  <2> QED
    BY <1>1, <1>2, <2>2, <2>8, <2>9
<1> QED
  BY <1>3, <1>4, <1>5

\* markAllAsRead changes no owner and removes no note.
LEMMA MarkStep ==
  ASSUME Inv, NEW c \in Clients, N!MarkAllAsRead(c)
  PROVE  PushesOK' /\ NotesOK' /\ FeedsOK' /\ NothingMissed'
<1> USE DEF Inv
<1>1. UNCHANGED <<pushes, feeds, dropped>> /\ DOMAIN notes' = DOMAIN notes
      /\ notes' = [n \in DOMAIN notes |-> notes'[n]]
  BY DEF N!MarkAllAsRead
<1>2. ASSUME NEW n \in DOMAIN notes
      PROVE  Rec(notes'[n], NoteFields) /\ notes'[n].owner = notes[n].owner
  <2>1. notes'[n] \in {notes[n], [notes[n] EXCEPT !.isRead = TRUE]}
    BY DEF N!MarkAllAsRead
  <2>2. Rec(notes[n], NoteFields)
    BY DEF NotesOK
  <2> QED
    BY <2>1, <2>2 DEF Rec, NoteFields
<1>3. Grown /\ NotesOK'
  BY <1>1, <1>2 DEF Grown, NotesOK
<1>4. PushesOK'
  BY <1>1, <1>2 DEF PushesOK, PushOK
<1>5. NothingMissed'
  BY <1>1, <1>2 DEF NothingMissed, N!NothingMissed
<1> QED
  BY <1>1, <1>3, <1>4, <1>5, FeedsStay

\* A restart drops frames and subscriptions; what is stored stays.
LEMMA RestartStep ==
  ASSUME Inv, Restart
  PROVE  Inv'
<1> USE DEF Inv
<1>1. AccountInv'
  <2>1. UNCHANGED <<users, funded, wallets>> /\ signups' = [c \in Clients |-> A!NoSignup]
    BY DEF Restart, A!Restart
  <2> QED
    BY <2>1, NoSignupFields DEF AccountInv, SignupOK
<1>2. /\ notes' = notes /\ pushes' = [k \in Pushers |-> N!NoPush]
      /\ feeds' = [c \in Clients |-> N!NoFeed]
  BY DEF Restart, N!Restart
<1>3. PushesOK' /\ NotesOK'
  BY <1>2, NoPushFact DEF PushesOK, PushOK, NotesOK
<1>4. FeedsOK'
  BY <1>2, NoFeedOK DEF FeedsOK
<1>5. NothingMissed'
  BY <1>2, NoFeedOK DEF NothingMissed, N!NothingMissed
<1> QED
  BY <1>1, <1>3, <1>4, <1>5

-----------------------------------------------------------------------------
(* Theorems on wallets and notifications                                    *)

\* No users, no notes and no calls satisfy the invariant.
LEMMA InvInit == Init => Inv
<1> SUFFICES ASSUME Init PROVE Inv
  OBVIOUS
<1>1. AccountInv
  BY NoSignupFields DEF Init, A!Init, AccountInv, SignupOK
<1>2. PushesOK /\ NotesOK
  BY NoPushFact DEF Init, N!Init, PushesOK, PushOK, NotesOK
<1>3. FeedsOK
  BY NoFeedOK DEF Init, N!Init, FeedsOK
<1>4. NothingMissed
  BY DEF Init, N!Init, NothingMissed, N!NothingMissed
<1> QED
  BY <1>1, <1>2, <1>3, <1>4 DEF Inv

\* The invariant holds in every state.
LEMMA Invariance == Spec => []Inv
<1>1. Inv /\ [Next]_vars => Inv'
  <2> SUFFICES ASSUME Inv, [Next]_vars PROVE Inv'
    OBVIOUS
  <2>1. CASE A!Next /\ UNCHANGED noteVars
    BY <2>1, AccountStep, NotesStay DEF Inv, noteVars, noteState
  <2>2. CASE N!Next /\ UNCHANGED accountVars
    <3>1. users' = users
      BY <2>2 DEF N!Next, N!Push, N!SaveNote, N!Publish, N!Subscribe, N!Unsubscribe, N!Hear,
                  N!MarkAllAsRead
    <3>2. PushesOK' /\ NotesOK' /\ FeedsOK' /\ NothingMissed'
      BY <2>2, PushStep, SaveNoteStep, PublishStep, SubscriberStep, MarkStep DEF N!Next
    <3> QED
      BY <2>2, <3>1, <3>2, AccountStays DEF Inv
  <2>3. CASE Restart
    BY <2>3, RestartStep
  <2>4. CASE UNCHANGED vars
    BY <2>4, AccountStays, NotesStay DEF Inv, vars, noteVars, noteState
  <2> QED
    BY <2>1, <2>2, <2>3, <2>4 DEF Next
<1> QED
  BY InvInit, <1>1, PTL DEF Spec

\* However sign-ups overlap and fail, in development every account has a wallet
\* that was paid for.
THEOREM WalletsFunded == Spec => []FundedWallet
<1>1. Inv => FundedWallet
  BY DEF Inv, AccountInv, FundedWallet, A!FundedWallet
<1> QED
  BY <1>1, Invariance, PTL

\* Whoever logs in on a client meanwhile, he hears of stored notifications of the
\* user he subscribed as, and of no others.
THEOREM HeardAreStored == Spec => []HeardIsStored
<1>1. Inv => HeardIsStored
  BY DEF Inv, FeedsOK, FeedOK, HeardIsStored, N!HeardIsStored
<1> QED
  BY <1>1, Invariance, PTL

\* Of the notifications of a subscriber, each was there, is heard, is on its way, or
\* lost its publish call to a failure or a restart.
THEOREM NoneMissed == Spec => []NothingMissed
<1>1. Inv => NothingMissed
  BY DEF Inv
<1> QED
  BY <1>1, Invariance, PTL

-----------------------------------------------------------------------------
(* Types of the accounts                                                    *)

\* The sign-ups that have no wallet yet, and their frames.
Asking == {c \in Clients : signups[c].pc = "wallet"}
SignupFrame == [pc: {"wallet", "save"}, input: A!Input, wallet: A!UserIds \cup {NoId}]
SignupTyped(f) ==
  /\ f = A!NoSignup \/ f \in SignupFrame
  /\ f.pc = "save" => f.wallet \in A!UserIds

\* The sign-ups that have no wallet yet will find one within the bound.
AccountTyped ==
  /\ \A u \in DOMAIN users : users[u] \in A!Input
  /\ DOMAIN users \subseteq A!UserIds /\ funded \subseteq A!UserIds
  /\ \A c \in Clients : SignupTyped(signups[c])
  /\ session \in [Clients -> DOMAIN users \cup {NoId}]
  /\ wallets \in 0..MaxUsers /\ faults \in 0..MaxFaults
  /\ wallets + Cardinality(Asking) <= MaxUsers

\* Account counts with the same operator.
LEMMA SameCount == A!MaySignup <=> wallets + Cardinality(Asking) < MaxUsers
  BY DEF A!MaySignup, A!Cardinality, Cardinality, Asking

\* One sign-up goes on: whether it asks for a wallet before and after.
LEMMA AskingChange ==
  ASSUME AccountInv, NEW c \in Clients, NEW f, signups' = [signups EXCEPT ![c] = f]
  PROVE  /\ Cardinality(Asking) \in Nat /\ Cardinality(Asking') \in Nat
         /\ (signups[c].pc = "wallet" <=> f.pc = "wallet") =>
              Cardinality(Asking') = Cardinality(Asking)
         /\ signups[c].pc = "wallet" /\ f.pc # "wallet" =>
              Cardinality(Asking) = Cardinality(Asking') + 1
         /\ signups[c].pc # "wallet" /\ f.pc = "wallet" =>
              Cardinality(Asking') = Cardinality(Asking) + 1
<1>1. PICK P, Q : P = Asking /\ Q = Asking'
  OBVIOUS
<1>2. \A d \in Clients : signups'[d] = IF d = c THEN f ELSE signups[d]
  BY DEF AccountInv
<1>3. P \in SUBSET Clients /\ Q \in SUBSET Clients /\ P \ {c} = Q \ {c}
  BY <1>1, <1>2 DEF Asking
<1>4. (c \in P <=> signups[c].pc = "wallet") /\ (c \in Q <=> f.pc = "wallet")
  BY <1>1, <1>2 DEF Asking
<1>5. /\ Cardinality(P) \in Nat /\ Cardinality(Q) \in Nat
      /\ Cardinality(Q) + (IF c \in P THEN 1 ELSE 0)
           = Cardinality(P) + (IF c \in Q THEN 1 ELSE 0)
  BY <1>3, CountChange
<1> QED BY <1>1, <1>4, <1>5

\* A failure is counted.
LEMMA FaultTyped ==
  ASSUME faults \in 0..MaxFaults, A!Fault \/ UNCHANGED faults
  PROVE  faults' \in 0..MaxFaults
  BY DEF A!Fault

\* The frame of a sign-up, at its await.
LEMMA SignupsStay ==
  ASSUME AccountInv, AccountTyped, NEW c \in Clients, NEW f, SignupTyped(f),
         signups' = [signups EXCEPT ![c] = f]
  PROVE  \A d \in Clients : SignupTyped(signups'[d])
<1>1. \A d \in Clients : signups'[d] = IF d = c THEN f ELSE signups[d]
  BY DEF AccountInv
<1> QED BY <1>1 DEF AccountTyped

\* Sign-ups and log-ins keep the types.
LEMMA AccountTypes ==
  ASSUME AccountInv, AccountTyped, A!Next
  PROVE  AccountTyped' /\ DOMAIN users \subseteq DOMAIN users'
<1>1. PICK c \in Clients : \/ \E input \in A!Input : A!Signup(c, input)
                           \/ A!CreateWallet(c) \/ A!SaveUser(c)
                           \/ \E e \in Emails, w \in Passwords : A!Login(c, e, w)
  BY DEF A!Next
<1>2. /\ SignupTyped(signups[c]) /\ SignupTyped(A!NoSignup) /\ A!NoSignup.pc = "idle"
      /\ A!UserIds = 1..MaxUsers /\ wallets \in 0..MaxUsers
  BY NoSignupFields DEF AccountTyped, SignupTyped, A!UserIds
<1>3. CASE \E input \in A!Input : A!Signup(c, input)
  <2>1. PICK input \in A!Input : A!Signup(c, input)
    BY <1>3
  <2>2. PICK f : f = [pc |-> "wallet", input |-> input, wallet |-> NoId]
    OBVIOUS
  <2>3. /\ signups' = [signups EXCEPT ![c] = f] /\ signups[c].pc = "idle"
        /\ UNCHANGED <<users, funded, session, wallets, faults>>
    BY <2>1, <2>2 DEF A!Signup
  <2>4. SignupTyped(f) /\ f.pc = "wallet"
    BY <2>2 DEF SignupTyped, SignupFrame
  <2>5. \A d \in Clients : SignupTyped(signups'[d])
    BY <2>3, <2>4, SignupsStay
  <2>6. wallets + Cardinality(Asking') <= MaxUsers
    <3>1. wallets + Cardinality(Asking) < MaxUsers
      <4>1. A!MaySignup
        BY <2>1 DEF A!Signup
      <4> QED BY <4>1, SameCount
    <3>2. Cardinality(Asking) \in Nat /\ Cardinality(Asking') = Cardinality(Asking) + 1
      BY <2>3, <2>4, AskingChange
    <3> QED BY <1>2, <3>1, <3>2
  <2> QED BY <2>3, <2>5, <2>6 DEF AccountTyped
<1>4. CASE A!CreateWallet(c)
  <2>1. /\ signups[c].pc = "wallet" /\ wallets' = wallets + 1 /\ UNCHANGED <<users, session>>
        /\ (A!Fault \/ UNCHANGED faults) /\ funded' \in {funded, funded \cup {wallets'}}
    BY <1>4 DEF A!CreateWallet
  <2>2. PICK f : signups' = [signups EXCEPT ![c] = f] /\ f.pc # "wallet"
                 /\ \/ f = A!NoSignup
                    \/ f = [pc |-> "save", input |-> signups[c].input, wallet |-> wallets']
    <3>1. CASE signups' = [signups EXCEPT ![c] = A!NoSignup]
      BY <1>2, <3>1
    <3>2. CASE signups' = [signups EXCEPT ![c].pc = "save", ![c].wallet = wallets']
      <4>1. PICK i \in A!Input, w \in A!UserIds \cup {NoId} :
              signups[c] = [pc |-> "wallet", input |-> i, wallet |-> w]
        BY <1>2, <2>1 DEF SignupTyped, SignupFrame
      <4>2. PICK e, f : /\ e = [pc |-> "save", input |-> i, wallet |-> w]
                        /\ f = [pc |-> "save", input |-> i, wallet |-> wallets']
        OBVIOUS
      <4>3. e = [signups[c] EXCEPT !.pc = "save"] /\ f = [e EXCEPT !.wallet = wallets']
        BY <4>1, <4>2
      <4>4. signups' = [signups EXCEPT ![c] = f]
        BY <3>2, <4>3 DEF AccountInv
      <4>5. /\ f = [pc |-> "save", input |-> signups[c].input, wallet |-> wallets']
            /\ f.pc # "wallet"
        BY <4>1, <4>2
      <4> QED BY <4>4, <4>5
    <3> QED BY <1>4, <3>1, <3>2 DEF A!CreateWallet, A!Return
  <2>3. wallets' \in 0..MaxUsers /\ wallets' + Cardinality(Asking') <= MaxUsers
    <3>1. PICK a, b : a = Cardinality(Asking) /\ b = Cardinality(Asking')
      OBVIOUS
    <3>2. a \in Nat /\ b \in Nat /\ a = b + 1
      BY <2>1, <2>2, <3>1, AskingChange
    <3>3. wallets + a <= MaxUsers
      BY <3>1 DEF AccountTyped
    <3> QED BY <1>2, <2>1, <3>1, <3>2, <3>3
  <2>4. wallets' \in A!UserIds
    BY <1>2, <2>1, <2>3
  <2>5. SignupTyped(f)
    <3>1. signups[c] \in SignupFrame
      BY <1>2, <2>1 DEF SignupTyped
    <3> QED BY <1>2, <2>2, <2>4, <3>1 DEF SignupTyped, SignupFrame
  <2>6. \A d \in Clients : SignupTyped(signups'[d])
    BY <2>2, <2>5, SignupsStay
  <2>7. funded' \subseteq A!UserIds /\ faults' \in 0..MaxFaults
    BY <2>1, <2>4, FaultTyped DEF AccountTyped
  <2> QED BY <2>1, <2>3, <2>6, <2>7 DEF AccountTyped
<1>5. CASE A!SaveUser(c)
  <2>1. PICK f : f = signups[c]
    OBVIOUS
  <2>2. PICK new : new = A!With(users, f.wallet, f.input)
    OBVIOUS
  <2>3. /\ f.pc = "save" /\ signups' = [signups EXCEPT ![c] = A!NoSignup]
        /\ UNCHANGED <<funded, wallets>> /\ (A!Fault \/ UNCHANGED faults)
        /\ \/ users' \in {users, new} /\ UNCHANGED session
           \/ users' = new /\ session' = [session EXCEPT ![c] = f.wallet]
    BY <1>5, <2>1, <2>2 DEF A!SaveUser, A!Return
  <2>4. f.wallet \in A!UserIds /\ f.input \in A!Input
    BY <1>2, <2>1, <2>3 DEF SignupTyped, SignupFrame
  <2>5. /\ DOMAIN new = DOMAIN users \cup {f.wallet}
        /\ \A u \in DOMAIN new : new[u] \in A!Input
    BY <2>2, <2>4 DEF A!With, AccountTyped
  <2>6. /\ DOMAIN users \subseteq DOMAIN users' /\ DOMAIN users' \subseteq A!UserIds
        /\ \A u \in DOMAIN users' : users'[u] \in A!Input
    BY <2>3, <2>4, <2>5 DEF AccountTyped
  <2>7. session' \in [Clients -> DOMAIN users' \cup {NoId}]
    BY <2>3, <2>5, <2>6 DEF AccountTyped
  <2>8. \A d \in Clients : SignupTyped(signups'[d])
    BY <1>2, <2>3, SignupsStay
  <2>9. wallets' + Cardinality(Asking') <= MaxUsers /\ wallets' \in 0..MaxUsers
    <3>1. Cardinality(Asking') = Cardinality(Asking)
      BY <1>2, <2>1, <2>3, AskingChange
    <3> QED BY <1>2, <2>3, <3>1 DEF AccountTyped
  <2>10. faults' \in 0..MaxFaults
    BY <2>3, FaultTyped DEF AccountTyped
  <2> QED BY <2>3, <2>6, <2>7, <2>8, <2>9, <2>10 DEF AccountTyped
<1>6. CASE \E e \in Emails, w \in Passwords : A!Login(c, e, w)
  <2>1. PICK u \in DOMAIN users : session' = [session EXCEPT ![c] = u]
    BY <1>6 DEF A!Login
  <2>2. UNCHANGED <<users, funded, signups, wallets, faults>>
    BY <1>6 DEF A!Login
  <2> QED BY <2>1, <2>2 DEF AccountTyped, SignupTyped, Asking
<1> QED BY <1>1, <1>3, <1>4, <1>5, <1>6
-----------------------------------------------------------------------------
(* Types of the notifications                                               *)

\* No notification waits twice for one subscriber, or waits and is still to be
\* published.
Once(q) == \A i, j \in 1..Len(q) : i # j => q[i].note # q[j].note
Ahead(q) ==
  \A k \in Pushers : pushes[k].pc = "publish" => \A i \in 1..Len(q) : q[i].note # pushes[k].note

\* The frames of push, and the subscriptions.
PushTyped(f) ==
  f = N!NoPush \/ f \in [pc: {"save", "publish"}, note: N!NoteIds, owner: DOMAIN users]

FeedTyped(f) ==
  /\ f.user \in DOMAIN users \cup {NoId}
  /\ f.heard \cup f.before \subseteq N!NoteIds
  /\ Once(f.queue) /\ Ahead(f.queue)

\* What holds of the notifications, whoever signs up.
NotesTyped ==
  /\ \A n \in DOMAIN notes : notes[n] \in N!Note
  /\ \A k \in Pushers : PushTyped(pushes[k])
  /\ \A c \in Clients : FeedTyped(feeds[c])
  /\ dropped \subseteq N!NoteIds

\* The inductive invariant, on top of Inv.
TypeInv == AccountTyped /\ NotesTyped

\* A queue without a notification twice is not longer than there are notifications.
LEMMA QueueLimited ==
  ASSUME NEW q \in Seq(Payload), Once(q)
  PROVE  Len(q) <= MaxNotes
<1>1. PICK n : n = Len(q) /\ n \in Nat
  OBVIOUS
<1> DEFINE D == 1..n
           R == 1..MaxNotes
           f == [i \in D |-> q[i].note]
<1>2. f \in Injection(D, R)
  <2>1. ASSUME NEW i \in D PROVE q[i].note \in R
    <3>1. q[i] \in Payload
      BY <1>1
    <3> QED BY <3>1 DEF Payload, N!NoteIds
  <2>2. \A i, j \in D : i # j => q[i].note # q[j].note
    BY <1>1 DEF Once
  <2>3. f \in [D -> R] /\ \A i \in D : f[i] = q[i].note
    BY <2>1
  <2>4. \A i, j \in D : f[i] = f[j] => i = j
    BY <2>2, <2>3
  <2> HIDE DEF f, D, R
  <2> QED BY <2>3, <2>4 DEF Injection, IsInjective
<1>3. IsFiniteSet(R) /\ Cardinality(R) = MaxNotes
  BY FS_Interval
<1>4. IsFiniteSet(D) /\ Cardinality(D) = n
  <2>1. 1 \in Int /\ n \in Int /\ n >= 0
    BY <1>1
  <2>2. IsFiniteSet(D) /\ Cardinality(D) = IF 1 > n THEN 0 ELSE n - 1 + 1
    BY <2>1, FS_Interval
  <2> QED BY <2>1, <2>2
<1>5. Cardinality(D) <= Cardinality(R)
  <2> HIDE DEF f, D, R
  <2> QED BY <1>2, <1>3, FS_Injection
<1> QED BY <1>1, <1>3, <1>4, <1>5

\* A step of the accounts forgets no user.
LEMMA NotesTypedStay ==
  ASSUME NotesTyped, UNCHANGED noteState, DOMAIN users \subseteq DOMAIN users'
  PROVE  NotesTyped'
<1>1. \A n \in DOMAIN notes : notes[n] \in N!Note'
  BY DEF NotesTyped, N!Note
<1>2. \A k \in Pushers : PushTyped(pushes[k])'
  BY DEF NotesTyped, PushTyped, noteState
<1>3. \A c \in Clients : FeedTyped(feeds[c])'
  BY DEF NotesTyped, FeedTyped, Once, Ahead, noteState
<1> QED BY <1>1, <1>2, <1>3 DEF NotesTyped, noteState

\* One push goes on; what it will publish waits for nobody.
LEMMA PushTypes ==
  ASSUME PushesOK, NotesTyped, UNCHANGED <<users, feeds>>, NEW k \in Pushers, NEW f, PushTyped(f),
         pushes' = [pushes EXCEPT ![k] = f],
         f.pc = "publish" => \A c \in Clients : \A i \in 1..Len(feeds[c].queue) :
                               feeds[c].queue[i].note # f.note
  PROVE  /\ \A l \in Pushers : PushTyped(pushes[l])'
         /\ \A c \in Clients : FeedTyped(feeds[c])'
<1>1. \A l \in Pushers : pushes'[l] = IF l = k THEN f ELSE pushes[l]
  BY DEF PushesOK
<1>2. \A l \in Pushers : PushTyped(pushes'[l])
  BY <1>1 DEF NotesTyped
<1>3. ASSUME NEW c \in Clients PROVE FeedTyped(feeds[c])'
  <2>1. PICK g : g = feeds[c]
    OBVIOUS
  <2>2. FeedTyped(g)
    BY <2>1 DEF NotesTyped
  <2>3. Ahead(g.queue)'
    BY <1>1, <2>1, <2>2 DEF FeedTyped, Ahead
  <2>4. FeedTyped(g)'
    BY <2>2, <2>3 DEF FeedTyped, Once
  <2> QED BY <2>1, <2>4
<1> QED BY <1>2, <1>3 DEF PushTyped

\* A document that push saves.
LEMMA SavedTyped ==
  ASSUME NotesTyped, NEW n, NEW u \in DOMAIN users,
         NEW saved, saved = N!With(notes, n, [owner |-> u, isRead |-> FALSE])
  PROVE  \A m \in DOMAIN saved : saved[m] \in N!Note
<1>1. PICK d : d = [owner |-> u, isRead |-> FALSE]
  OBVIOUS
<1>2. d \in N!Note
  BY <1>1 DEF N!Note
<1>3. \A m \in DOMAIN saved : saved[m] = IF m = n THEN d ELSE notes[m]
  BY <1>1 DEF N!With
<1>4. \A m \in DOMAIN saved : m = n \/ m \in DOMAIN notes
  BY DEF N!With
<1> QED BY <1>2, <1>3, <1>4 DEF NotesTyped

\* The steps of push up to publish keep the types.
LEMMA SavesTyped ==
  ASSUME Inv, NotesTyped, NEW k \in Pushers,
         (\E u \in DOMAIN users : N!Push(k, u)) \/ N!SaveNote(k), UNCHANGED users
  PROVE  NotesTyped'
<1>1. PushOK(pushes[k], notes) /\ PushTyped(pushes[k]) /\ PushesOK
  BY DEF Inv, PushesOK, NotesTyped
<1>2. PushTyped(N!NoPush) /\ N!NoPush.pc = "idle"
  BY DEF PushTyped, N!NoPush
<1>3. CASE \E u \in DOMAIN users : N!Push(k, u)
  <2>1. PICK u \in DOMAIN users : N!Push(k, u)
    BY <1>3
  <2>2. PICK n \in N!NoteIds :
          pushes' = [pushes EXCEPT ![k] = [pc |-> "save", note |-> n, owner |-> u]]
    BY <2>1 DEF N!Push
  <2>3. PICK f : f = [pc |-> "save", note |-> n, owner |-> u]
    OBVIOUS
  <2>4. PushTyped(f) /\ f.pc = "save"
    BY <2>3 DEF PushTyped
  <2>5. UNCHANGED <<users, notes, feeds, dropped>> /\ pushes' = [pushes EXCEPT ![k] = f]
    BY <2>1, <2>2, <2>3 DEF N!Push
  <2> QED BY <1>1, <2>4, <2>5, PushTypes DEF NotesTyped, N!Note
<1>4. CASE N!SaveNote(k)
  <2>1. PICK n, u, saved : /\ n = pushes[k].note /\ u = pushes[k].owner
                           /\ saved = N!With(notes, n, [owner |-> u, isRead |-> FALSE])
    OBVIOUS
  <2>2. /\ pushes[k] = [pc |-> "save", note |-> n, owner |-> u]
        /\ u \in DOMAIN users /\ n \in N!NoteIds /\ n \notin DOMAIN notes
    BY <1>1, <1>2, <1>4, <2>1 DEF N!SaveNote, PushOK, PushTyped
  <2>3. /\ notes' \in {notes, saved} /\ dropped' \in {dropped, dropped \cup {n}}
        /\ UNCHANGED <<users, feeds>>
        /\ \/ pushes' = [pushes EXCEPT ![k].pc = "publish"]
           \/ pushes' = [pushes EXCEPT ![k] = N!NoPush]
    BY <1>4, <2>1 DEF N!SaveNote, N!Return
  <2>4. /\ \A m \in DOMAIN notes' : notes'[m] \in N!Note'
        /\ dropped' \subseteq N!NoteIds
    <3>1. \A m \in DOMAIN saved : saved[m] \in N!Note
      BY <2>1, <2>2, SavedTyped
    <3> QED BY <2>2, <2>3, <3>1 DEF NotesTyped, N!Note
  <2>5. PICK f : pushes' = [pushes EXCEPT ![k] = f] /\ PushTyped(f)
                 /\ (f.pc = "publish" => f.note = n)
    <3>1. CASE pushes' = [pushes EXCEPT ![k] = N!NoPush]
      BY <1>2, <3>1
    <3>2. CASE pushes' = [pushes EXCEPT ![k].pc = "publish"]
      <4>1. PICK f : f = [pc |-> "publish", note |-> n, owner |-> u]
        OBVIOUS
      <4>2. f = [pushes[k] EXCEPT !.pc = "publish"] /\ PushTyped(f) /\ f.note = n
        BY <2>2, <4>1 DEF PushTyped
      <4>3. pushes' = [pushes EXCEPT ![k] = f]
        BY <1>1, <3>2, <4>2 DEF PushesOK
      <4> QED BY <4>2, <4>3
    <3> QED BY <2>3, <3>1, <3>2
  <2>6. ASSUME NEW c \in Clients, NEW i \in 1..Len(feeds[c].queue)
        PROVE  feeds[c].queue[i].note # n
    BY <2>2 DEF Inv, FeedsOK, FeedOK
  <2> QED BY <1>1, <2>3, <2>4, <2>5, <2>6, PushTypes DEF NotesTyped
<1> QED BY <1>3, <1>4

\* One subscription goes on.
LEMMA FeedTypes ==
  ASSUME FeedsOK, NotesTyped, UNCHANGED <<users, pushes>>, NEW c \in Clients, NEW f,
         FeedTyped(f), feeds' = [feeds EXCEPT ![c] = f]
  PROVE  \A d \in Clients : FeedTyped(feeds[d])'
<1>1. \A d \in Clients : feeds'[d] = IF d = c THEN f ELSE feeds[d]
  BY DEF FeedsOK
<1>2. ASSUME NEW d \in Clients PROVE FeedTyped(feeds[d])'
  <2>1. PICK g : g = feeds'[d]
    OBVIOUS
  <2>2. FeedTyped(g)
    BY <1>1, <2>1 DEF NotesTyped
  <2>3. FeedTyped(g)'
    BY <2>2 DEF FeedTyped, Once, Ahead
  <2> QED BY <2>1, <2>3
<1> QED BY <1>2

\* A client who is not subscribed.
LEMMA NoFeedTyped == FeedTyped(N!NoFeed)
<1>1. /\ N!NoFeed.queue = <<>> /\ N!NoFeed.user = NoId
      /\ N!NoFeed.heard = {} /\ N!NoFeed.before = {}
  BY DEF N!NoFeed
<1>2. Len(<<>>) = 0
  OBVIOUS
<1> QED BY <1>1, <1>2 DEF FeedTyped, Once, Ahead

\* A publication reaches each queue once.
LEMMA PublishTyped ==
  ASSUME Inv, NotesTyped, NEW k \in Pushers, N!Publish(k)
  PROVE  NotesTyped'
<1>1. /\ PushOK(pushes[k], notes) /\ PushTyped(pushes[k]) /\ PushesOK /\ FeedsOK
      /\ pushes[k].pc = "publish"
  BY DEF Inv, PushesOK, NotesTyped, N!Publish
<1>2. PICK p : p = [note |-> pushes[k].note, owner |-> pushes[k].owner]
  OBVIOUS
<1>3. p.note \in N!NoteIds /\ p.note = pushes[k].note /\ p \in Payload
  BY <1>1, <1>2 DEF PushOK, Payload
<1>4. /\ pushes' = [pushes EXCEPT ![k] = N!NoPush] /\ UNCHANGED <<users, notes>>
      /\ dropped' \in {dropped, dropped \cup {p.note}}
      /\ \/ feeds' = [c \in Clients |->
                        IF feeds[c].user = NoId THEN feeds[c]
                        ELSE [feeds[c] EXCEPT !.queue = Append(@, p)]]
         \/ feeds' = feeds
  BY <1>2, <1>3 DEF N!Publish, N!Return
<1>5. \A l \in Pushers : pushes'[l] = IF l = k THEN N!NoPush ELSE pushes[l]
  BY <1>1, <1>4 DEF PushesOK
<1>6. N!NoPush.pc = "idle" /\ PushTyped(N!NoPush)
  BY DEF N!NoPush, PushTyped
<1>7. \A l \in Pushers : PushTyped(pushes[l])'
  BY <1>4, <1>5, <1>6 DEF NotesTyped, PushTyped
<1>8. /\ dropped' \subseteq N!NoteIds
      /\ \A n \in DOMAIN notes' : notes'[n] \in N!Note'
  BY <1>3, <1>4 DEF NotesTyped, N!Note
<1>9. ASSUME NEW l \in Pushers, pushes'[l].pc = "publish"
      PROVE  l # k /\ pushes'[l] = pushes[l] /\ pushes[l].pc = "publish" /\ pushes[l].note # p.note
  <2>1. l # k /\ pushes'[l] = pushes[l]
    BY <1>5, <1>6, <1>9
  <2> QED BY <1>1, <1>3, <1>9, <2>1 DEF PushesOK
<1>10. ASSUME NEW c \in Clients PROVE FeedTyped(feeds[c])'
  <2>1. PICK f, g : f = feeds[c] /\ g = feeds'[c]
    OBVIOUS
  <2>2. FeedTyped(f) /\ FeedOK(f, notes)
    BY <1>1, <2>1 DEF NotesTyped, FeedsOK
  <2>3. CASE g = f
    <3>1. Ahead(f.queue)'
      BY <1>9, <2>2 DEF FeedTyped, Ahead
    <3> QED BY <1>4, <2>1, <2>2, <2>3, <3>1 DEF FeedTyped, Once
  <2>4. CASE g = [f EXCEPT !.queue = Append(@, p)]
    <3>1. /\ g.queue = Append(f.queue, p) /\ g.user = f.user
          /\ g.heard = f.heard /\ g.before = f.before /\ f.queue \in Seq(Payload)
      BY <2>2, <2>4 DEF FeedOK, Rec, FeedFields
    <3>2. PICK q, r, n : q = f.queue /\ r = g.queue /\ n = Len(q)
      OBVIOUS
    <3>3. /\ n \in Nat /\ Len(r) = n + 1 /\ r[n + 1] = p
          /\ \A i \in 1..n : r[i] = q[i]
      BY <1>3, <3>1, <3>2, AppendFact
    <3>4. \A i \in 1..n : q[i].note # p.note
      BY <1>1, <1>3, <2>2, <3>2 DEF FeedTyped, Ahead
    <3>5. \A i, j \in 1..n : i # j => q[i].note # q[j].note
      BY <2>2, <3>2 DEF FeedTyped, Once
    <3>6. Once(r)
      BY <3>3, <3>4, <3>5 DEF Once
    <3>7. ASSUME NEW l \in Pushers, pushes'[l].pc = "publish", NEW i \in 1..Len(r)
          PROVE  r[i].note # pushes'[l].note
      <4>1. /\ pushes'[l] = pushes[l] /\ pushes[l].note # p.note
            /\ \A j \in 1..n : q[j].note # pushes[l].note
        BY <1>9, <2>2, <3>2, <3>7 DEF FeedTyped, Ahead
      <4> QED BY <3>3, <3>7, <4>1
    <3>8. Ahead(r)'
      BY <3>7 DEF Ahead
    <3>9. FeedTyped(g)'
      BY <1>4, <2>2, <3>1, <3>2, <3>6, <3>8 DEF FeedTyped, Once
    <3> QED BY <2>1, <3>9
  <2> QED BY <1>4, <2>1, <2>3, <2>4
<1> QED BY <1>7, <1>8, <1>10 DEF NotesTyped

\* The steps of a subscriber keep the types.
LEMMA SubscriberTyped ==
  ASSUME Inv, AccountTyped, NotesTyped, UNCHANGED users, NEW c \in Clients,
         N!Subscribe(c) \/ N!Unsubscribe(c) \/ N!Hear(c)
  PROVE  NotesTyped'
<1>1. /\ UNCHANGED <<notes, pushes, dropped>> /\ FeedsOK
      /\ FeedOK(feeds[c], notes) /\ FeedTyped(feeds[c])
  BY DEF N!Subscribe, N!Unsubscribe, N!Hear, Inv, FeedsOK, NotesTyped
<1>2. ASSUME NEW f, FeedTyped(f), feeds' = [feeds EXCEPT ![c] = f] PROVE NotesTyped'
  <2>1. \A d \in Clients : FeedTyped(feeds[d])'
    BY <1>1, <1>2, FeedTypes
  <2> QED BY <1>1, <2>1 DEF NotesTyped, PushTyped, N!Note
<1>3. CASE N!Subscribe(c)
  <2>1. PICK f : f = [feeds[c] EXCEPT !.user = session[c], !.before = DOMAIN notes]
    OBVIOUS
  <2>2. feeds' = [feeds EXCEPT ![c] = f]
    BY <1>1, <1>3, <2>1 DEF N!Subscribe, FeedsOK
  <2>3. /\ f.before = DOMAIN notes /\ f.queue = feeds[c].queue
        /\ f.heard = feeds[c].heard /\ f.user = session[c]
    BY <1>1, <2>1 DEF FeedOK, Rec, FeedFields
  <2>4. DOMAIN notes \subseteq N!NoteIds /\ session[c] \in DOMAIN users \cup {NoId}
    BY DEF Inv, NotesOK, AccountTyped
  <2>5. FeedTyped(f)
    BY <1>1, <2>3, <2>4 DEF FeedTyped
  <2> QED BY <1>2, <2>2, <2>5
<1>4. CASE N!Unsubscribe(c)
  <2>1. PICK f : f = N!NoFeed
    OBVIOUS
  <2>2. feeds' = [feeds EXCEPT ![c] = f]
    BY <1>4, <2>1 DEF N!Unsubscribe
  <2> QED BY <1>2, <2>1, <2>2, NoFeedTyped
<1>5. CASE N!Hear(c)
  <2>1. PICK q, r : q = feeds[c].queue /\ r = Tail(q)
    OBVIOUS
  <2>2. PICK heard : heard = IF N!Wanted(c, Head(q)) THEN feeds[c].heard \cup {Head(q).note}
                                                     ELSE feeds[c].heard
    OBVIOUS
  <2>3. PICK f : f = [feeds[c] EXCEPT !.queue = r, !.heard = heard]
    OBVIOUS
  <2>4. feeds' = [feeds EXCEPT ![c] = f] /\ q # <<>>
    BY <1>1, <1>5, <2>1, <2>2, <2>3 DEF N!Hear, FeedsOK
  <2>5. /\ f.before = feeds[c].before /\ f.queue = r
        /\ f.heard = heard /\ f.user = feeds[c].user
    BY <1>1, <2>3 DEF FeedOK, Rec, FeedFields
  <2>6. /\ q \in Seq(Payload) /\ \A i \in 1..Len(r) : i + 1 \in 1..Len(q) /\ r[i] = q[i + 1]
        /\ Head(q) = q[1] /\ Len(q) \in Nat \ {0} /\ Len(r) = Len(q) - 1
    BY <1>1, <2>1, <2>4, TailFact DEF FeedOK
  <2>7. Head(q).note \in N!NoteIds
    <3>1. q[1] \in Payload
      BY <2>6
    <3> QED BY <2>6, <3>1 DEF Payload
  <2>8. Once(r)
    <3> SUFFICES ASSUME NEW i \in 1..Len(r), NEW j \in 1..Len(r), i # j
                 PROVE  r[i].note # r[j].note
      BY DEF Once
    <3>1. i + 1 # j + 1 /\ i + 1 \in 1..Len(q) /\ j + 1 \in 1..Len(q)
      BY <2>6
    <3>2. Once(q)
      BY <1>1, <2>1 DEF FeedTyped
    <3> QED BY <2>6, <3>1, <3>2 DEF Once
  <2>9. Ahead(r)
    <3>1. Ahead(q)
      BY <1>1, <2>1 DEF FeedTyped
    <3> SUFFICES ASSUME NEW k \in Pushers, pushes[k].pc = "publish", NEW i \in 1..Len(r)
                 PROVE  r[i].note # pushes[k].note
      BY DEF Ahead
    <3>2. i + 1 \in 1..Len(q) /\ r[i] = q[i + 1]
      BY <2>6
    <3> QED BY <3>1, <3>2 DEF Ahead
  <2>10. FeedTyped(f)
    BY <1>1, <2>2, <2>5, <2>7, <2>8, <2>9 DEF FeedTyped
  <2> QED BY <1>2, <2>4, <2>10
<1> QED BY <1>3, <1>4, <1>5

\* markAllAsRead keeps the types.
LEMMA MarkTyped ==
  ASSUME NotesTyped, UNCHANGED users, NEW c \in Clients, N!MarkAllAsRead(c)
  PROVE  NotesTyped'
<1>1. UNCHANGED <<pushes, feeds, dropped>> /\ DOMAIN notes' = DOMAIN notes
  BY DEF N!MarkAllAsRead
<1>2. ASSUME NEW n \in DOMAIN notes PROVE notes'[n] \in N!Note
  <2>1. PICK d : d = [notes[n] EXCEPT !.isRead = TRUE]
    OBVIOUS
  <2>2. notes[n] \in N!Note
    BY DEF NotesTyped
  <2>3. d = [owner |-> notes[n].owner, isRead |-> TRUE]
    BY <2>1, <2>2 DEF N!Note
  <2>4. d \in N!Note
    BY <2>2, <2>3 DEF N!Note
  <2>5. notes'[n] \in {notes[n], d}
    BY <2>1 DEF N!MarkAllAsRead
  <2> QED BY <2>2, <2>4, <2>5
<1>3. \A k \in Clients : FeedTyped(feeds[k])'
  BY <1>1 DEF NotesTyped, FeedTyped, Once, Ahead
<1>4. \A k \in Pushers : PushTyped(pushes[k])'
  BY <1>1 DEF NotesTyped, PushTyped
<1> QED BY <1>1, <1>2, <1>3, <1>4 DEF NotesTyped, N!Note

\* A restart drops the frames and the subscriptions.
LEMMA RestartTyped ==
  ASSUME Inv, TypeInv, Restart
  PROVE  TypeInv'
<1>1. /\ UNCHANGED <<users, funded, session, wallets, notes>>
      /\ signups' = [c \in Clients |-> A!NoSignup]
      /\ pushes' = [k \in Pushers |-> N!NoPush] /\ feeds' = [c \in Clients |-> N!NoFeed]
      /\ A!Fault
  BY DEF Restart, A!Restart, N!Restart
<1>2. AccountTyped'
  <2>1. \A c \in Clients : SignupTyped(signups'[c]) /\ signups'[c].pc # "wallet"
    BY <1>1, NoSignupFields DEF SignupTyped
  <2>2. Asking' = {} /\ Cardinality({}) = 0
    BY <2>1, FS_EmptySet DEF Asking
  <2>3. faults' \in 0..MaxFaults
    BY <1>1, FaultTyped DEF TypeInv, AccountTyped
  <2> QED BY <1>1, <2>1, <2>2, <2>3 DEF TypeInv, AccountTyped
<1>3. NotesTyped'
  <2>1. dropped' \subseteq N!NoteIds
    BY DEF Restart, N!Restart, Inv, PushesOK, PushOK, TypeInv, NotesTyped
  <2>2. \A k \in Pushers : PushTyped(pushes[k])' /\ pushes'[k].pc = "idle"
    BY <1>1, NoPushFact DEF PushTyped
  <2>3. PICK f : f = N!NoFeed /\ FeedTyped(f)
    BY NoFeedTyped
  <2>4. Ahead(f.queue)'
    BY <2>2 DEF Ahead
  <2>5. FeedTyped(f)'
    BY <1>1, <2>3, <2>4 DEF FeedTyped, Once
  <2>6. \A c \in Clients : FeedTyped(feeds[c])'
    BY <1>1, <2>3, <2>5
  <2> QED BY <1>1, <2>1, <2>2, <2>6 DEF TypeInv, NotesTyped, N!Note
<1> QED BY <1>2, <1>3 DEF TypeInv

-----------------------------------------------------------------------------
(* Theorem on the types                                                     *)

\* The types are inductive.
LEMMA TypeInvariance == Spec => []TypeInv
<1>1. Init => TypeInv
  <2> SUFFICES ASSUME Init PROVE TypeInv
    OBVIOUS
  <2>1. AccountTyped
    <3>1. \A c \in Clients : SignupTyped(signups[c]) /\ signups[c].pc # "wallet"
      BY NoSignupFields DEF Init, A!Init, SignupTyped
    <3>2. Asking = {} /\ Cardinality({}) = 0
      BY <3>1, FS_EmptySet DEF Asking
    <3> QED BY <3>1, <3>2 DEF Init, A!Init, AccountTyped
  <2>2. NotesTyped
    BY NoFeedTyped DEF Init, N!Init, NotesTyped, PushTyped
  <2> QED BY <2>1, <2>2 DEF TypeInv
<1>2. Inv /\ TypeInv /\ [Next]_vars => TypeInv'
  <2> SUFFICES ASSUME Inv, TypeInv, [Next]_vars PROVE TypeInv'
    OBVIOUS
  <2>1. CASE A!Next /\ UNCHANGED noteVars
    BY <2>1, AccountTypes, NotesTypedStay DEF Inv, TypeInv, noteVars, noteState
  <2>2. CASE N!Next /\ UNCHANGED accountVars
    <3>1. UNCHANGED <<users, session>> /\ (A!Fault \/ UNCHANGED faults)
      BY <2>2 DEF N!Next, N!Push, N!SaveNote, N!Publish, N!Subscribe, N!Unsubscribe, N!Hear,
                  N!MarkAllAsRead, N!Fault, A!Fault
    <3>2. AccountTyped'
      BY <2>2, <3>1, FaultTyped DEF TypeInv, AccountTyped, SignupTyped, Asking, accountVars
    <3>3. NotesTyped'
      BY <2>2, <3>1, SavesTyped, PublishTyped, SubscriberTyped, MarkTyped DEF N!Next, TypeInv
    <3> QED BY <3>2, <3>3 DEF TypeInv
  <2>3. CASE Restart
    BY <2>3, RestartTyped
  <2>4. CASE UNCHANGED vars
    <3>1. NotesTyped'
      BY <2>4, NotesTypedStay DEF TypeInv, vars, noteVars, noteState
    <3> QED BY <2>4, <3>1 DEF TypeInv, AccountTyped, SignupTyped, Asking, vars, accountVars
  <2> QED BY <2>1, <2>2, <2>3, <2>4 DEF Next
<1> QED BY <1>1, <1>2, Invariance, PTL DEF Spec

\* The accounts, the frames and the subscriptions are of their types; as no notification
\* is published twice, no subscriber's queue is longer than there are notifications.
THEOREM TypeCorrect == Spec => []TypeOK
<1>1. Inv /\ TypeInv => TypeOK
  <2> SUFFICES ASSUME Inv, TypeInv PROVE TypeOK
    OBVIOUS
  <2>1. A!TypeOK
    BY DEF TypeInv, AccountTyped, SignupTyped, SignupFrame, A!TypeOK
  <2>2. \A c \in Clients : Len(feeds[c].queue) <= MaxNotes
    BY QueueLimited DEF Inv, FeedsOK, FeedOK, TypeInv, NotesTyped, FeedTyped
  <2>3. N!TypeOK
    BY <2>2 DEF Inv, NotesOK, TypeInv, NotesTyped, PushTyped, FeedTyped, N!TypeOK
  <2> QED BY <2>1, <2>3 DEF TypeOK
<1> QED
  BY <1>1, Invariance, TypeInvariance, PTL
=============================================================================
