---------------------------- MODULE Notification ----------------------------
(***************************************************************************)
(* Notifications: NotificationService.push and markAllAsRead, and the      *)
(* subscription notificationPushed with its filter.                        *)
(*                                                                         *)
(* A push saves the notification, awaits, and publishes a copy of it on    *)
(* one channel for all subscribers; each subscriber keeps a queue, and the *)
(* filter lets through what his user owns.  His user is that of the        *)
(* connection, read once, when he subscribes.  Users and tokens belong to  *)
(* Account.                                                                *)
(***************************************************************************)
EXTENDS Integers, Sequences, Maps

CONSTANTS Clients,   \* the clients of the API
          Pushers,   \* calls of push that overlap: bids and ends of auctions
          NoId,      \* no user, no notification
          MaxNotes,  \* bound: notifications
          MaxFaults  \* bound: failures and restarts

VARIABLES
  users,   \* the users collection (Account)
  session, \* client -> the user of his token (Account)
  faults,  \* failures and restarts so far
  notes,   \* the notifications collection: id -> document
  pushes,  \* the frames of the pushes in flight
  feeds,   \* client -> his subscription
  dropped  \* history: notifications whose push ended before it published

vars == <<users, session, faults, notes, pushes, feeds, dropped>>

NoteIds == 1..MaxNotes
Note == [owner: DOMAIN users, isRead: BOOLEAN]
NoPush == [pc |-> "idle", note |-> NoId, owner |-> NoId]
\* heard and before are history: what reached the client, and what there was
\* when he subscribed.
NoFeed == [user |-> NoId, queue |-> <<>>, heard |-> {}, before |-> {}]

TypeOK ==
  /\ DOMAIN notes \subseteq NoteIds
  /\ \A n \in DOMAIN notes : notes[n] \in Note
  /\ \A k \in Pushers :
       \/ pushes[k] = NoPush
       \/ pushes[k] \in [pc: {"save", "publish"}, note: NoteIds, owner: DOMAIN users]
  /\ \A c \in Clients :
       /\ feeds[c].user \in DOMAIN users \cup {NoId}
       /\ Len(feeds[c].queue) <= MaxNotes
       /\ feeds[c].heard \cup feeds[c].before \cup dropped \subseteq NoteIds

Init ==
  /\ notes = <<>>
  /\ pushes = [k \in Pushers |-> NoPush]
  /\ feeds = [c \in Clients |-> NoFeed]
  /\ dropped = {}

Fault == faults < MaxFaults /\ faults' = faults + 1
Return(k) == pushes' = [pushes EXCEPT ![k] = NoPush]
Unused(n) == n \notin DOMAIN notes /\ \A k \in Pushers : pushes[k].note # n

-----------------------------------------------------------------------------
\* push, up to the first await: the document and its id.
Push(k, u) ==
  /\ pushes[k].pc = "idle"
  /\ \E n \in NoteIds :
       /\ Unused(n) /\ \A m \in 1..(n - 1) : ~Unused(m)
       /\ pushes' = [pushes EXCEPT ![k] = [pc |-> "save", note |-> n, owner |-> u]]
  /\ UNCHANGED <<users, session, faults, notes, feeds, dropped>>

\* A mutation of SaveNote: it does not wait for the write, which fails later.
SaveNoteUnawaited(k) ==
  /\ pushes[k].pc = "save"
  /\ pushes' = [pushes EXCEPT ![k].pc = "publish"]
  /\ \/ /\ notes' = With(notes, pushes[k].note, [owner |-> pushes[k].owner, isRead |-> FALSE])
        /\ UNCHANGED faults
     \/ Fault /\ UNCHANGED notes
  /\ UNCHANGED <<users, session, feeds, dropped>>

\* save.  When it rejects, push does, and the document may be there or not.
SaveNote(k) ==
  LET n == pushes[k].note
      saved == With(notes, n, [owner |-> pushes[k].owner, isRead |-> FALSE])
  IN /\ pushes[k].pc = "save"
     /\ \/ /\ notes' = saved
           /\ pushes' = [pushes EXCEPT ![k].pc = "publish"]
           /\ UNCHANGED <<faults, dropped>>
        \/ /\ Fault
           /\ Return(k)
           /\ \/ notes' = saved /\ dropped' = dropped \cup {n}
              \/ UNCHANGED <<notes, dropped>>
     /\ UNCHANGED <<users, session, feeds>>

\* publish, to everybody who is subscribed; or Redis rejects.
Publish(k) ==
  LET payload == [note |-> pushes[k].note, owner |-> pushes[k].owner]
  IN /\ pushes[k].pc = "publish"
     /\ Return(k)
     /\ \/ /\ feeds' = [c \in Clients |->
                          IF feeds[c].user = NoId THEN feeds[c]
                          ELSE [feeds[c] EXCEPT !.queue = Append(@, payload)]]
           /\ UNCHANGED <<faults, dropped>>
        \/ /\ Fault
           /\ dropped' = dropped \cup {payload.note}
           /\ UNCHANGED feeds
     /\ UNCHANGED <<users, session, notes>>

\* The subscription of a client who is logged in.
Subscribe(c) ==
  /\ feeds[c].user = NoId /\ session[c] # NoId
  /\ feeds' = [feeds EXCEPT ![c].user = session[c], ![c].before = DOMAIN notes]
  /\ UNCHANGED <<users, session, faults, notes, pushes, dropped>>

Unsubscribe(c) ==
  /\ feeds[c].user # NoId
  /\ feeds' = [feeds EXCEPT ![c] = NoFeed]
  /\ UNCHANGED <<users, session, faults, notes, pushes, dropped>>

\* A mutation of Wanted: the filter asks the token of today.
WantedToday(c, payload) == payload.owner = session[c]

\* The filter of the subscription.
Wanted(c, payload) == payload.owner = feeds[c].user

\* The next event of a subscriber's queue passes the filter, or is skipped.
Hear(c) ==
  LET payload == Head(feeds[c].queue)
  IN /\ feeds[c].queue # <<>>
     /\ feeds' = [feeds EXCEPT
          ![c].queue = Tail(@),
          ![c].heard = IF Wanted(c, payload) THEN @ \cup {payload.note} ELSE @]
     /\ UNCHANGED <<users, session, faults, notes, pushes, dropped>>

\* markAllAsRead: one updateMany over the unread ones of the caller.
MarkAllAsRead(c) ==
  /\ session[c] # NoId
  /\ notes' = [n \in DOMAIN notes |->
                 IF notes[n].owner = session[c] THEN [notes[n] EXCEPT !.isRead = TRUE]
                 ELSE notes[n]]
  /\ UNCHANGED <<users, session, faults, pushes, feeds, dropped>>

\* The process restarts: frames and connections are gone.
Restart ==
  /\ dropped' = dropped \cup {pushes[k].note : k \in {j \in Pushers : pushes[j].pc = "publish"}}
  /\ pushes' = [k \in Pushers |-> NoPush]
  /\ feeds' = [c \in Clients |-> NoFeed]
  /\ UNCHANGED <<users, session, notes>>

Next ==
  \/ \E k \in Pushers : \/ \E u \in DOMAIN users : Push(k, u)
                        \/ SaveNote(k) \/ Publish(k)
  \/ \E c \in Clients : Subscribe(c) \/ Unsubscribe(c) \/ Hear(c) \/ MarkAllAsRead(c)

-----------------------------------------------------------------------------
(* Properties                                                              *)

\* A subscriber only hears of notifications that are stored, and that belong to
\* the user he subscribed as, whoever logs in meanwhile.
HeardIsStored ==
  \A c \in Clients : \A n \in feeds[c].heard :
    n \in DOMAIN notes /\ notes[n].owner = feeds[c].user

\* A client who subscribes and then reads the list misses nothing: each of his
\* notifications was there, is heard, is on its way, or lost its publish call to
\* a failure or a restart, and is in the list only.
NothingMissed ==
  \A c \in Clients : \A n \in DOMAIN notes :
    feeds[c].user # NoId /\ notes[n].owner = feeds[c].user =>
      \/ n \in feeds[c].before \cup feeds[c].heard \cup dropped
      \/ \E k \in Pushers : pushes[k].note = n
      \/ \E i \in 1..Len(feeds[c].queue) : feeds[c].queue[i].note = n
=============================================================================
