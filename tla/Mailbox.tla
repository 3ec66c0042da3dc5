------------------------------ MODULE Mailbox ------------------------------
(***************************************************************************)
(* EmailAdapter.pollInbound against an IMAP mailbox                        *)
(* (packages/channel-adapters/src/providers/email/email.adapter.ts): the   *)
(* mailbox is selected, searched from the cursor on, and its mails are     *)
(* fetched one by one, while mail keeps arriving and is deleted, and the   *)
(* server may rebuild the mailbox (a new UIDVALIDITY, UIDs from 1 again).  *)
(*                                                                         *)
(* A mail has a UID, a Message-ID (0 for none; the ones in LongId are      *)
(* longer than an event key may be and agree in their first 255            *)
(* characters), and says whether it is due: it arrived when the cursor was *)
(* of the mailbox's UIDVALIDITY.  The poller saves events and cursor in    *)
(* one transaction (module Channels has the lease).                        *)
(***************************************************************************)
EXTENDS Naturals, FiniteSets, FiniteSetsExt

CONSTANTS MessageIds, LongId, \* Message-IDs; the long ones
          PollBatch,          \* POLL_BATCH_SIZE
          MaxMail,            \* bound: mails that arrive
          MaxRebuild, MaxFail \* bounds

VARIABLES
    validity, uidNext,
    mails,      \* what is in the INBOX
    arrivedMail,\* history: number of mails so far
    cursorAt,   \* provider_accounts.sync_state
    poll,       \* the poll in progress
    keys,       \* journaled event keys, each with the mail it was made from
    saved,      \* history: mails some saved poll had fetched
    failed

vars == <<validity, uidNext, mails, arrivedMail, cursorAt, poll, keys, saved, failed>>

Idle == [pc |-> "idle", val |-> 0, last |-> 0, todo |-> {}, got |-> {}, top |-> 0]

TypeOK ==
    /\ validity \in 1 .. MaxRebuild + 1 /\ uidNext \in 1 .. MaxMail + 2
    /\ \A m \in mails : m.uid < uidNext /\ m.mid \in MessageIds \cup {0}
    /\ \A m, w \in mails : m.uid = w.uid => m = w
    /\ cursorAt.val \in 1 .. validity /\ cursorAt.last \in 0 .. MaxMail + 1
    /\ poll.pc \in {"idle", "search", "fetch"}

\* One mail is in the INBOX when the channel is connected, and verifyCredentials
\* starts the cursor behind it.
Init ==
    /\ validity = 1 /\ uidNext = 2 /\ arrivedMail = 0 /\ failed = 0
    /\ mails = {[uid |-> 1, mid |-> 0, due |-> FALSE, no |-> 0]}
    /\ cursorAt = [val |-> 1, last |-> 1]
    /\ poll = Idle /\ keys = {} /\ saved = {}

----------------------------------------------------------------------------
(* The mail server *)

Arrive(mid) ==
    /\ arrivedMail < MaxMail
    /\ arrivedMail' = arrivedMail + 1
    /\ mails' = mails \cup {[uid |-> uidNext, mid |-> mid, due |-> cursorAt.val = validity,
                             no |-> arrivedMail']}
    /\ uidNext' = uidNext + 1
    /\ UNCHANGED <<validity, cursorAt, poll, keys, saved, failed>>

Expunge(m) ==
    /\ mails' = mails \ {m}
    /\ UNCHANGED <<validity, uidNext, arrivedMail, cursorAt, poll, keys, saved, failed>>

\* The connection is lost with the old mailbox; none of what is left is due.
Rebuild ==
    /\ validity <= MaxRebuild
    /\ validity' = validity + 1
    /\ mails' = {[m EXCEPT !.uid = Cardinality({w \in mails : w.uid <= m.uid}), !.due = FALSE] : m \in mails}
    /\ uidNext' = Cardinality(mails) + 1
    /\ poll' = Idle
    /\ UNCHANGED <<arrivedMail, cursorAt, keys, saved, failed>>

----------------------------------------------------------------------------
(* pollInbound *)

\* Mutant: a rebuilt mailbox is read from where the old one ended.
LastUidKept == cursorAt.last

\* A changed UIDVALIDITY means the mailbox was rebuilt: restart from its end.
LastUid == IF cursorAt.val = validity THEN cursorAt.last ELSE uidNext - 1

Select ==
    /\ poll.pc = "idle"
    /\ IF uidNext - 1 <= LastUid
       THEN cursorAt' = [val |-> validity, last |-> LastUid] /\ UNCHANGED poll
       ELSE /\ poll' = [Idle EXCEPT !.pc = "search", !.val = validity, !.last = LastUid, !.top = LastUid]
            /\ UNCHANGED cursorAt
    /\ UNCHANGED <<validity, uidNext, mails, arrivedMail, keys, saved, failed>>

\* IMAP: n:* always contains the newest mail, also when its UID is below n.
Found == LET uids == {m.uid : m \in mails}
             new == {u \in uids : u > poll.last}
         IN IF new = {} /\ uids # {} THEN {Max(uids)} ELSE new

\* Mutant: the UIDs found are taken as they are.
FoundAsTheyAre == {u \in Found : Cardinality({v \in Found : v <= u}) <= PollBatch}

\* Sorted, and the first POLL_BATCH_SIZE above the cursor.
FoundInOrder == LET new == {u \in Found : u > poll.last}
                IN {u \in new : Cardinality({v \in new : v <= u}) <= PollBatch}

Search ==
    /\ poll.pc = "search"
    /\ IF FoundInOrder = {}
       THEN /\ cursorAt' = [val |-> poll.val, last |-> poll.last]
            /\ poll' = Idle
       ELSE poll' = [poll EXCEPT !.pc = "fetch", !.todo = FoundInOrder] /\ UNCHANGED cursorAt
    /\ UNCHANGED <<validity, uidNext, mails, arrivedMail, keys, saved, failed>>

\* Mutant: a long Message-ID is cut to the length of the column.
eventKeyCut(mid, val, uid) ==
    IF mid = 0 THEN <<"uid", val, uid>> ELSE IF mid \in LongId THEN <<"mid", 0>> ELSE <<"mid", mid>>

\* Mutant: a mail without a Message-ID is named by its UID alone.
eventKeyWithoutValidity(mid, val, uid) == IF mid = 0 THEN <<"uid", uid>> ELSE <<"mid", mid>>

\* The hash of a long Message-ID stands for it.
eventKeyFor(mid, val, uid) ==
    CASE mid = 0         -> <<"uid", val, uid>>
      [] mid \in LongId  -> <<"mid-sha256", mid>>
      [] OTHER           -> <<"mid", mid>>

\* The next mail: its source, or when it is too large the envelope, with the same
\* key; a mail deleted in the meantime is passed over.
Fetch ==
    /\ poll.pc = "fetch" /\ poll.todo # {}
    /\ LET u == Min(poll.todo) IN
         poll' = [poll EXCEPT !.todo = @ \ {u}, !.top = u,
                              !.got = @ \cup {[key |-> eventKeyFor(m.mid, poll.val, u), no |-> m.no, mid |-> m.mid] :
                                              m \in {w \in mails : w.uid = u}}]
    /\ UNCHANGED <<validity, uidNext, mails, arrivedMail, cursorAt, keys, saved, failed>>

\* Mutant: the cursor goes to the end of the mailbox, not of the batch.
BatchEndAtMailboxEnd == uidNext - 1

BatchEnd == poll.top

\* What was fetched and has no event yet.
Fresh == {g \in poll.got : ~\E k \in keys : k.key = g.key}

\* The events are journaled (the first of a key is kept) and the cursor is saved.
Save ==
    /\ poll.pc = "fetch" /\ poll.todo = {}
    /\ keys' = keys \cup {g \in Fresh : \A h \in Fresh : h.key = g.key => g.no <= h.no}
    /\ saved' = saved \cup {[no |-> g.no, mid |-> g.mid] : g \in poll.got}
    /\ cursorAt' = [val |-> poll.val, last |-> BatchEnd]
    /\ poll' = Idle
    /\ UNCHANGED <<validity, uidNext, mails, arrivedMail, failed>>

\* The connection, a command or the transaction fails: nothing is saved.
Fails ==
    /\ poll.pc # "idle" /\ failed < MaxFail
    /\ failed' = failed + 1
    /\ poll' = Idle
    /\ UNCHANGED <<validity, uidNext, mails, arrivedMail, cursorAt, keys, saved>>

Next ==
    \/ \E mid \in MessageIds \cup {0} : Arrive(mid)
    \/ \E m \in mails : Expunge(m)
    \/ Rebuild \/ Select \/ Search \/ Fetch \/ Save \/ Fails

Spec == Init /\ [][Next]_vars

----------------------------------------------------------------------------
(* Properties *)

\* No mail is passed over: what is in the mailbox, below the cursor and due was
\* fetched and saved, with batches, deletions between the commands, lost
\* connections and rebuilt mailboxes (pollInbound, email.adapter.ts).
NoMailPassedOver ==
    \A m \in mails : (m.due /\ cursorAt.val = validity /\ m.uid <= cursorAt.last)
        => \E s \in saved : s.no = m.no

\* Mail from before the channel was connected is not imported ("Start after the
\* newest existing email so old mail is not imported", email.adapter.ts).
OldMailStaysOut == \A s \in saved : s.no # 0

\* A saved mail has an event of its own, or shares it with another copy of the
\* same Message-ID: no other mail took its key (eventKeyFor).
EachMailItsOwnEvent ==
    \A s \in saved : \E k \in keys : k.no = s.no \/ (s.mid # 0 /\ k.mid = s.mid)
=============================================================================
