---------------------------- MODULE EmailThreads ----------------------------
(***************************************************************************)
(* How letters find their conversation.  A reply names the letters before  *)
(* it (buildIntent of apps/worker/src/processing/outbound-dispatcher       *)
(* .service.ts), the customer's mail program copies that list into its     *)
(* answer, and normalizeInbound (packages/channel-adapters/src/providers/  *)
(* email/email.adapter.ts) and findEmailThread (conversation-ingest        *)
(* .service.ts) look the conversation up by it.                            *)
(*                                                                         *)
(* Letters are numbered by their date, which is their place in the         *)
(* timeline; k stands for the Message-ID of letter k, and -k for the id    *)
(* that a letter without one is stored under.  A reply is accepted by the  *)
(* mail server and recorded (markSent) in two steps, so it may be answered *)
(* before, or without ever, being recorded.  Letters are stored one at a   *)
(* time and in any order; module ConversationIngest has the transactions.  *)
(***************************************************************************)
EXTENDS Integers, Sequences, FiniteSets

CONSTANTS MAX_EMAIL_REFERENCES,
          MaxLetter,              \* bound: letters
          MaxWaiting,             \* bound: letters that wait to be stored or sent
          MaxNew                  \* bound: only the first ones are new, have no id or answer a letter from elsewhere

VARIABLES
    letters,   \* what was written: by whom, its References and In-Reply-To, the letter it answers
    threads,   \* conversations.external_thread_id, in the order of creation
    filed,     \* messages: [letter -> conversation and provider_message_id (0: NULL)]
    processed, \* letters whose event is processed
    strayed    \* history: a letter was stored before the letter it answers was

vars == <<letters, threads, filed, processed, strayed>>

Elsewhere == MaxLetter + 1   \* a letter that was never sent to this mailbox
Written == DOMAIN letters
Filed == DOMAIN filed
Waiting == {k \in Written \ processed : ~(letters[k].by = "agent" /\ letters[k].sent)}
Of(c) == {k \in Filed : filed[k].conv = c}

TypeOK ==
    /\ \A k \in Written : /\ letters[k].by \in {"customer", "program", "agent"}
                          /\ letters[k].answers \in 0 .. Elsewhere
                          /\ \A i \in DOMAIN letters[k].refs : letters[k].refs[i] \in 1 .. Elsewhere
    /\ Filed \subseteq Written /\ processed \subseteq Written
    /\ \A k \in Filed : filed[k].conv \in DOMAIN threads /\ filed[k].id \in {0, k, -k}

Init == letters = <<>> /\ threads = <<>> /\ filed = <<>> /\ processed = {} /\ strayed = FALSE

-----------------------------------------------------------------------------
(* The customer's mail program *)

\* An answer lists its parent's references, or the letter that the parent answers, and its parent;
\* some programs list nothing.
ReferencesTo(k) ==
    IF k = Elsewhere THEN <<k>>
    ELSE Append(IF letters[k].refs = <<>> /\ letters[k].reply > 0 THEN <<letters[k].reply>> ELSE letters[k].refs, k)

\* A new letter, or an answer to one that has an id; "program" is an automatic reply.
\* (Bound: only one is automatic.)
Write(by, k, lists, id) ==
    /\ Len(letters) < MaxLetter /\ Cardinality(Waiting) < MaxWaiting
    /\ k \in Written => letters[k].sent /\ letters[k].id > 0
    /\ (k \in {0, Elsewhere} \/ ~id) => Len(letters) < MaxNew
    /\ by = "program" => k \in Written /\ \A j \in Written : letters[j].by # "program"
    /\ letters' = Append(letters, [by |-> by, id |-> IF id THEN Len(letters) + 1 ELSE -(Len(letters) + 1),
                                   answers |-> k, reply |-> k, sent |-> TRUE, rooted |-> FALSE,
                                   refs |-> IF k # 0 /\ lists THEN ReferencesTo(k) ELSE <<>>])
    /\ UNCHANGED <<threads, filed, processed, strayed>>

-----------------------------------------------------------------------------
(* The way in *)

\* threadId: references[0] ?? inReplyTo ?? messageId
ThreadOf(m) ==
    IF m.refs # <<>> THEN Head(m.refs) ELSE IF m.reply # 0 THEN m.reply ELSE m.id

\* Mutant: the letter that is answered is not looked for.
NotLookedFor(id) == {}

\* The conversation of the message with this provider_message_id.
Holding(id) == {filed[k].conv : k \in {j \in Filed : id # 0 /\ filed[j].id = id}}

findEmailThread(m) ==
    LET byThread == {c \in DOMAIN threads : threads[c] = ThreadOf(m)}
    IN IF byThread # {} THEN byThread ELSE Holding(m.reply)

\* A letter of this mailbox or of a program is ignored; any other is put into its thread's latest
\* conversation, the conversation of the letter it answers, or a new one.
Store(k) ==
    /\ k \in Written \ processed /\ letters[k].by # "agent" /\ processed' = processed \cup {k}
    /\ LET m == letters[k]
           found == findEmailThread(m)
           c == IF found = {} THEN Len(threads) + 1 ELSE CHOOSE d \in found : \A e \in found : e <= d
       IN IF m.by = "program" THEN UNCHANGED <<threads, filed, strayed>>
          ELSE /\ threads' = IF found = {} THEN Append(threads, ThreadOf(m)) ELSE threads
               /\ filed' = [j \in Filed \cup {k} |-> IF j = k THEN [conv |-> c, id |-> m.id] ELSE filed[j]]
               /\ strayed' = (strayed \/ (m.answers \in Written /\ \A j \in Filed : filed[j].id # m.answers))
    /\ UNCHANGED letters

-----------------------------------------------------------------------------
(* The way out *)

\* sendMessage: the reply is stored as PENDING.
ReplyIn(c) ==
    /\ Len(letters) < MaxLetter /\ Cardinality(Waiting) < MaxWaiting
    /\ LET k == Len(letters) + 1
       IN /\ letters' = Append(letters, [by |-> "agent", id |-> k, answers |-> 0, reply |-> 0, sent |-> FALSE,
                                         rooted |-> FALSE, refs |-> <<>>])
          /\ filed' = [j \in Filed \cup {k} |-> IF j = k THEN [conv |-> c, id |-> 0] ELSE filed[j]]
    /\ UNCHANGED <<threads, processed, strayed>>

\* The letters of a conversation in the order of the timeline, as far as their id is a Message-ID.
Timeline(c) ==
    LET known == {k \in Of(c) : filed[k].id > 0}
    IN [i \in 1 .. Cardinality(known) |-> CHOOSE k \in known : Cardinality({j \in known : j <= k}) = i]

\* Mutant: only the most recent letters are kept.
LatestReferences(ids) ==
    SubSeq(ids, IF Len(ids) > MAX_EMAIL_REFERENCES THEN Len(ids) - MAX_EMAIL_REFERENCES + 1 ELSE 1, Len(ids))

\* The first letter and the most recent ones.
References(ids) ==
    IF Len(ids) > MAX_EMAIL_REFERENCES
    THEN <<ids[1]>> \o SubSeq(ids, Len(ids) - MAX_EMAIL_REFERENCES + 2, Len(ids))
    ELSE ids

\* In-Reply-To: the latest letter that came in.  Its id may be no Message-ID, which no mail program knows.
LatestIn(c) ==
    LET inbound == {j \in Of(c) : letters[j].by = "customer"}
    IN IF inbound = {} THEN 0 ELSE filed[CHOOSE j \in inbound : \A i \in inbound : i <= j].id

\* The letter that the thread is called after is one of the conversation's.
StartKnown(c) == threads[c] > 0 /\ \E j \in Of(c) : filed[j].id = threads[c]

\* buildIntent, and the mail server accepts.
Send(k) ==
    /\ k \in Filed /\ ~letters[k].sent
    /\ LET c == filed[k].conv
           old == letters[k]
       IN letters' = [letters EXCEPT ![k] = [old EXCEPT !.sent = TRUE, !.refs = References(Timeline(c)),
                                                        !.reply = LatestIn(c), !.rooted = StartKnown(c)]]
    /\ UNCHANGED <<threads, filed, processed, strayed>>

\* markSent; a reply whose record fails is never recorded.
MarkSent(k) ==
    /\ k \in Filed /\ letters[k].sent /\ filed[k].id = 0
    /\ filed' = [filed EXCEPT ![k].id = k]
    /\ UNCHANGED <<letters, threads, processed, strayed>>

Next ==
    \/ \E by \in {"customer", "program"}, k \in 0 .. Elsewhere, lists, id \in BOOLEAN :
         k \in Written \cup {0, Elsewhere} /\ (k = 0 => ~lists) /\ Write(by, k, lists, id)
    \/ \E c \in DOMAIN threads : ReplyIn(c)
    \/ \E k \in Written : Store(k) \/ Send(k) \/ MarkSent(k)

Spec == Init /\ [][Next]_vars

-----------------------------------------------------------------------------
(* Properties *)

\* A letter is stored with the letter it answers, whatever either lists and whether or not the
\* conversation began with a letter that has an id or with one that answers a stranger; only a
\* letter that came before the one it answers was stored (resolveConversation) may part them.
AnswersJoinTheirLetter ==
    ~strayed => \A k \in Filed :
        letters[k].by = "customer" /\ letters[k].answers \in Written => filed[k].conv = filed[letters[k].answers].conv

\* An answer finds the conversation of a reply that is not recorded yet, or never will be, by the
\* first reference alone: however long the thread, buildIntent keeps the letter that started it.
FirstReferenceIsEnough ==
    \A k \in Filed :
        letters[k].by = "customer" /\ letters[k].answers \in Written /\ letters[k].refs # <<>>
            /\ letters[letters[k].answers].rooted
        => filed[k].conv = filed[letters[k].answers].conv
=============================================================================
