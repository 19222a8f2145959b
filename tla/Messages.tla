------------------------------- MODULE Messages -------------------------------
(***************************************************************************)
(* Messages between users: cgi-src/send_message.c, and what inbox.c and    *)
(* outbox.c make of a line of messages.txt.                                *)
(*                                                                         *)
(* A text is abstracted to what it does to its line: `plain' fits into it, *)
(* `bar' has the separator in it, `empty' leaves a field empty, which      *)
(* strtok skips, and `lines' has a line feed (or is longer than the buffer *)
(* of fgets), so that the flag at the end is on another line.              *)
(***************************************************************************)
EXTENDS Requests

Account == Range(Accounts)

Content == {"plain", "bar", "empty", "lines"}
Sending == [op : {"send"}, user : User, to : STRING, content : Content]

MessageId == 1 .. Cardinality(Req)
Message == [id : MessageId, from : User, to : Account, content : Content, req : Req]

VARIABLES
    messages,   \* messages.txt
    msgId       \* msg_id in send_message.c

messageVars == <<messages, msgId>>

MessageInit ==
    /\ messages = <<>>
    /\ msgId = [r \in Req |-> 0]

\* No receiver is given, or one without an account.
RefuseMessage(r) ==
    /\ Arrive(r, "send")
    /\ query[r].to \notin Account
    /\ Go(r, "refused")
    /\ UNCHANGED messageVars

\* user_exists, get_next_msg_id.  The second line of a text does not begin with
\* a number here.
NextMessageId(r) ==
    /\ Arrive(r, "send")
    /\ query[r].to \in Account
    /\ msgId' = [msgId EXCEPT ![r] =
           1 + Max({0} \cup {messages[k].id : k \in DOMAIN messages})]
    /\ Go(r, "addressed")
    /\ UNCHANGED messages

\* Mutant: the file is written anew.
Overwrite(r) ==
    LET q == query[r] IN
    /\ At(r, "addressed")
    /\ messages' = <<[id |-> msgId[r], from |-> q.user, to |-> q.to,
                      content |-> q.content, req |-> r]>>
    /\ Go(r, "done")
    /\ UNCHANGED msgId

\* "Message sent to ...!"
AppendMessage(r) ==
    LET q == query[r] IN
    /\ At(r, "addressed")
    /\ messages' = Append(messages, [id |-> msgId[r], from |-> q.user, to |-> q.to,
                                     content |-> q.content, req |-> r])
    /\ Go(r, "done")
    /\ UNCHANGED msgId

MessageStep(r) == RefuseMessage(r) \/ NextMessageId(r) \/ AppendMessage(r)

-----------------------------------------------------------------------------
\* inbox.c and outbox.c

\* Without a last field inbox.c compares a null pointer and dies.
HasFlag(line) == line.content \in {"plain", "bar"}

\* The rows inbox.c shows at least: what it has not sent when it dies is lost.
Inbox(u) ==
    LET rows == Keep(messages, {k \in DOMAIN messages : messages[k].to = u})
    IN IF \A k \in DOMAIN rows : HasFlag(rows[k]) THEN rows ELSE <<>>

\* outbox.c prints the fields that are there.
Outbox(u) == Keep(messages, {k \in DOMAIN messages : messages[k].from = u})

-----------------------------------------------------------------------------
MessageTypeOK ==
    /\ messages \in Seq(Message)
    /\ msgId \in [Req -> MessageId \cup {0}]

Sent == {r \in Those({"send"}) : pc[r] = "done"}
Rows(page, r) == {k \in DOMAIN page : page[k].req = r}

(***************************************************************************)
(* A message that was confirmed ("Message sent to ...!") is once in the    *)
(* outbox of its sender and once in the inbox of its receiver, however     *)
(* requests overlap and whatever is killed, and whatever others are sent:  *)
(* unless the receiver was sent an empty text or one of several lines,     *)
(* which inbox.c cannot show (inbox.c:44-52).  Numbers ascend in the order *)
(* of the file unless two were sent at the same time                       *)
(* (send_message.c:105-108).                                               *)
(***************************************************************************)
MessageArrives ==
    /\ OneByOne(Those({"send"})) =>
          \A j, k \in DOMAIN messages : j < k => messages[j].id < messages[k].id
    /\ \A r \in Sent :
           LET q == query[r]
               toSame == {s \in Sent : query[s].to = q.to}
           IN /\ Cardinality(Rows(Outbox(q.user), r)) = 1
              /\ (\A s \in toSame : query[s].content \notin {"empty", "lines"})
                    => Cardinality(Rows(Inbox(q.to), r)) = 1
-----------------------------------------------------------------------------
\* What makes MessageArrives inductive.

\* Each line was written by a request that is done, and each of those has written one.
MessageLines ==
    /\ \A k \in DOMAIN messages :
          LET l == messages[k]
          IN /\ l.req \in Sent
             /\ l.from = query[l.req].user /\ l.to = query[l.req].to
             /\ l.content = query[l.req].content /\ l.id = msgId[l.req]
    /\ \A j, k \in DOMAIN messages : messages[j].req = messages[k].req => j = k
    /\ \A r \in Sent : \E k \in DOMAIN messages : messages[k].req = r

\* Numbers ascend, and the one a request is about to use is larger than all of them.
MessageOrder ==
    OneByOne(Those({"send"})) =>
        /\ \A j, k \in DOMAIN messages : j < k => messages[j].id < messages[k].id
        /\ \A r \in Req : pc[r] = "addressed" =>
              \A k \in DOMAIN messages : messages[k].id < msgId[r]
==============================================================================
