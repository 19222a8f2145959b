-------------------------------- MODULE Boards --------------------------------
(***************************************************************************)
(* What users see of each other: posts, messages, the announcement and the *)
(* ranking, side by side, and how they get an account by the forms of the  *)
(* site.  They share the processes and nothing else.                       *)
(***************************************************************************)
EXTENDS Posts, Messages, Announcement, Scoreboard, Forms

vars == <<process, postVars, messageVars, announcement, scoreVars, formVars>>

\* What a request may ask for.
Asked(q) ==
    /\ q \in Creation \cup Deletion \cup Reading \cup Sending \cup Saving
             \cup Judging \cup Ranking \cup Profile
             \cup Registering \cup LoggingIn \cup Removing \cup Appointing
    /\ q \in Deletion \cup Reading => q.number \in Number

ASSUME BoardsAssumption ==
    /\ IsFiniteSet(Req)
    /\ \A w \in Workload, r \in Req : Asked(w[r])
    /\ None \notin Req \cup Seq(Post) \cup Text \cup Shown
    /\ Outside # None
    /\ "shipped" \notin Req
    /\ Admin \subseteq User
    /\ PageSize \in Nat \ {0}
    /\ Accounts \in Seq(ScoreUser) /\ Accounts # <<>>
    /\ \A j, k \in DOMAIN Accounts : Accounts[j] = Accounts[k] => j = k

Init == ProcessInit /\ PostInit /\ MessageInit /\ AnnouncementInit /\ ScoreInit
        /\ FormInit

\* No session, no title, no text: a form, or "Please login".  What the forms of
\* accounts bring is looked at in Forms.
Refuse(r) ==
    /\ query[r].op \notin FormOps
    /\ Arrive(r, query[r].op)
    /\ Go(r, "refused")

Step(r) ==
    \/ PostStep(r) /\ UNCHANGED <<messageVars, announcement, scoreVars, formVars>>
    \/ MessageStep(r) /\ UNCHANGED <<postVars, announcement, scoreVars, formVars>>
    \/ AnnouncementStep(r) /\ UNCHANGED <<postVars, messageVars, scoreVars, formVars>>
    \/ ScoreStep(r) /\ UNCHANGED <<postVars, messageVars, announcement, formVars>>
    \/ FormStep(r) /\ UNCHANGED <<postVars, messageVars, announcement, scoreVars>>
    \/ /\ Refuse(r) \/ Kill(r)
       /\ UNCHANGED <<postVars, messageVars, announcement, scoreVars, formVars>>

Next == \E r \in Req : Step(r)

Spec == Init /\ [][Next]_vars

ProcessTypeOK ==
    /\ \A r \in Req : Asked(query[r])
    /\ pc \in [Req -> Ended \cup {"idle", "numbered", "opened", "written", "sed", "found",
                                  "addressed", "saving", "count", "accepted"}]
    /\ before \in [Req -> SUBSET Req]

TypeOK ==
    /\ ProcessTypeOK
    /\ PostTypeOK /\ MessageTypeOK /\ AnnouncementTypeOK /\ ScoreTypeOK
    /\ FormTypeOK
-----------------------------------------------------------------------------
\* An inductive invariant, from which PostsLast, ShownTogether, MessageArrives and
\* AnnouncementIsLast follow.

\* What a request that is under way asks for.
Control ==
    \A r \in Req :
        /\ pc[r] \in {"numbered", "opened", "written"} =>
              query[r] \in Creation /\ number[r] # 0
        /\ pc[r] = "sed" => query[r] \in Deletion
        /\ pc[r] = "found" => query[r] \in Reading /\ shown[r] # None
        /\ pc[r] = "addressed" =>
              query[r] \in Sending /\ query[r].to \in Account /\ msgId[r] # 0
        /\ pc[r] = "saving" => query[r] \in Saving
        /\ pc[r] \in {"count", "accepted"} => query[r].op \in {"rank", "profile"}

IInv ==
    /\ ProcessTypeOK /\ Past /\ Control
    /\ AnnouncementTypeOK /\ AnnouncementIsLast
    /\ MessageTypeOK /\ Dense(msgId) /\ MessageLines /\ MessageOrder
    /\ PostTypeOK /\ Dense(number) /\ PostLines /\ PostAtWork /\ TextBelongs
    /\ PostsLast /\ LineGone /\ ShownTogether /\ FoundStays
==============================================================================
