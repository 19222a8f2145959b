----------------------------- MODULE Announcement -----------------------------
(***************************************************************************)
(* The announcement: cgi-src/admin_announcement.c, which overwrites the    *)
(* one file data/announcement.txt for an administrator.                    *)
(***************************************************************************)
EXTENDS Requests

CONSTANTS Admin   \* the users whose role is 1 or 2

Saving == [op : {"announce"}, user : User]

VARIABLES announcement   \* whose text is in announcement.txt

AnnouncementInit == announcement = {"shipped"}

\* "Permission denied"
RefuseAnnouncement(r) ==
    /\ Arrive(r, "announce")
    /\ query[r].user \notin Admin
    /\ Go(r, "refused")
    /\ UNCHANGED announcement

\* Mutant: mode "a".
OpenAtEnd(r) ==
    /\ Arrive(r, "announce")
    /\ query[r].user \in Admin
    /\ Go(r, "saving")
    /\ UNCHANGED announcement

\* fopen, mode "w"
OpenAnnouncement(r) ==
    /\ Arrive(r, "announce")
    /\ query[r].user \in Admin
    /\ announcement' = {}
    /\ Go(r, "saving")

\* fclose; "Announcement saved!"
WriteAnnouncement(r) ==
    /\ At(r, "saving")
    /\ \E rest \in {{}, announcement} : announcement' = rest \cup {r}
    /\ Go(r, "done")

AnnouncementStep(r) ==
    RefuseAnnouncement(r) \/ OpenAnnouncement(r) \/ WriteAnnouncement(r)

-----------------------------------------------------------------------------
AnnouncementTypeOK == announcement \subseteq Req \cup {"shipped"}

Savings == Those({"announce"})

(***************************************************************************)
(* The announcement is the one that was saved last, whole and alone, and   *)
(* it is gone only while or because a request was stopped between opening  *)
(* and writing; unless two were saved at the same time                     *)
(* (admin_announcement.c:76-82).                                           *)
(***************************************************************************)
AnnouncementIsLast ==
    OneByOne(Savings) =>
        \A r \in Savings :
            (\A s \in Savings \ {r} : s \in before[r]) =>
                announcement = IF pc[r] = "done" THEN {r} ELSE {}
==============================================================================
