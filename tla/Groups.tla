-------------------------------- MODULE Groups ---------------------------------
(***************************************************************************)
(* Who belongs to a group (HTGroup.c).  A group is a sequence of items; an *)
(* item names users and groups, none for any user, and addresses, none for *)
(* any address.  A group file defines groups one after the other; a name   *)
(* refers to the group defined last before it, and is that of a user if    *)
(* there is none.  Items, names and addresses are in the order in which    *)
(* the code walks them.                                                    *)
(***************************************************************************)
EXTENDS Patterns

\* Names are not empty, and a group has an item.
GroupItem == [users : Seq(STRING \ {""}), addresses : Seq(Seq(STRING))]
Items     == Seq(GroupItem) \ {<<>>}
Group     == [name : STRING, items : Items]

\* Names with a meaning, in any case of letters.
Authenticated == {"users", "all", "*"}
Everybody     == {"anybody", "anyone", "anonymous"}

\* NoUser: the empty user name of a client that has not authenticated itself.
NoUser == ""

\* HTIpMaskMatch: the name or the number of the client.
AddressMatches(mask, client) == \E a \in client : Mapped(mask, <<>>, a) # {}

\* ip_in_def_list
AddressIn(addresses, client) ==
    addresses = <<>> \/ \E mask \in ToSet(addresses) : AddressMatches(mask, client)

\* find_group_def among the first n groups of the file: its place, or 0.
Defined(file, n, name) == Max({0} \cup {i \in 1 .. n : file[i].name = name})

NameMatches(name, user) ==
    \/ user # NoUser /\ (name = user \/ name \in Authenticated)
    \/ name \in Everybody

\* Mutant: that the address is right is not noted.
Unnoted(s) == s

\* Somebody may come from here.
Noted(s) == [s EXCEPT !.poss = TRUE]

\* No item with the user: whether somebody else may come from here.
Verdict(s) ==
    [s EXCEPT !.reason = IF s.ok THEN "ok" ELSE IF s.poss THEN "not_member" ELSE @]

\* HTAA_userAndInetInGroup for a group whose names may refer to the first n groups of
\* the file, with Inner[i] what it says of the i-th.  "poss" is a static variable:
\* after a name that refers to a group it has the value it got there.
Judged(items, file, n, Inner, user, client) ==
    LET Name(s, name) ==
            IF s.ok THEN s
            ELSE IF Defined(file, n, name) # 0 THEN Inner[Defined(file, n, name)]
            ELSE [s EXCEPT !.ok = NameMatches(name, user)]
        Item(s, item) ==
            IF s.ok THEN s
            ELSE IF ~AddressIn(item.addresses, client)
            THEN [s EXCEPT !.reason = IF s.poss THEN @ ELSE "ip_mask"]
            ELSE IF item.users = <<>> THEN [s EXCEPT !.ok = TRUE]
            ELSE FoldLeft(Name, Noted(s), item.users)
    IN Verdict(FoldLeft(Item, [ok |-> FALSE, poss |-> FALSE, reason |-> "not_member"], items))

\* The reason for which a group that stands behind all of the file does not let the
\* user in, or "ok".  No group depends on those defined after it.
InGroup(items, file, user, client) ==
    LET After(inner, group) ==
            Append(inner, Judged(group.items, file, Len(inner), inner, user, client))
        ofFile == FoldLeft(After, <<>>, file)
    IN Judged(items, file, Len(file), ofFile, user, client).reason

-----------------------------------------------------------------------------
\* What a group means: some item has the address and either any user, or a name that
\* is that of the user or of a group he belongs to.
Belongs(items, file, user, client) ==
    LET Holds(its, n, in) ==
            \E item \in ToSet(its) :
                /\ AddressIn(item.addresses, client)
                /\ \/ item.users = <<>>
                   \/ \E name \in ToSet(item.users) :
                         LET i == Defined(file, n, name)
                         IN IF i # 0 THEN in[i] ELSE NameMatches(name, user)
        in[i \in 1 .. Len(file)] == Holds(file[i].items, i - 1, in)
    IN Holds(items, Len(file), in)

\* Names of groups are used in the group.
Nested(items, file) ==
    \E item \in ToSet(items) : \E name \in ToSet(item.users) :
        Defined(file, Len(file), name) # 0
=============================================================================
