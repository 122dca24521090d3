--------------------------- MODULE MCCommunityHub ---------------------------
(* The communities of one contract, for TLC.                               *)
EXTENDS CommunityHubProperties

CONSTANTS creator, admin, logo, newLogo

MCUsers == {creator, admin}
MCImages == {logo, newLogo}

\* A community as its creator makes it.
Club == [name |-> "club", image |-> logo, chat |-> "chat",
         census |-> [type |-> "channel", source |-> "members"],
         admins |-> [first |-> creator, others |-> {admin}], disabled |-> FALSE, permission |-> 1, funds |-> 1]
MCFounded == {Club}

\* Somebody renames it on the contract and removes the chat.
MCManaged == {[Club EXCEPT !.name = "guild", !.chat = Empty]}

Ask == [id |-> 1, user |-> creator, name |-> Empty, image |-> Empty, chat |-> "chat",
        census |-> [type |-> "channel", source |-> Empty], admins |-> Empty, disabled |-> Nil]

\* A new name; a new logo and census; other admins, without the creator.
MCAsks ==
    {[Ask EXCEPT !.name = "circle", !.disabled = TRUE],
     [Ask EXCEPT !.image = newLogo, !.user = admin, !.admins = [first |-> creator, others |-> {}],
                 !.census = [type |-> "erc20", source |-> "token"]],
     [Ask EXCEPT !.user = admin, !.admins = [first |-> admin, others |-> {}]]}
=============================================================================
