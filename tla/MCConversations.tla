-------------------------- MODULE MCConversations --------------------------
(* Two messages of one chat sender that arrive in the wrong order, one of another,  *)
(* and two people who write to one e-mail thread, the second by answering a message. *)
EXTENDS Naturals

CONSTANTS User, MaxRequests

VARIABLES settings, conv, at, snap, pick, user, requests, resolves, raced, overlap

In(s, th, re, t) == [sender |-> s, thread |-> th, reply |-> re, time |-> t]
MCInbound == [m1 |-> In("ann", "", "", 2), m2 |-> In("ann", "", "", 1), m3 |-> In("bob", "", "", 2),
              m4 |-> In("eve", "t1", "", 2), m5 |-> In("dan", "t2", "m4", 1)]
MCAgent == <<"x", "y">>
Set(m, c, p) == [method |-> m, cap |-> c, preferred |-> p]
MCSettings == {Set("LEAST_ASSIGNED", 1, FALSE), Set("ROUND_ROBIN", 9, FALSE),
               Set("LEAST_ASSIGNED", 9, TRUE), Set("MANUAL", 9, FALSE)}

INSTANCE ConversationIngest
    WITH Message <- DOMAIN MCInbound, Incoming <- MCInbound, Agent <- MCAgent, Settings <- MCSettings
=============================================================================
