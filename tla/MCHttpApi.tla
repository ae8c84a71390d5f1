----------------------------- MODULE MCHttpApi ------------------------------
(***************************************************************************)
(* Three matches of which two begin at the same time, three rooms, three   *)
(* live types of which the catalogue has two, and limits of two or three   *)
(* rows.  Bytes are digits below 6 and a block has four; the cipher is an  *)
(* invertible map of pairs of digits.  The frame begins with 0 5, as does  *)
(* the raw ciphertext of a flat envelope with parameter 3.                 *)
(***************************************************************************)
EXTENDS HttpApi

MCMatchTime == <<1, 2, 2>>
MCHot == <<0, 1, 0>>
MCRoomType == <<1, 1, 2>>
MCParents == <<1, 2>>

Enc(k, x, y) == <<(y + k) % Base, (x + 2 * y + k) % Base>>
Dec(k, x, y) == <<(y - k - 2 * (x - k)) % Base, (x - k) % Base>>
MCEncBlock(k, b) == Enc(k, b[1], b[2]) \o Enc(k, b[3], b[4])
MCDecBlock(k, b) == Dec(k, b[1], b[2]) \o Dec(k, b[3], b[4])

MCLinks == {<<1, 1>>, <<1, 2>>, <<2, 1>>, <<3, 3>>}

MCInitTables ==
    {[enabled |-> Matches, parent |-> parent, linked |-> MCLinks, visible |-> Rooms,
      onAir |-> {1, 3}, types |-> {1, 2, 3}, views |-> <<1, 1, 0>>] :
        parent \in {<<1, 1, 2>>, <<1, 3, 1>>}}

Post(method, param, form, framed) ==
    [via |-> "encrypted", method |-> method, param |-> param, form |-> form,
     framed |-> framed, session |-> 1, seq |-> 2]
Get(method, param) ==
    [via |-> "jsonp", method |-> method, param |-> param, form |-> Bare,
     framed |-> FALSE, session |-> 0, seq |-> 0]

MCRequests ==
    {Post("match_detail", 3, form, framed) :
        form \in {Bare, Flat, ClientInfo}, framed \in BOOLEAN}
    \cup {Post("match_detail", 0, Flat, FALSE)}
    \cup {Post(m, 2, Bare, TRUE) : m \in Encrypted}
    \cup {Post("live_detail", 4, Flat, FALSE)}
    \cup {Get(m, 1) : m \in Jsonp}
=============================================================================
