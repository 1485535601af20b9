----------------------------- MODULE MCChannels -----------------------------
(* An instance of Channels: an access point, a range extender and an end   *)
(* device.                                                                 *)
EXTENDS Channels

KnowsAp == [c \in Clients |-> "ap"]

Both(pairs) == pairs \cup {<<p[2], p[1]>> : p \in pairs}

\* The end device is out of the access point's range.
Chain == Both({<<"ap", "re">>, <<"re", "ed">>})
=============================================================================
