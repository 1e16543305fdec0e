--------------------------- MODULE MCGateConsole ----------------------------
(* An instance of GateConsole for TLC.                                       *)
EXTENDS GateConsole, TLC

\* a PIN that a visitor and a family member share, a badge and a phone number of staff, a
\* technician's ticket, a family member's QR
GateCodes == {"pin", "badge", "phone", "ticket", "member"}
GateLook ==
  ("pin" :> "visitor") @@ ("badge" :> "staff") @@ ("phone" :> "visitor") @@ ("ticket" :> "vendor")
    @@ ("member" :> "family")
GateDigits == [c \in GateCodes |-> CASE c = "pin" -> 6 [] c = "phone" -> 10 [] OTHER -> 20]
GatePasses ==
  {<<"visitor", "pin">>, <<"family", "pin">>, <<"staff", "badge">>, <<"staff", "phone">>,
   <<"family", "member">>}
=============================================================================
