------------------------------ MODULE MCSetup ------------------------------
(* Systems the tool may be pointed at: with and without a control account, *)
(* with one or two teams of which --app-account names one, and with groups *)
(* made by hand.                                                           *)
EXTENDS Setup

plain   == [kind |-> "plain", matches |-> TRUE]
system  == [kind |-> "system", matches |-> FALSE]
other   == [kind |-> "plain", matches |-> FALSE]
control == [kind |-> "control", matches |-> FALSE]

Systems == {<<system, plain>>, <<plain, control>>, <<other, plain>>}

SomeGroups ==
  {<<>>,
   <<GroupIn(1, "soulstream-user", FALSE)>>,
   <<GroupIn(2, "auth-users", TRUE)>>,
   <<GroupIn(2, "soulstream-auth-issuer", TRUE), GroupIn(2, "auth-users", FALSE)>>}

===========================================================================
