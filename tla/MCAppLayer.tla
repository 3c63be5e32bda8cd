----------------------------- MODULE MCAppLayer -----------------------------
(* Small sets of requests for the application layer.                         *)
EXTENDS AppLayer

(* One request for each way through al_recv_packet. *)
AllRequests ==
  {<<"CONTROL", "OPEN">>, <<"CONTROL", "CLOSE">>, <<"CONTROL", "REVOLVING">>,
   <<"SETTING", "TIME">>, <<"RT_DATA", "PM25">>, <<"STATUS", "PURIFY">>,
   <<"STATUS", "unknown">>, <<"OL_DATA", "PM25">>, <<"DFU", "REQUEST">>}

(* What the phone application needs in daily use. *)
DailyRequests == {<<"CONTROL", "OPEN">>, <<"CONTROL", "CLOSE">>, <<"STATUS", "PURIFY">>}
=============================================================================
