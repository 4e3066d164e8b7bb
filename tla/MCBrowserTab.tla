---------------------------- MODULE MCBrowserTab ----------------------------
(* A small instance of BrowserTab for TLC.  The limits are in proportion:  *)
(* ten entries of the code are one here.                                   *)
EXTENDS BrowserTab

MCLimit == [dashboard |-> 2, tokens |-> 5, protocol |-> 1, ticker |-> 2, history |-> 3]

MCLinks == ({"blank"} \X (Pages \ {"blank", "settings"}))
           \cup {<<"dashboard", "protocol">>, <<"protocol", "dashboard">>,
                 <<"tokens", "settings">>, <<"settings", "team">>, <<"team", "settings">>, <<"settings", "invoices">>,
                 <<"topup", "invoices">>}
==============================================================================
