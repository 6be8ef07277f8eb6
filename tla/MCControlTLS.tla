---------------------------- MODULE MCControlTLS ----------------------------
(* Sessions for the model checker: peers that share one, several or no TLS *)
(* versions with pftp, origins without TLS, PROXY headers, long replies.   *)
EXTENDS ControlTLS

MCProtocols == {"TLSv1.2", "TLSv1.3", ""}

MCPlain ==
    [min |-> "", max |-> "TLSv1.3", proxyProtocol |-> FALSE, client |-> {12},
     origins |-> {12, 13}, readsHeader |-> TRUE, longGreeting |-> FALSE,
     longReplies |-> FALSE]

(* In the sixth the version the client brings is one origins refuse; in    *)
(* the seventh min_protocol is above the default of max_protocol.          *)
MCSetups ==
    {MCPlain,
     [MCPlain EXCEPT !.proxyProtocol = TRUE],
     [MCPlain EXCEPT !.proxyProtocol = TRUE, !.readsHeader = FALSE],
     [MCPlain EXCEPT !.longGreeting = TRUE],
     [MCPlain EXCEPT !.longReplies = TRUE],
     [MCPlain EXCEPT !.client = {12, 13}, !.origins = {12}],
     [MCPlain EXCEPT !.min = "TLSv1.3", !.max = ""],
     [MCPlain EXCEPT !.origins = {}]}
=============================================================================
