---------------------------- MODULE MCUpstreamAuth ----------------------------
(***************************************************************************)
(* Two calls, every token source, and every way to be configured: with an  *)
(* OAuth secret and refresh token (though a file is named too), with half  *)
(* of them (refused at startup), with the shared provider chain, and with  *)
(* a credential file.                                                      *)
(***************************************************************************)
EXTENDS UpstreamAuth

Configured(source, secret, refresh, share, file) ==
  [source |-> source, secret |-> secret, refreshToken |-> refresh,
   applicationDefault |-> FALSE, shared |-> share, path |-> file]

MCSettings ==
  {Configured("request_header_or_config", "usable", TRUE, TRUE, TRUE),
   Configured("request_header", "usable", FALSE, TRUE, TRUE),
   Configured("request_header", "unset", FALSE, TRUE, FALSE),
   Configured("request_header_or_config", "unset", FALSE, TRUE, TRUE),
   Configured("config", "unset", FALSE, FALSE, TRUE),
   Configured("request_header_or_config", "unset", FALSE, FALSE, TRUE)}
===============================================================================
