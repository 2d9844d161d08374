------------------------------- MODULE MCHttp -------------------------------
(***************************************************************************)
(* Requests for the runs of module Http.                                   *)
(***************************************************************************)
EXTENDS Http

\* Short headers, one that is too long, beginnings of the empty line that lead
\* nowhere, requests with a body
MCRequests ==
  { <<Other>>, <<Other, CR, LF, Other>>, <<CR, CR>>, <<Other, Other, Other, Other, Other>>,
    <<2>>, <<3, Other>> }
=============================================================================
