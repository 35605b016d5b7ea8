----------------------------- MODULE WebClient -----------------------------
(***************************************************************************)
(* One call of the web front end, from the page to the back end and back:  *)
(* axios (packages/web/src/utils/request.js), the Node server that serves  *)
(* the page and proxies its API (src/middleware/api-proxy), and what the   *)
(* back end behind it can do.  A page awaits the promise of the call, so   *)
(* all it tells apart is whether the promise resolves, and with what body. *)
(***************************************************************************)
EXTENDS Naturals, Sequences

\* What the back end can do with a request it is handed: answer it, refuse it
\* with one of the codes of error.proto or with a plain HTTP error, be down
\* when the proxy connects, die after the headers went out, never answer.
Upstream == {"ok", "domain", "http", "down", "cut", "silent"}

Silence == [status |-> 0, code |-> 0]

\* The service whose prefix the path carries; every call of the pages carries
\* the first one.
ServiceTypes == {"vgpu"}

Proxied(service) == service \in ServiceTypes

\* http-proxy-middleware's onError: an error becomes a body with code 599,
\* unless the headers are out, when the response is left unfinished.
OnError(headersSent) ==
    IF headersSent THEN Silence ELSE [status |-> 200, code |-> 599]

\* The response the browser gets.  The body of a success has no code.  A path
\* no service claims is answered with the page itself, which has none either.
Response(service, upstream) ==
    CASE ~ Proxied(service)    -> [status |-> 200, code |-> 0]
      [] upstream = "ok"       -> [status |-> 200, code |-> 0]
      [] upstream = "domain"   -> [status |-> 523, code |-> 523]
      [] upstream = "http"     -> [status |-> 500, code |-> 500]
      [] upstream = "down"     -> OnError(FALSE)
      [] upstream = "cut"      -> OnError(TRUE)
      [] upstream = "silent"   -> Silence

ValidateStatus(status) ==
    \/ status >= 200 /\ status < 300
    \/ status > 520

\* The response interceptor: a body that carries an error code is a failure,
\* whatever the HTTP status says.
CodeOK(code) == code = 0 \/ code = 200

\* Whether the promise of a call resolves.  It always settles: a response
\* that never comes is rejected by the request timeout.
Resolves(service, upstream) ==
    LET response == Response(service, upstream)
    IN  /\ ValidateStatus(response.status)
        /\ CodeOK(response.code)

\* What can become of a call of a page.
Outcomes == {Resolves("vgpu", upstream) : upstream \in Upstream}

-----------------------------------------------------------------------------
(* Calls in flight, in the order they were made.  Nothing cancels one: it   *)
(* ends when it is answered, whichever was made after it.                   *)

Last(flights) == flights[Len(flights)]

RemoveAt(flights, i) ==
    SubSeq(flights, 1, i - 1) \o SubSeq(flights, i + 1, Len(flights))
=============================================================================
