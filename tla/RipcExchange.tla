----------------------------- MODULE RipcExchange -----------------------------
(***************************************************************************)
(* What one client and one server say to each other over their page: the   *)
(* request that Client::call and its callback write, the search for the    *)
(* server's callback, the answer, and what each side's callback reads.     *)
(*                                                                         *)
(* A callback of the application is any sequence of operations of its      *)
(* view.  The two sides take turns, which RipcCall shows; here they stay   *)
(* connected, and every notification arrives.                              *)
(***************************************************************************)
EXTENDS RipcBuffer, RipcUrl

CONSTANTS
    Char,           \* what urls and headers are written with
    Urls,           \* what clients call
    Headers,        \* headers and payloads that callbacks write
    Payloads,
    Tables,         \* the sets of patterns a server may have registered
    MaxHeaders      \* bound: headers of one message

(* The library looks for the marks in what it is given no more than this   *)
(* module does: a url or a header is one as long as it holds none, and a   *)
(* payload as long as no NUL ends it early, which a C string's would.      *)
(* m_urls is a std::map, which is finite.                                  *)
ASSUME ExchangeAssumption ==
    /\ Char \cap Marks = {}
    /\ Urls \cup Headers \subseteq Seq(Char)
    /\ Payloads \subseteq Seq(Char \cup {TAB, NL})
    /\ \A t \in Tables :
         IsFiniteSet(t) /\ t \subseteq Seq(Char \cup {"<int>", "<string>"})

VARIABLES
    patterns,   \* keys of m_urls
    stage,      \* whose turn it is
    page,       \* the shared page
    w,          \* the WriteBufferView of the message
    r,          \* the ReadBufferView of the message
    chosen,     \* the pattern whose callback runs
    msg,        \* history: what the writer asked to be written
    got         \* history: what the reader was given

vars == <<patterns, stage, page, w, r, chosen, msg, got>>

Stages == {"idle", "request", "sent", "serving", "answer", "answered", "reading",
           "lost", "crashed"}

NoMessage == [headers |-> <<>>, payload |-> <<>>, size |-> 0, told |-> FALSE,
              reset |-> FALSE]
Nothing   == [headers |-> <<>>, payload |-> None, skipped |-> FALSE,
              refused |-> FALSE, touched |-> "page"]

Init ==
    /\ patterns \in Tables
    /\ stage = "idle"
    /\ page = [i \in Cells |-> NUL]     \* shm_create: __GFP_ZERO
    /\ w = NewWriter /\ r = NewReader
    /\ chosen = <<>>
    /\ msg = NoMessage /\ got = Nothing

Text(v) == SubSeq([n \in 1..PageSize |-> page[n - 1]], v.from + 1, v.to)

-----------------------------------------------------------------------------
(* Writing.                                                                *)

AddHeader(m, data) ==
    [m EXCEPT !.headers = Append(@, data),
              !.size = @ + Len(data) + (IF m.headers = <<>> THEN 0 ELSE 1)]

(* call(): the url is the first header.                                    *)
Call(url) ==
    /\ stage = "idle"
    /\ LET a == addHeader(page, NewWriter, url)
       IN  page' = a.page /\ w' = a.w
    /\ msg' = AddHeader(NoMessage, url)
    /\ stage' = "request"
    /\ UNCHANGED <<patterns, r, chosen, got>>

Writing == stage \in {"request", "answer"}

WriteHeader(data) ==
    /\ Writing /\ ~w.headed /\ ~w.ended
    /\ Len(msg.headers) < MaxHeaders
    /\ LET a == addHeader(page, w, data)
       IN  page' = a.page /\ w' = a.w
    /\ msg' = AddHeader(msg, data)
    /\ UNCHANGED <<patterns, stage, r, chosen, got>>

WritePayload(data) ==
    /\ Writing /\ ~w.ended
    /\ msg.payload = <<>>
    /\ LET a == setPayload(page, w, data)
       IN  /\ page' = a.page /\ w' = a.w
           /\ msg' = [msg EXCEPT !.payload = data, !.size = @ + Len(data), !.told = a.ok]
    /\ UNCHANGED <<patterns, stage, r, chosen, got>>

EndHeaders ==
    /\ Writing
    /\ LET a == finalizeHeader(page, w)
       IN  page' = a.page /\ w' = a.w
    /\ UNCHANGED <<patterns, stage, r, chosen, msg, got>>

ResetWriter ==
    /\ Writing
    /\ w' = reset(w)
    /\ msg' = [NoMessage EXCEPT !.reset = TRUE]
    /\ UNCHANGED <<patterns, stage, page, r, chosen, got>>

(* The library ends the message whatever the callback did, and announces   *)
(* it without a look at the result.                                        *)
EndMessage ==
    /\ Writing
    /\ LET a == finalizePayload(page, w)
       IN  page' = a.page /\ w' = a.w
    /\ stage' = IF stage = "request" THEN "sent" ELSE "answered"
    /\ UNCHANGED <<patterns, r, chosen, msg, got>>

-----------------------------------------------------------------------------
(* Reading.                                                                *)

Worse(touched) == IF got.touched = "page" THEN touched ELSE got.touched

(* dispatchNewMessage of the server: the url, and the callback for it.     *)
TakeRequest ==
    LET h == getHeader(page, NewReader) IN
    /\ stage = "sent"
    /\ h.got # None
    /\ chosen' \in FirstMatches(patterns, Text(h.got))
    /\ r' = h.r
    /\ got' = [Nothing EXCEPT !.headers = <<h.got>>]
    /\ stage' = "serving"
    /\ UNCHANGED <<patterns, page, w, msg>>

(* No url, or no callback for it: nobody answers.                          *)
LoseRequest ==
    LET h == getHeader(page, NewReader) IN
    /\ stage = "sent"
    /\ h.got # None => FirstMatches(patterns, Text(h.got)) = {}
    /\ got' = [Nothing EXCEPT !.touched = h.touched]
    /\ stage' = "lost"
    /\ UNCHANGED <<patterns, page, w, r, chosen, msg>>

Reading == stage \in {"serving", "reading"}

(* A use of address 0 ends the process.                                    *)
After(touched) == IF touched = "null" THEN "crashed" ELSE stage

ReadHeader ==
    /\ Reading
    /\ LET h == getHeader(page, r)
       IN  /\ r' = h.r
           /\ got' = [got EXCEPT
                        !.headers = IF h.got = None THEN @ ELSE Append(@, h.got),
                        !.touched = Worse(h.touched)]
           /\ stage' = After(h.touched)
    /\ UNCHANGED <<patterns, page, w, chosen, msg>>

ReadPayload ==
    /\ Reading
    /\ \E p \in getPayload(page, r) :
         /\ r' = p.r
         /\ got' = [got EXCEPT
                      !.payload = IF p.got = None THEN @ ELSE p.got,
                      !.refused = @ \/ (p.got = None /\ ~r.ended),
                      !.skipped = @ \/ ~r.headed,
                      !.touched = Worse(p.touched)]
         /\ stage' = After(p.touched)
    /\ UNCHANGED <<patterns, page, w, chosen, msg>>

SkipToPayload ==
    /\ Reading
    /\ LET h == SkipHeaders(page, r)
       IN  /\ r' = h.r
           /\ got' = [got EXCEPT !.skipped = @ \/ ~r.headed,
                                 !.touched = Worse(h.touched)]
    /\ UNCHANGED <<patterns, stage, page, w, chosen, msg>>

SkipToEnd ==
    /\ Reading
    /\ LET h == SkipPayload(page, r)
       IN  /\ r' = h.r
           /\ got' = [got EXCEPT !.skipped = @ \/ ~r.headed,
                                 !.touched = Worse(h.touched)]
    /\ UNCHANGED <<patterns, stage, page, w, chosen, msg>>

ResetReader ==
    /\ Reading
    /\ r' = NewReader
    /\ got' = [Nothing EXCEPT !.touched = got.touched]
    /\ UNCHANGED <<patterns, stage, page, w, chosen, msg>>

(* The server's second callback gets a view of the same page.              *)
BeginAnswer ==
    /\ stage = "serving"
    /\ w' = NewWriter /\ r' = NewReader
    /\ chosen' = <<>>
    /\ msg' = NoMessage /\ got' = Nothing
    /\ stage' = "answer"
    /\ UNCHANGED <<patterns, page>>

(* dispatchNewMessage of the client, and the end of its callback.          *)
TakeAnswer ==
    /\ stage = "answered"
    /\ stage' = "reading"
    /\ UNCHANGED <<patterns, page, w, r, chosen, msg, got>>

(* The views and what is known of the message are gone with the callbacks. *)
Idle ==
    /\ stage' = "idle"
    /\ w' = NewWriter /\ r' = NewReader /\ chosen' = <<>>
    /\ msg' = NoMessage /\ got' = Nothing
    /\ UNCHANGED <<patterns, page>>

EndReading == stage = "reading" /\ Idle

(* The connection ends and another one gets the sub-area as it is.         *)
Reuse == stage \in {"lost", "crashed"} /\ Idle

Next ==
    \/ \E u \in Urls : Call(u)
    \/ \E h \in Headers : WriteHeader(h)
    \/ \E d \in Payloads : WritePayload(d)
    \/ EndHeaders \/ ResetWriter \/ EndMessage
    \/ TakeRequest \/ LoseRequest
    \/ ReadHeader \/ ReadPayload \/ SkipToPayload \/ SkipToEnd \/ ResetReader
    \/ BeginAnswer \/ TakeAnswer \/ EndReading \/ Reuse

Spec == Init /\ [][Next]_vars

-----------------------------------------------------------------------------
ViewType == [from : 0..PageSize, to : -1..PageSize]

TypeOK ==
    /\ patterns \in Tables
    /\ stage \in Stages
    /\ w \in [cur : 0..PageSize, started : BOOLEAN, headed : BOOLEAN, ended : BOOLEAN]
    /\ r \in [cur : 0..PageSize, headed : BOOLEAN, ended : BOOLEAN]
    /\ got.payload \in ViewType
    /\ \A n \in 1..Len(got.headers) : got.headers[n] \in ViewType

(* What was asked to be written leaves room for the two marks.             *)
Fits == msg.size + 2 <= PageSize

(* The headers as a reader finds them: a message without any has one that  *)
(* is empty.                                                               *)
AsRead == IF msg.headers = <<>> THEN << <<>> >> ELSE msg.headers

(* A message that fits is what its reader gets, in whatever order the two  *)
(* callbacks use their views and whatever lay in the page before: the      *)
(* headers in order and all of them, the payload unless it was skipped,    *)
(* without a look outside the page.  (After reset() this does not hold.)   *)
WrittenIsRead ==
    (Reading \/ stage = "crashed") /\ Fits /\ ~msg.reset =>
        /\ got.touched = "page"
        /\ Len(got.headers) <= Len(AsRead)
        /\ \A n \in 1..Len(got.headers) : Text(got.headers[n]) = AsRead[n]
        /\ r.headed /\ ~got.skipped => Len(got.headers) = Len(AsRead)
        /\ got.payload # None => Text(got.payload) = msg.payload
        /\ ~got.refused

(* Nobody is given a byte of an earlier message, even when the message     *)
(* does not fit: what is read lies below the writer's cursor.              *)
NothingStale ==
    Reading =>
        /\ \A n \in 1..Len(got.headers) : got.headers[n].to <= w.cur
        /\ got.payload.to <= w.cur

(* A request is lost only if it does not fit or nobody asked for it.       *)
NoRequestLost ==
    stage = "lost" /\ ~msg.reset =>
        ~Fits \/ \A p \in patterns : ~Matches(p, msg.headers[1])

(* The url of the request: what call() was given or, after reset(), what   *)
(* lies in its place.                                                      *)
Asked == IF msg.reset THEN Text(getHeader(page, NewReader).got) ELSE msg.headers[1]

(* The callback that runs is one for the url, and of several the one whose *)
(* pattern is more special: where it first differs from another that       *)
(* matches as well, it has the token itself and the other a mark.  The     *)
(* order in which they were registered does not matter.                    *)
MostSpecial ==
    stage = "serving" =>
        /\ Matches(chosen, Asked)
        /\ \A p \in patterns :
            Matches(p, Asked) /\ PatternTokens(p) # PatternTokens(chosen) =>
                LET a == PatternTokens(chosen)
                    b == PatternTokens(p)
                    i == CHOOSE k \in 1..Len(a) :
                           a[k] # b[k] /\ \A j \in 1..k-1 : a[j] = b[j]
                IN  a[i] = Tokens(Asked)[i] /\ b[i].kind \in {"any int", "any string"}

(* submem.hpp on setPayload: "@return 1 - the data is written, 0 - it is   *)
(* not": a payload of which the writer was told so lies before the NUL.    *)
ToldIsWritten ==
    Writing /\ msg.told =>
        /\ w.cur > Len(msg.payload)
        /\ Text(View(w.cur - 1 - Len(msg.payload), w.cur - 1)) = msg.payload

=============================================================================
