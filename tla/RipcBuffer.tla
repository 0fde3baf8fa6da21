------------------------------ MODULE RipcBuffer ------------------------------
(***************************************************************************)
(* The layout of a message in one page of shared memory: what the views of *)
(* libripc write into the page and what they find in it.                   *)
(*                                                                         *)
(*     header TAB header ... NL payload NUL                                *)
(*                                                                         *)
(* A view is a cursor with flags; an operation of a view takes the page    *)
(* and the view and gives its result with what they have become.  The page *)
(* is taken for mapped: without that every operation refuses.              *)
(***************************************************************************)
EXTENDS Integers, Sequences

CONSTANT PageSize          \* m_max_size

ASSUME PageSizeAssumption == PageSize \in Nat \ {0}

Cells == 0..PageSize-1

TAB == "TAB"    \* m_header_delimeter
NL  == "NL"     \* m_memory_delimeter
NUL == "NUL"    \* m_memory_finalizer

Marks == {TAB, NL, NUL}

-----------------------------------------------------------------------------
(* Memory.                                                                 *)

(* Memory::write: the bytes written, or -1 from an offset that is not in   *)
(* the page.  Mutant: nothing is cut off.                                  *)
WriteSizeWhole(at, data) == IF at >= PageSize THEN -1 ELSE Len(data)

WriteSize(at, data) ==
    IF at >= PageSize THEN -1
    ELSE IF Len(data) <= PageSize - at THEN Len(data) ELSE PageSize - at

Filled(page, at, data) ==
    [i \in Cells |-> IF i >= at /\ i < at + Len(data) THEN data[i - at + 1] ELSE page[i]]

(* Memory::find: the first of the given characters at or after the cursor, *)
(* or end(), for which the byte after the page was read.  It is not called *)
(* here from an offset at the end, for which it returns nullptr.           *)
Found(page, at, chars) ==
    IF \E i \in Cells : i >= at /\ page[i] \in chars
    THEN CHOOSE i \in Cells : /\ i >= at /\ page[i] \in chars
                              /\ \A j \in at..i-1 : page[j] \notin chars
    ELSE PageSize

-----------------------------------------------------------------------------
(* WriteBufferView.  A result has ok, the page and the view.               *)

NewWriter == [cur |-> 0, started |-> FALSE, headed |-> FALSE, ended |-> FALSE]

Done(page, w)    == [ok |-> TRUE, page |-> page, w |-> w]
Refused(page, w) == [ok |-> FALSE, page |-> page, w |-> w]

(* Mutant: no mark between two headers.                                    *)
addHeaderNoTab(page, w, data) ==
    LET size == WriteSize(w.cur, data)
    IN  IF w.ended \/ w.headed THEN Refused(page, w)
        ELSE [ok |-> size = Len(data), page |-> Filled(page, w.cur, data),
              w |-> [w EXCEPT !.cur = @ + size, !.started = TRUE]]

addHeader(page, w, data) ==
    LET at   == IF w.started THEN w.cur + 1 ELSE w.cur
        size == WriteSize(at, data)
        next == [w EXCEPT !.cur = at + size, !.started = TRUE]
        tab  == IF w.started THEN Filled(page, w.cur, <<TAB>>) ELSE page
    IN  IF w.ended \/ w.headed \/ (w.started /\ w.cur >= PageSize)
        THEN Refused(page, w)
        ELSE [ok |-> size = Len(data), page |-> Filled(tab, at, data), w |-> next]

finalizeHeader(page, w) ==
    IF w.headed THEN Done(page, w)
    ELSE IF w.ended \/ w.cur >= PageSize THEN Refused(page, w)
    ELSE Done(Filled(page, w.cur, <<NL>>), [w EXCEPT !.cur = @ + 1, !.headed = TRUE])

(* Mutant: the end of the message is not marked.                           *)
finalizePayloadOpen(page, w) ==
    LET h == finalizeHeader(page, w)
    IN  IF w.ended THEN Done(page, w)
        ELSE IF ~h.ok THEN Refused(h.page, h.w)
        ELSE Done(h.page, [h.w EXCEPT !.ended = TRUE])

finalizePayload(page, w) ==
    LET h == finalizeHeader(page, w)
    IN  IF w.ended THEN Done(page, w)
        ELSE IF ~h.ok \/ h.w.cur >= PageSize THEN Refused(h.page, h.w)
        ELSE Done(Filled(h.page, h.w.cur, <<NUL>>),
                  [h.w EXCEPT !.cur = @ + 1, !.ended = TRUE])

(* write returns its -1 as a size_t, which is not <= 0: the cursor then    *)
(* goes back by one.                                                       *)
setPayload(page, w, data) ==
    LET h    == finalizeHeader(page, w)
        size == WriteSize(h.w.cur, data)
    IN  IF w.ended THEN Refused(page, w)
        ELSE IF ~h.ok \/ size = 0 THEN Refused(h.page, h.w)
        ELSE finalizePayload(Filled(h.page, h.w.cur, data), [h.w EXCEPT !.cur = @ + size])

(* BufferView::reset does not know of m_headers_initialized.               *)
reset(w) == [w EXCEPT !.cur = 0, !.headed = FALSE, !.ended = FALSE]

-----------------------------------------------------------------------------
(* ReadBufferView.  A result has what was got, the view, and what the      *)
(* operation touched: the page, the byte past it, or address 0.  What was  *)
(* got is a string_view: the first cell and the one after the last.        *)

NewReader == [cur |-> 0, headed |-> FALSE, ended |-> FALSE]

None       == [from |-> 0, to |-> -1]
View(i, j) == [from |-> i, to |-> j]

Got(v, r, touched) == [got |-> v, r |-> r, touched |-> touched]

getHeader(page, r) ==
    LET e == Found(page, r.cur, Marks) IN
        IF r.ended \/ r.headed THEN Got(None, r, "page")
        ELSE IF r.cur >= PageSize THEN Got(None, r, "null")
        ELSE IF e = PageSize THEN Got(None, r, "past")
        ELSE IF page[e] = NUL THEN
             Got(None, [cur |-> e + 1, headed |-> TRUE, ended |-> TRUE], "page")
        ELSE Got(View(r.cur, e),
                 [cur |-> e + 1, headed |-> page[e] = NL, ended |-> FALSE], "page")

(* ReadBufferView::finalizeHeader; got stays None.                         *)
SkipHeaders(page, r) ==
    LET e == Found(page, r.cur, {NL})
    IN  IF r.ended \/ r.headed \/ r.cur >= PageSize THEN Got(None, r, "page")
        ELSE IF e = PageSize THEN Got(None, r, "past")
        ELSE Got(None, [cur |-> e + 1, headed |-> TRUE, ended |-> FALSE], "page")

(* The search for the end of the payload compares the byte past the page   *)
(* too; it may be a NUL.                                                   *)
getPayload(page, r) ==
    LET h == SkipHeaders(page, r)
        e == Found(page, h.r.cur, {NUL})
        payload == Got(View(h.r.cur, e), [cur |-> e, headed |-> TRUE, ended |-> TRUE],
                       IF e = PageSize THEN "past" ELSE h.touched)
    IN  IF r.ended \/ ~h.r.headed THEN {Got(None, h.r, h.touched)}
        ELSE IF h.r.cur >= PageSize THEN {Got(None, h.r, "null")}
        ELSE IF e = PageSize THEN {Got(None, h.r, "past"), payload}
        ELSE {payload}

(* ReadBufferView::finalizePayload.                                        *)
SkipPayload(page, r) ==
    LET past == IF r.cur < PageSize /\ Found(page, r.cur, {NUL}) = PageSize
                THEN "past" ELSE "page"
    IN  IF r.ended THEN Got(None, r, "page")
        ELSE IF r.cur >= PageSize THEN Got(None, [r EXCEPT !.headed = TRUE], "page")
        ELSE Got(None, [cur |-> PageSize, headed |-> TRUE, ended |-> TRUE], past)

=============================================================================
