----------------------------- MODULE MCProcessor -----------------------------
(***************************************************************************)
(* Instances of SddsToBulkIOProcessor for TLC: sequence numbers of 3 bits  *)
(* with a checksum number every 4, packets of 8 bytes of samples; and the  *)
(* environments, each with what it needs to reach the cases it is about.   *)
(***************************************************************************)
EXTENDS SddsToBulkIOProcessor

Short(xdelta)   == [bps |-> 16, cx |-> FALSE, xdelta |-> xdelta]
Complex(xdelta) == [bps |-> 8, cx |-> TRUE, xdelta |-> xdelta]
Bare(bps)       == [bps |-> bps, cx |-> FALSE, xdelta |-> 10]

SriNames == {DefaultSri.streamID, "A", "B", "none"}

Sri(id, xdelta, mode, keywords) ==
    [streamID |-> id, xdelta |-> xdelta, mode |-> mode, xunits |-> "none",
     yunits |-> "none", keywords |-> keywords]

Priority     == [id |-> "BULKIO_SRI_PRIORITY", value |-> "other"]
DataRef(val) == [id |-> "dataRef", value |-> val]

AllOptions == [wait_on_ttv : BOOLEAN, push_on_ttv : BOOLEAN]
Plain      == [wait_on_ttv |-> FALSE, push_on_ttv |-> FALSE]
Waiting    == [wait_on_ttv |-> TRUE, push_on_ttv |-> FALSE]

\* A conforming source that loses nothing, without SRI.
Quiet == [headers |-> {Short(10)}, ttv |-> {TRUE}, errors |-> {0},
          kinds |-> {"conforming"}, gaps |-> {0}, sris |-> {}, options |-> {Plain},
          detach |-> FALSE, years |-> 0, hostFirst |-> FALSE, maxDropped |-> 0,
          maxElapsed |-> 100]

Losses  == [Quiet EXCEPT !.ttv = BOOLEAN, !.gaps = {0, 1, 2}, !.options = AllOptions,
                         !.sris = {Sri("A", 30, 0, <<>>)}, !.maxDropped = 2]
Rates   == [Quiet EXCEPT !.headers = {Short(10), Short(20)}, !.gaps = {0, 1},
                         !.sris = {Sri("A", 30, 1, <<>>),
                                   Sri("B", 30, 0, <<DataRef("4321"), DataRef("1234")>>)},
                         !.maxDropped = 1, !.maxElapsed = 250]
Repeats == [Quiet EXCEPT !.gaps = {-1, 0, 3, SentPerCycle}, !.maxDropped = 4]
Overrides == [Quiet EXCEPT !.headers = {Short(10), Short(20)}, !.detach = TRUE,
                           !.sris = {Sri("A", 30, 0, <<Priority>>),
                                     Sri("B", 40, 1, <<DataRef("43981")>>)},
                           !.maxElapsed = 250]
\* SRI that compareSRI takes for the same, under a source that changes its mode.
Ignored == [Quiet EXCEPT !.headers = {Short(10), [Short(20) EXCEPT !.cx = TRUE]},
                         !.detach = TRUE, !.maxElapsed = 250,
                         !.sris = {Sri("A", 30, 1, <<DataRef("1234")>>),
                                   [Sri("A", 30, 0, <<[id |-> "other", value |-> "1234"]>>)
                                      EXCEPT !.yunits = "B"]}]
Jitter  == [Quiet EXCEPT !.errors = {-50, -3, 0, 30}]
Halves  == [Quiet EXCEPT !.headers = {Complex(20), Complex(60)},
                         !.kinds = {"conforming", "half"}, !.gaps = {0, 1},
                         !.maxDropped = 1, !.maxElapsed = 300]
Bitwise == [Quiet EXCEPT !.headers = {Bare(0), Bare(8), Bare(10), Bare(31)},
                         !.gaps = {0, 1}, !.maxDropped = 2]
Nibbles == [Quiet EXCEPT !.headers = {Bare(4), Bare(8)}]
Years   == [Quiet EXCEPT !.ttv = BOOLEAN, !.gaps = {0, 1}, !.years = 1,
                         !.options = {Plain, Waiting}, !.maxDropped = 1]

AllOffers == {Losses, Rates, Repeats, Overrides, Ignored, Jitter, Halves, Bitwise, Nibbles, Years}

\* A host that keeps time, and a restart or a loss.
NewYearOffers == {[Quiet EXCEPT !.years = 1, !.hostFirst = TRUE]}
\* A source one of whose headers has no frequency.
RatelessOffers == {[Quiet EXCEPT !.headers = {Short(10), Short(Infinite)}]}
\* A source that halves its rate and later changes its format.
MixedOffers == {[Quiet EXCEPT !.headers = {Short(10), Short(20), Bare(8)}, !.gaps = {0, 1},
                              !.maxDropped = 1]}
=============================================================================
