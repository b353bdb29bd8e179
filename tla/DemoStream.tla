----------------------------- MODULE DemoStream -----------------------------
(***************************************************************************)
(* The synthetic stream a page of apps/web shows on top of what it loaded:  *)
(* a budget made up for the company, and ticks that post to it, refund or   *)
(* commit, in the browser alone. What faker draws for a tick, its mode and  *)
(* its amount, is a free choice; feeds and labels are left out.             *)
(***************************************************************************)
EXTENDS Integers

CONSTANTS Cap, RecognizedShare, CommittedShare,     \* of one company, the shares in percent
          Drawn,                                    \* the amounts a tick may draw
          MaxTicks                                  \* a bound on the run

\* A hundredth of the cap at least covers what rounding adds to the shares, and the forecast
\* starts at 86 percent.
ASSUME StreamAssumption ==
    /\ Cap \in Nat /\ RecognizedShare \in 0..86 /\ CommittedShare \in Nat
    /\ Cap * (RecognizedShare + CommittedShare) + 100 <= Cap * 100
    /\ Drawn \subseteq Nat /\ MaxTicks \in Nat

VARIABLE stream

Least(a, b) == IF a <= b THEN a ELSE b
AtLeastZero(a) == IF a >= 0 THEN a ELSE 0
Share(amount, percent) == (2 * amount * percent + 100) \div 200        \* Math.round

(* The budget and the forecast that replace the loaded ones. *)
FinanceBaseline ==
    LET recognized == Share(Cap, RecognizedShare)
        committed == Share(Cap, CommittedShare)
    IN  [tick |-> 0, recognized |-> recognized, committed |-> committed,
         available |-> Cap - recognized - committed, forecast |-> Share(Cap, 86)]

(* A plausible slip: an amount is taken as it was drawn. *)
CappedNever(amount, available, percent) == amount

Capped(amount, available, percent) == Least(amount, Share(available, percent))

Moved(s, recognized, committed, forecast) ==
    [tick |-> s.tick + 1, recognized |-> recognized, committed |-> committed,
     available |-> AtLeastZero(Cap - recognized - committed), forecast |-> forecast]

(* Every fourth tick may post, one in nine of them a refund; every tenth    *)
(* may commit; the others are shown and change no amount.                   *)
AdvanceSyntheticStream(s, mode, amount) ==
    LET tick == s.tick + 1
        posted == Capped(amount, s.available, 8) * IF tick % 9 = 0 THEN -1 ELSE 1
        reserved == Capped(amount, s.available, 12)
    IN  CASE mode = "posting" /\ tick % 4 = 0 ->
               Moved(s, AtLeastZero(s.recognized + posted), s.committed, AtLeastZero(s.forecast + posted))
          [] mode = "request" /\ tick % 10 = 0 -> Moved(s, s.recognized, s.committed + reserved, s.forecast + reserved)
          [] OTHER -> Moved(s, s.recognized, s.committed, s.forecast)

StreamInit == stream = FinanceBaseline
Advance == /\ stream.tick < MaxTicks
           /\ \E mode \in {"posting", "request", "decision"}, amount \in Drawn :
                 stream' = AdvanceSyntheticStream(stream, mode, amount)
StreamSpec == StreamInit /\ [][Advance]_stream

-----------------------------------------------------------------------------
(* However long the stream runs, the page's budget adds up with nothing     *)
(* hidden by the floor of what is available: recognized, committed and      *)
(* available make the authorized amount. The floors of a refund larger than *)
(* what is recognized may lose some of the forecast, but the forecast is    *)
(* never less than what is recognized, and never gains on what is           *)
(* recognized and committed (demo-stream.ts:68-112).                        *)
StreamStaysInBudget ==
    /\ stream.recognized + stream.committed + stream.available = Cap
    /\ stream.recognized <= stream.forecast
    /\ stream.forecast - stream.recognized - stream.committed
         <= FinanceBaseline.forecast - FinanceBaseline.recognized - FinanceBaseline.committed
=============================================================================
