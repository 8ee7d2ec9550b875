---------------------------- MODULE PaperTrading ----------------------------
(***************************************************************************)
(* Paper trading of the swarm's predictions (factory/swarm/paper.py): one  *)
(* engine, one portfolio, and signals that are filled or refused.  Money   *)
(* is exact: an observed price counts SlipBase * FeeBase units of account, *)
(* so that slippage and fee are whole numbers; average prices and profits  *)
(* are fractions <<numerator, denominator>>.                               *)
(***************************************************************************)
EXTENDS Integers, Sequences, FiniteSets, Functions

CONSTANTS
    Subjects, Allowed,      \* all subjects, and the allowlist
    Signals,                \* artifact ids of predictions
    Prices, Slips, MaxSlip, \* observed prices, requested slippages and their limit
    SlipBase, FeeBase, Fee, \* slippage is slip/SlipBase, the fee Fee/FeeBase
    Scale,                  \* confidence scales are c/Scale
    PositionBase, LossBase, \* the position and loss limits are 1/PositionBase, 1/LossBase
    InitialCash

ASSUME PaperAssumption ==
    /\ IsFiniteSet(Subjects) /\ Allowed \subseteq Subjects /\ Prices \subseteq Nat \ {0} /\ Slips \subseteq Int
    /\ {SlipBase, FeeBase, Scale, PositionBase, LossBase, InitialCash} \subseteq Nat \ {0}
    /\ {MaxSlip, Fee} \subseteq Nat /\ MaxSlip < SlipBase
    /\ \A slip \in Slips : -SlipBase < slip  \* bound: nothing is bought for nothing

VARIABLES
    readiness,  \* the five conditions of the gate
    stop,       \* emergency_stop
    cash,
    position,   \* position[s]: a number of pieces, negative if short
    average,    \* average[s]: average_prices
    pnl,        \* daily_realized_pnl
    fills       \* the fills: artifact, pieces and price

paperVars == <<readiness, stop, cash, position, average, pnl, fills>>

Conditions == {"history", "baselines", "no leakage", "advantage", "calibration"}

PaperTypeOK ==
    /\ readiness \subseteq Conditions /\ stop \in BOOLEAN
    /\ cash \in Int
    /\ position \in [Subjects -> Int]
    /\ average \in [Subjects -> Int \X (Nat \ {0})]
    /\ pnl \in Int \X (Nat \ {0})
    /\ fills \in Seq([signal : Signals, subject : Allowed, pieces : Int, at : Nat, most : Nat])

PaperInit ==
    /\ readiness \in SUBSET Conditions /\ stop \in BOOLEAN
    /\ cash = InitialCash
    /\ position = [s \in Subjects |-> 0]
    /\ average = [s \in Subjects |-> <<0, 1>>]
    /\ pnl = <<0, 1>>
    /\ fills = <<>>
-----------------------------------------------------------------------------
(* Numbers.                                                                *)

Abs(n) == IF n < 0 THEN -n ELSE n
Plus(a, b) == IF a[2] = b[2] THEN <<a[1] + b[1], a[2]>>
              ELSE <<a[1] * b[2] + b[1] * a[2], a[2] * b[2]>>
Times(n, a) == <<n * a[1], a[2]>>
AtLeast(a, n) == a[1] >= n * a[2]
-----------------------------------------------------------------------------
(* PaperTradeEngine.                                                       *)

\* paper_trading_gate: no reason against it.
GateOpen == readiness = Conditions

LossLimit == InitialCash \div LossBase

\* _equity at the price of one subject; positions in others do not count.
Equity(s, price) == cash + position[s] * price * SlipBase * FeeBase

MaxNotional(s, price) == Equity(s, price) \div PositionBase

\* The position in s that is aimed at, long if up, at a price per piece; rounded to
\* whole pieces towards 0.
Target(up, notional, price) == LET n == notional \div price IN IF up THEN n ELSE -n

FillPrice(price, slip, buy) == price * (IF buy THEN SlipBase + slip ELSE SlipBase - slip) * FeeBase
FeeOf(pieces, at) == Abs(pieces) * (at \div FeeBase) * Fee

\* Mutant of Realized: a sale of a short position's opposite counts all of the order.
RealizedAll(s, pieces, at) ==
    IF position[s] * pieces >= 0 THEN <<0, 1>>
    ELSE Times((IF position[s] > 0 THEN 1 ELSE -1) * Abs(pieces),
               Plus(<<at, 1>>, Times(-1, average[s])))

\* _realized_before_fee: what is closed, at the difference to the average price.
Realized(s, pieces, at) ==
    IF position[s] * pieces >= 0 THEN <<0, 1>>
    ELSE LET closing == IF Abs(pieces) < Abs(position[s]) THEN Abs(pieces) ELSE Abs(position[s])
         IN  Times((IF position[s] > 0 THEN 1 ELSE -1) * closing,
                   Plus(<<at, 1>>, Times(-1, average[s])))

\* The average price after a fill: of both, when the position grows; that of the fill,
\* when it was opened or turned; the old one, when it shrank.
Averaged(s, pieces, at) ==
    LET old == position[s]
        new == old + pieces
    IN  CASE new = 0 -> <<0, 1>>
          [] new # 0 /\ (old = 0 \/ old * pieces > 0) ->
                LET both == Plus(Times(Abs(old), average[s]), <<Abs(pieces) * at, 1>>)
                IN  <<both[1], both[2] * Abs(new)>>
          [] old * new < 0 -> <<at, 1>>
          [] OTHER -> average[s]

\* _apply_position, and the fill is recorded.
Apply(s, signal, pieces, at, most) ==
    LET fee == FeeOf(pieces, at)
    IN  /\ cash' = cash - pieces * at - fee
        /\ position' = [position EXCEPT ![s] = @ + pieces]
        /\ average' = [average EXCEPT ![s] = Averaged(s, pieces, at)]
        /\ pnl' = Plus(pnl, Plus(Realized(s, pieces, at), <<-fee, 1>>))
        /\ fills' = Append(fills, [signal |-> signal, subject |-> s, pieces |-> pieces, at |-> at, most |-> most])

Traded == {fills[i].signal : i \in DOMAIN fills}

\* process: a signal that passes every check is filled; the side and with it the price
\* come from a first target at the observed price.
Process(signal, s, up, confidence, price, slip) ==
    LET most == MaxNotional(s, price)
        notional == (most * confidence) \div Scale
        first == Target(up, notional, price * SlipBase * FeeBase) - position[s]
        at == FillPrice(price, slip, first > 0)
        pieces == Target(up, notional, at) - position[s]
        after == Plus(pnl, Plus(Realized(s, pieces, at), <<-FeeOf(pieces, at), 1>>))
    IN  /\ GateOpen /\ ~stop
        /\ signal \notin Traded
        /\ s \in Allowed /\ slip <= MaxSlip
        /\ ~AtLeast(Times(-1, pnl), LossLimit)
        /\ notional > 0 /\ first # 0 /\ pieces # 0
        /\ AtLeast(after, -LossLimit)
        /\ cash - pieces * at - FeeOf(pieces, at) >= 0
        /\ Apply(s, signal, pieces, at, most)
        /\ UNCHANGED <<readiness, stop>>

PaperNext ==
    \E signal \in Signals, s \in Subjects, up \in BOOLEAN, c \in 1 .. Scale, p \in Prices, l \in Slips :
        Process(signal, s, up, c, p, l)

PaperSpec == PaperInit /\ [][PaperNext]_paperVars
-----------------------------------------------------------------------------
(* What is promised.                                                       *)

\* The books balance: cash and positions at their average prices are what there was at
\* the beginning and the realized profit, over every opening, adding, closing and
\* turning of long and short positions in any order.
BooksBalance ==
    LET held == FoldFunction(Plus, <<0, 1>>, [s \in Subjects |-> Times(position[s], average[s])])
        sum == Plus(held, Times(-1, pnl))
    IN  (cash - InitialCash) * sum[2] + sum[1] = 0

\* No loss beyond the daily limit, no debt, and every position within the limit that
\* its last fill was sized by.
RiskIsBounded ==
    /\ AtLeast(pnl, -LossLimit) /\ cash >= 0
    /\ \A i \in DOMAIN fills :
        (\A j \in i + 1 .. Len(fills) : fills[j].subject # fills[i].subject)
            => Abs(position[fills[i].subject]) * fills[i].at <= fills[i].most

PaperHolds == BooksBalance /\ RiskIsBounded
=============================================================================
