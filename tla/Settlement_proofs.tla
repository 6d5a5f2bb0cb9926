------------------------- MODULE Settlement_proofs -------------------------
(***************************************************************************)
(* Theorems about Settlement, for every set of coins, every set of         *)
(* sub-actions the planner may add, and plans of any length.               *)
(***************************************************************************)
EXTENDS Settlement, TLAPS

-----------------------------------------------------------------------------
\* Sub-actions and the minimums in their messages

LEMMA EstimateType ==
  ASSUME NEW e \in Estimates
  PROVE  /\ DOMAIN e \subseteq Coins
         /\ e \in [DOMAIN e -> 0..MaxOut]
         /\ \A c \in DOMAIN e : e[c] \in Nat
<1>1. PICK S \in SUBSET Coins : e \in [S -> 0..MaxOut]
  BY DEF Estimates
<1>2. DOMAIN e = S
  BY <1>1
<1>3. \A c \in S : e[c] \in 0..MaxOut
  BY <1>1
<1> QED
  BY <1>1, <1>2, <1>3, OffersAssumption

LEMMA OfferType ==
  ASSUME NEW a \in Offers
  PROVE  /\ a.coin \in Coins /\ a.amount \in Nat /\ a.tolerance \in Percent
         /\ a.expects \in Estimates
         /\ DOMAIN a.expects # {}
<1>1. a \in SubAction
  BY OffersAssumption
<1>2. a.type \in {"withdraw", "swap", "deposit"}
  BY <1>1 DEF SubAction
<1>3. DOMAIN a.expects # {}
  BY <1>2, OffersAssumption
<1> QED
  BY <1>1, <1>3 DEF SubAction

LEMMA Quotient ==
  ASSUME NEW a \in Nat, NEW b \in Nat \ {0}
  PROVE  /\ a \div b \in Nat
         /\ (a \div b) * b <= a
         /\ a < (a \div b + 1) * b
OBVIOUS

\* Multiplying by an amount keeps the order.
LEMMA TimesAmount ==
  ASSUME NEW n \in Nat, NEW x \in Int, NEW y \in Int, x <= y
  PROVE  n * x \in Int /\ n * y \in Int /\ n * x <= n * y
OBVIOUS

LEMMA DividedAtMost ==
  ASSUME NEW q \in Nat, NEW n \in Nat, NEW b \in Nat \ {0}, q * b <= n * b
  PROVE  q <= n
OBVIOUS

\* Who gets more covers as much.
LEMMA CoversMore ==
  ASSUME NEW n \in Nat, NEW t \in Percent, NEW least \in Nat, NEW got \in Nat,
         got >= least, Covers(least, n, t)
  PROVE  Covers(got, n, t)
<1>1. One \in Nat \ {0} /\ Deviation \in Nat /\ t \in Int
  BY OffersAssumption DEF Percent
<1>2. One * (least + 1) <= One * (got + 1)
  BY <1>1, TimesAmount
<1> DEFINE x == n * ((100 - t) * One - 100 * Deviation)
           y == One * (least + 1)
           z == One * (got + 1)
<1>3. x \in Int /\ y \in Int /\ z \in Int /\ x < 100 * y /\ y <= z
  BY <1>1, <1>2 DEF Covers
<1> HIDE DEF x, y, z
<1>4. x < 100 * z
  BY <1>3
<1> QED
  BY <1>4 DEF Covers, x, z

\* The part of a positive amount that must be brought: no more than all of it,
\* and short of the exact part by what the factor is off and less than one.
LEMMA ToleratedBounds ==
  ASSUME NEW n \in Nat \ {0}, NEW t \in Percent, NEW f \in Factors(t)
  PROVE  /\ Tolerated(n, f) \in 0..n
         /\ Covers(Tolerated(n, f), n, t)
<1> DEFINE q == (n * f) \div One
           x == (100 - t) * One - 100 * Deviation
<1>1. One \in Nat \ {0} /\ Deviation \in Nat /\ t \in Int
  BY OffersAssumption DEF Percent
<1>2. f \in Nat /\ f <= One /\ x \in Int /\ x <= 100 * f
  <2>1. /\ f \in 0..One /\ -(100 * f - (100 - t) * One) <= 100 * Deviation
    BY DEF Factors
  <2>2. (100 - t) * One \in Int
    BY <1>1
  <2> QED
    BY <1>1, <2>1, <2>2
<1>3. n * f \in Nat /\ n * f <= n * One
  BY <1>1, <1>2, TimesAmount
<1>4. q \in Nat /\ q * One <= n * f /\ n * f < (q + 1) * One
  BY <1>1, <1>3, Quotient
<1> HIDE DEF q, x
<1>5. q <= n
  <2>1. q * One \in Int /\ n * One \in Int /\ q * One <= n * One
    BY <1>1, <1>3, <1>4
  <2> QED
    BY <1>1, <1>4, <2>1, DividedAtMost
<1>6. n * x < 100 * (One * (q + 1))
  <2>1. n * x \in Int /\ n * (100 * f) \in Int /\ n * x <= n * (100 * f)
    BY <1>2, TimesAmount
  <2>2. n * (100 * f) = 100 * (n * f)
    BY <1>2
  <2>3. One * (q + 1) \in Int /\ One * (q + 1) = (q + 1) * One
    BY <1>1, <1>4
  <2>4. 100 * (n * f) < 100 * (One * (q + 1))
    BY <1>3, <1>4, <2>3
  <2> QED
    BY <2>1, <2>2, <2>3, <2>4
<1> QED
  BY <1>4, <1>5, <1>6 DEF Tolerated, Covers, q, x

LEMMA MinimumBounds ==
  ASSUME NEW n \in Nat \ {0}, NEW t \in Percent, NEW f \in Factors(t)
  PROVE  /\ AtLeastOne(Tolerated(n, f)) \in 1..n
         /\ Covers(AtLeastOne(Tolerated(n, f)), n, t)
<1>1. Tolerated(n, f) \in 0..n /\ Covers(Tolerated(n, f), n, t)
  BY ToleratedBounds
<1>2. AtLeastOne(Tolerated(n, f)) \in 1..n /\ AtLeastOne(Tolerated(n, f)) >= Tolerated(n, f)
  BY <1>1 DEF AtLeastOne
<1> HIDE DEF AtLeastOne, Tolerated
<1> QED
  BY <1>1, <1>2, CoversMore

\* Of an estimate of nothing anything covers it.
LEMMA NothingCovered ==
  ASSUME NEW t \in Percent, NEW got \in Nat
  PROVE  Covers(got, 0, t)
<1>1. One \in Nat \ {0} /\ Deviation \in Nat /\ t \in Int
  BY OffersAssumption DEF Percent
<1>2. (100 - t) * One - 100 * Deviation \in Int
  BY <1>1
<1>3. 0 < One * (got + 1) /\ One * (got + 1) \in Int
  BY <1>1
<1> QED
  BY <1>2, <1>3 DEF Covers

\* What a message asks for: never more than was estimated, unless that is
\* nothing; and never less than the tolerance allows, unless a trade has none.
LEMMA MessageFacts ==
  ASSUME NEW a \in Offers, NEW f \in Factors(a.tolerance), Accepted(a),
         NEW m, m = MessageOf(a, f)
  PROVE  /\ m.coin = a.coin /\ m.amount = a.amount
         /\ DOMAIN m.least = DOMAIN a.expects
         /\ \A c \in DOMAIN a.expects :
              /\ m.least[c] \in Nat
              /\ a.expects[c] > 0 => m.least[c] <= a.expects[c]
              /\ a.type = "withdraw" \/ a.tolerance > 0 =>
                   Covers(m.least[c], a.expects[c], a.tolerance)
<1>1. /\ a.tolerance \in Percent /\ a.tolerance \in Nat /\ DOMAIN a.expects # {}
      /\ \A c \in DOMAIN a.expects : a.expects[c] \in Nat
  BY OfferType, EstimateType DEF Percent
<1>2. m.coin = a.coin /\ m.amount = a.amount
  BY DEF MessageOf, TradeMessage, ExitMessage
<1>3. CASE a.type = "withdraw"
  <2>1. \A c \in DOMAIN a.expects : a.expects[c] \in Nat \ {0}
    BY <1>1, <1>3 DEF Accepted, Valid, ValidWithdraw
  <2>2. m.least = [c \in DOMAIN a.expects |->
                     AtLeastOne(Tolerated(a.expects[c], f))]
    BY <1>1, <1>3 DEF MessageOf, ExitMessage, ExitLeast
  <2> HIDE DEF AtLeastOne, Tolerated
  <2>3. \A c \in DOMAIN a.expects :
          /\ m.least[c] \in 1..a.expects[c]
          /\ Covers(m.least[c], a.expects[c], a.tolerance)
    BY <1>1, <2>1, <2>2, MinimumBounds
  <2> QED
    BY <1>2, <2>1, <2>2, <2>3
<1>4. CASE a.type # "withdraw"
  <2>1. m.least = TradeLeast(a, f)
    BY <1>4 DEF MessageOf, TradeMessage
  <2>2. SUFFICES ASSUME NEW c \in DOMAIN a.expects
                 PROVE  /\ m.least[c] \in Nat
                        /\ a.expects[c] > 0 => m.least[c] <= a.expects[c]
                        /\ a.tolerance > 0 =>
                             Covers(m.least[c], a.expects[c], a.tolerance)
    BY <1>2, <1>4, <2>1 DEF TradeLeast
  <2>3. CASE a.expects[c] = 0
    <3>1. m.least[c] = 1
      BY <2>1, <2>3 DEF TradeLeast
    <3> QED
      BY <1>1, <2>3, <3>1, NothingCovered
  <2>4. CASE a.expects[c] # 0 /\ a.tolerance = 0
    BY <1>1, <2>1, <2>4 DEF TradeLeast
  <2>5. CASE a.expects[c] # 0 /\ a.tolerance # 0
    <3>1. m.least[c] = AtLeastOne(Tolerated(a.expects[c], f))
      BY <2>1, <2>5 DEF TradeLeast
    <3>2. a.expects[c] \in Nat \ {0}
      BY <1>1, <2>5
    <3> HIDE DEF AtLeastOne, Tolerated
    <3>3. /\ m.least[c] \in 1..a.expects[c]
          /\ Covers(m.least[c], a.expects[c], a.tolerance)
      BY <1>1, <3>1, <3>2, MinimumBounds
    <3> QED
      BY <3>2, <3>3
  <2> QED
    BY <2>3, <2>4, <2>5
<1> QED
  BY <1>3, <1>4

\* What is given is held: the holdings stay amounts.
LEMMA ExchangedType ==
  ASSUME NEW h \in [Coins -> Nat], NEW coin \in Coins, NEW amount \in Nat,
         amount <= h[coin], NEW gets \in Estimates
  PROVE  Exchanged(h, coin, amount, gets) \in [Coins -> Nat]
<1>1. \A c \in DOMAIN gets : gets[c] \in Nat
  BY EstimateType
<1> QED
  BY <1>1 DEF Exchanged

\* Who has more and gets more has more.
LEMMA ExchangedMonotone ==
  ASSUME NEW h \in [Coins -> Nat], NEW g \in [Coins -> Nat],
         \A c \in Coins : h[c] >= g[c],
         NEW coin \in Coins, NEW amount \in Nat,
         NEW more \in Estimates, NEW less \in Estimates, DOMAIN more = DOMAIN less,
         \A c \in DOMAIN less : more[c] >= less[c]
  PROVE  \A c \in Coins : Exchanged(h, coin, amount, more)[c]
                            >= Exchanged(g, coin, amount, less)[c]
<1>1. \A c \in DOMAIN more : more[c] \in Nat /\ less[c] \in Nat
  BY EstimateType
<1> QED
  BY <1>1 DEF Exchanged

-----------------------------------------------------------------------------
\* The inductive invariant

\* Every sub-action is covered by what the planner reckons is there.
PlannedInv ==
  \A k \in DOMAIN actions :
    /\ actions[k].amount <= budget[k][actions[k].coin]
    /\ budget[k + 1] =
         Exchanged(budget[k], actions[k].coin, actions[k].amount, actions[k].expects)

\* The messages are those of the first sub-actions, in their order.
BuiltInv ==
  \A k \in DOMAIN messages :
    /\ Accepted(actions[k])
    /\ \E f \in Factors(actions[k].tolerance) : messages[k] = MessageOf(actions[k], f)

StageInv ==
  /\ pc = "planning" => messages = <<>>
  /\ pc = "building" => actions # <<>>
  /\ pc \in {"planning", "building", "refused"} => received = <<>>
  /\ pc \in {"executing", "executed", "reverted"} => Len(messages) = Len(actions)
  /\ pc = "executing" => Len(received) < Len(messages)
  /\ pc = "executed" => Len(received) = Len(messages)

\* What the messages executed have brought is what they ask for, or more.
BroughtInv ==
  pc \in {"executing", "executed"} =>
    \A k \in DOMAIN received :
      /\ DOMAIN received[k] = DOMAIN messages[k].least
      /\ \A c \in DOMAIN received[k] : received[k][c] >= messages[k].least[c]

AsReckoned == \A c \in Coins : start[c] >= budget[1][c]

AsEstimated ==
  \A k \in DOMAIN received : \A c \in DOMAIN actions[k].expects :
    received[k][c] >= actions[k].expects[c]

\* While reckoning and estimates hold the vault has what the planner reckons, or more.
SurplusInv ==
  /\ pc \in {"planning", "building"} => holdings = start
  /\ pc = "executing" /\ AsReckoned /\ AsEstimated =>
       \A c \in Coins : holdings[c] >= budget[Len(received) + 1][c]

SettleInv ==
  /\ TypeOK /\ PlannedInv /\ BuiltInv /\ StageInv /\ BroughtInv /\ SurplusInv
  /\ RevertsJustified

\* The invariant implies that nothing executed is outside its tolerance.
LEMMA SettleInvTolerance ==
  ASSUME SettleInv
  PROVE  WithinTolerance
<1> SUFFICES ASSUME pc = "executed", NEW k \in DOMAIN actions,
                    actions[k].type = "withdraw" \/ actions[k].tolerance > 0,
                    NEW c \in DOMAIN actions[k].expects
             PROVE  Covers(received[k][c], actions[k].expects[c], actions[k].tolerance)
  BY DEF WithinTolerance
<1> USE DEF SettleInv
<1>1. k \in DOMAIN messages /\ k \in DOMAIN received /\ actions[k] \in Offers
  BY DEF TypeOK, StageInv
<1>2. PICK f \in Factors(actions[k].tolerance) :
        Accepted(actions[k]) /\ messages[k] = MessageOf(actions[k], f)
  BY <1>1 DEF BuiltInv
<1>3. /\ DOMAIN messages[k].least = DOMAIN actions[k].expects
      /\ messages[k].least[c] \in Nat
      /\ Covers(messages[k].least[c], actions[k].expects[c], actions[k].tolerance)
  BY <1>1, <1>2, MessageFacts
<1>4. received[k][c] >= messages[k].least[c]
  BY <1>1, <1>3 DEF BroughtInv
<1>5. received[k][c] \in Nat
  <2>1. received[k] \in Estimates /\ DOMAIN received[k] = DOMAIN messages[k].least
    BY <1>1 DEF TypeOK, BroughtInv
  <2> QED
    BY <1>3, <2>1, EstimateType
<1>6. actions[k].expects[c] \in Nat /\ actions[k].tolerance \in Percent
  BY <1>1, OfferType, EstimateType
<1> QED
  BY <1>3, <1>4, <1>5, <1>6, CoversMore

LEMMA SettleInvInit ==
  ASSUME Init
  PROVE  SettleInv
<1>1. PICK s \in Starts : start = s.held /\ budget = <<s.reckoned>>
  BY DEF Init
<1>2. /\ s.held \in [Coins -> Nat] /\ s.reckoned \in [Coins -> Nat]
      /\ holdings = start
  BY OffersAssumption DEF Init
<1> QED
  BY <1>1, <1>2 DEF Init, SettleInv, TypeOK, PlannedInv, BuiltInv, StageInv, BroughtInv,
              SurplusInv, RevertsJustified

-----------------------------------------------------------------------------
\* Every step preserves it

LEMMA PlanPreserves ==
  ASSUME SettleInv, Plan
  PROVE  SettleInv'
<1> USE DEF SettleInv
<1>1. PICK a \in Offers :
        /\ a.amount <= budget[Len(budget)][a.coin]
        /\ actions' = Append(actions, a)
        /\ budget' = Append(budget,
             Exchanged(budget[Len(budget)], a.coin, a.amount, a.expects))
  BY DEF Plan
<1>2. /\ pc = "planning" /\ messages = <<>> /\ received = <<>>
      /\ UNCHANGED <<pc, start, holdings, messages, received>>
  BY DEF Plan, StageInv
<1> DEFINE n == Len(actions)
           after == Exchanged(budget[n + 1], a.coin, a.amount, a.expects)
<1>3. /\ n \in Nat /\ Len(budget) = n + 1
      /\ budget \in Seq([Coins -> Nat]) /\ actions \in Seq(Offers)
      /\ budget[n + 1] \in [Coins -> Nat]
  BY DEF TypeOK
<1>4. after \in [Coins -> Nat]
  BY <1>1, <1>3, OfferType, ExchangedType
<1>5. budget' = Append(budget, after) /\ a.amount <= budget[n + 1][a.coin]
  BY <1>1, <1>3
<1> HIDE DEF after
<1>6. /\ Len(actions') = n + 1 /\ Len(budget') = n + 2
      /\ \A k \in 1..n : actions'[k] = actions[k]
      /\ \A k \in 1..(n + 1) : budget'[k] = budget[k]
      /\ actions'[n + 1] = a /\ budget'[n + 2] = after
  BY <1>1, <1>3, <1>4, <1>5
<1>7. TypeOK'
  BY <1>1, <1>2, <1>3, <1>4, <1>5, <1>6 DEF TypeOK
<1>8. PlannedInv'
  <2> SUFFICES ASSUME NEW k \in 1..(n + 1)
               PROVE  /\ actions'[k].amount <= budget'[k][actions'[k].coin]
                      /\ budget'[k + 1] = Exchanged(budget'[k], actions'[k].coin,
                                            actions'[k].amount, actions'[k].expects)
    <3>1. DOMAIN actions' = 1..(n + 1)
      BY <1>6, <1>7 DEF TypeOK
    <3> QED
      BY <3>1 DEF PlannedInv
  <2>1. CASE k \in 1..n
    <3>1. /\ k \in DOMAIN actions /\ k + 1 \in 1..(n + 1) /\ k \in 1..(n + 1)
      BY <2>1, <1>3
    <3>2. actions'[k] = actions[k] /\ budget'[k] = budget[k] /\ budget'[k + 1] = budget[k + 1]
      BY <2>1, <3>1, <1>6
    <3> QED
      BY <3>1, <3>2 DEF PlannedInv
  <2>2. CASE k = n + 1
    BY <2>2, <1>3, <1>5, <1>6 DEF after
  <2> QED
    BY <2>1, <2>2, <1>3
<1> QED
  BY <1>2, <1>7, <1>8
     DEF BuiltInv, StageInv, BroughtInv, SurplusInv, RevertsJustified

LEMMA BuildMessagePreserves ==
  ASSUME SettleInv, BuildMessage
  PROVE  SettleInv'
<1> USE DEF SettleInv
<1> DEFINE n == Len(messages)
<1>1. PICK f \in Factors(actions[n + 1].tolerance) :
        messages' = Append(messages, MessageOf(actions[n + 1], f))
  BY DEF BuildMessage, NextAction
<1>2. /\ pc = "building" /\ n < Len(actions) /\ Accepted(actions[n + 1])
      /\ received = <<>>
      /\ UNCHANGED <<pc, start, holdings, actions, budget, received>>
  BY DEF BuildMessage, NextAction, StageInv
<1>3. n \in Nat /\ messages \in Seq(Message) /\ actions[n + 1] \in Offers
  BY <1>2 DEF TypeOK
<1>4. MessageOf(actions[n + 1], f) \in Message
  BY <1>3 DEF Message
<1>5. TypeOK'
  BY <1>1, <1>2, <1>3, <1>4 DEF TypeOK
<1>6. BuiltInv'
  <2> SUFFICES ASSUME NEW k \in 1..(n + 1)
               PROVE  /\ Accepted(actions[k])
                      /\ \E g \in Factors(actions[k].tolerance) : messages'[k] = MessageOf(actions[k], g)
    BY <1>1, <1>2, <1>3, <1>4 DEF BuiltInv, Accepted, Valid, ValidSwap, ValidDeposit,
       ValidWithdraw, ValidSlippage, Tradable
  <2>1. CASE k \in 1..n
    BY <2>1, <1>1, <1>3, <1>4 DEF BuiltInv
  <2>2. CASE k = n + 1
    BY <2>2, <1>1, <1>2, <1>3, <1>4
  <2> QED
    BY <2>1, <2>2, <1>3
<1> QED
  BY <1>2, <1>5, <1>6 DEF PlannedInv, StageInv, BroughtInv, SurplusInv, RevertsJustified

\* The next message, whatever it brings: it offers what was planned.
LEMMA NextMessageFacts ==
  ASSUME SettleInv, pc = "executing"
  PROVE  LET k == Len(received) + 1 IN
         /\ k \in DOMAIN messages /\ k \in DOMAIN actions /\ k \in 1..Len(budget)
         /\ actions[k] \in Offers
         /\ NextMessage = messages[k]
         /\ NextMessage.coin = actions[k].coin /\ NextMessage.amount = actions[k].amount
         /\ DOMAIN NextMessage.least = DOMAIN actions[k].expects
         /\ \A c \in DOMAIN actions[k].expects :
              /\ NextMessage.least[c] \in Nat
              /\ actions[k].expects[c] > 0 => NextMessage.least[c] <= actions[k].expects[c]
         /\ Outcomes \subseteq Estimates
         /\ \A got \in Outcomes : DOMAIN got = DOMAIN actions[k].expects
<1> USE DEF SettleInv
<1> DEFINE k == Len(received) + 1
<1>1. /\ k \in DOMAIN messages /\ k \in DOMAIN actions /\ k \in 1..Len(budget)
      /\ actions[k] \in Offers
  BY DEF TypeOK, StageInv
<1>2. PICK f \in Factors(actions[k].tolerance) :
        Accepted(actions[k]) /\ messages[k] = MessageOf(actions[k], f)
  BY <1>1 DEF BuiltInv
<1>3. NextMessage = messages[k]
  BY DEF NextMessage
<1>4. /\ messages[k].coin = actions[k].coin /\ messages[k].amount = actions[k].amount
      /\ DOMAIN messages[k].least = DOMAIN actions[k].expects
      /\ \A c \in DOMAIN actions[k].expects :
           /\ messages[k].least[c] \in Nat
           /\ actions[k].expects[c] > 0 => messages[k].least[c] <= actions[k].expects[c]
  BY <1>1, <1>2, MessageFacts
<1>5. DOMAIN actions[k].expects \subseteq Coins
  BY <1>1, OfferType, EstimateType
<1>6. Outcomes = [DOMAIN actions[k].expects -> 0..MaxOut]
  BY <1>3, <1>4 DEF Outcomes
<1>7. Outcomes \subseteq Estimates
  BY <1>5, <1>6 DEF Estimates
<1> QED
  BY <1>1, <1>3, <1>4, <1>6, <1>7

LEMMA ExecuteMessagePreserves ==
  ASSUME SettleInv, ExecuteMessage
  PROVE  SettleInv'
<1> USE DEF SettleInv
<1> DEFINE n == Len(received)
           k == n + 1
<1>1. PICK got \in Outcomes :
        /\ Enough(got)
        /\ holdings' = Exchanged(holdings, NextMessage.coin, NextMessage.amount, got)
        /\ received' = Append(received, got)
  BY DEF ExecuteMessage
<1>2. /\ pc = "executing"
      /\ pc' = IF k = Len(messages) THEN "executed" ELSE "executing"
      /\ UNCHANGED <<start, actions, budget, messages>>
  BY DEF ExecuteMessage
<1>3. /\ k \in DOMAIN messages /\ k \in DOMAIN actions /\ k \in 1..Len(budget)
      /\ actions[k] \in Offers
      /\ NextMessage = messages[k]
      /\ NextMessage.coin = actions[k].coin /\ NextMessage.amount = actions[k].amount
      /\ DOMAIN NextMessage.least = DOMAIN actions[k].expects
      /\ got \in Estimates /\ DOMAIN got = DOMAIN actions[k].expects
  BY <1>2, NextMessageFacts
<1>4. /\ n \in Nat /\ received \in Seq(Estimates)
      /\ Len(messages) = Len(actions) /\ n < Len(messages)
      /\ Len(messages) \in Nat
  BY <1>2 DEF TypeOK, StageInv
<1>5. /\ Len(received') = n + 1 /\ received'[k] = got
      /\ \A j \in 1..n : received'[j] = received[j]
  BY <1>1, <1>3, <1>4
<1>6. holdings' \in [Coins -> Nat]
  BY <1>1, <1>3, OfferType, ExchangedType DEF TypeOK, Enough
<1>7. TypeOK'
  BY <1>1, <1>2, <1>3, <1>4, <1>6 DEF TypeOK
<1>8. StageInv'
  BY <1>2, <1>4, <1>5 DEF StageInv
<1>9. BroughtInv'
  <2> SUFFICES ASSUME NEW j \in 1..(n + 1)
               PROVE  /\ DOMAIN received'[j] = DOMAIN messages[j].least
                      /\ \A c \in DOMAIN received'[j] : received'[j][c] >= messages[j].least[c]
    BY <1>2, <1>4, <1>5, <1>7 DEF BroughtInv, TypeOK
  <2>1. CASE j \in 1..n
    BY <2>1, <1>2, <1>4, <1>5 DEF BroughtInv
  <2>2. CASE j = k
    BY <2>2, <1>1, <1>3, <1>5 DEF Enough
  <2> QED
    BY <2>1, <2>2, <1>4
<1>10. SurplusInv'
  <2> SUFFICES ASSUME pc' = "executing", AsReckoned', AsEstimated'
               PROVE  \A c \in Coins : holdings'[c] >= budget[k + 1][c]
    BY <1>2, <1>4, <1>5 DEF SurplusInv
  <2>1. AsEstimated
    <3> SUFFICES ASSUME NEW j \in 1..n, NEW c \in DOMAIN actions[j].expects
                 PROVE  received[j][c] >= actions[j].expects[c]
      BY <1>4 DEF AsEstimated
    <3>1. j \in DOMAIN received'
      BY <1>4, <1>5, <1>7 DEF TypeOK
    <3>2. received'[j][c] >= actions'[j].expects[c]
      BY <1>2, <3>1 DEF AsEstimated
    <3> QED
      BY <1>2, <1>5, <3>2
  <2>2. \A c \in Coins : holdings[c] >= budget[k][c]
    BY <2>1, <1>2 DEF SurplusInv, AsReckoned
  <2>3. \A c \in DOMAIN actions[k].expects : got[c] >= actions[k].expects[c]
    <3>1. k \in DOMAIN received'
      BY <1>4, <1>5, <1>7 DEF TypeOK
    <3> QED
      BY <1>2, <1>5, <3>1 DEF AsEstimated
  <2>4. holdings \in [Coins -> Nat] /\ budget[k] \in [Coins -> Nat]
    BY <1>3 DEF TypeOK
  <2>5. \A c \in Coins :
          Exchanged(holdings, actions[k].coin, actions[k].amount, got)[c]
            >= Exchanged(budget[k], actions[k].coin, actions[k].amount, actions[k].expects)[c]
    BY <1>3, <2>2, <2>3, <2>4, OfferType, ExchangedMonotone
  <2>6. budget[k + 1] =
          Exchanged(budget[k], actions[k].coin, actions[k].amount, actions[k].expects)
    BY <1>3 DEF PlannedInv
  <2> QED
    BY <1>1, <1>3, <2>5, <2>6
<1> QED
  BY <1>2, <1>7, <1>8, <1>9, <1>10
     DEF PlannedInv, BuiltInv, RevertsJustified, Accepted, Valid, ValidSwap, ValidDeposit,
         ValidWithdraw, ValidSlippage, Tradable

LEMMA RevertMessagesPreserves ==
  ASSUME SettleInv, RevertMessages
  PROVE  SettleInv'
<1> USE DEF SettleInv
<1> DEFINE n == Len(received)
           k == n + 1
<1>1. PICK got \in Outcomes : ~Enough(got) /\ received' = Append(received, got)
  BY DEF RevertMessages
<1>2. /\ pc = "executing" /\ pc' = "reverted" /\ holdings' = start
      /\ UNCHANGED <<start, actions, budget, messages>>
  BY DEF RevertMessages
<1>3. /\ k \in DOMAIN messages /\ k \in DOMAIN actions /\ k \in 1..Len(budget)
      /\ actions[k] \in Offers
      /\ NextMessage.coin = actions[k].coin /\ NextMessage.amount = actions[k].amount
      /\ \A c \in DOMAIN actions[k].expects :
           /\ NextMessage.least[c] \in Nat
           /\ actions[k].expects[c] > 0 => NextMessage.least[c] <= actions[k].expects[c]
      /\ got \in Estimates /\ DOMAIN got = DOMAIN actions[k].expects
  BY <1>2, NextMessageFacts
<1>4. n \in Nat /\ received \in Seq(Estimates) /\ n < Len(messages) /\ Len(messages) \in Nat
  BY <1>2 DEF TypeOK, StageInv
<1>5. /\ Len(received') = n + 1 /\ received'[k] = got
      /\ \A j \in 1..n : received'[j] = received[j]
      /\ DOMAIN received' = 1..(n + 1)
  BY <1>1, <1>3, <1>4
<1>6. TypeOK'
  BY <1>1, <1>2, <1>3, <1>4 DEF TypeOK
<1>7. RevertsJustified'
  <2>1. CASE \E c \in DOMAIN got : ~(got[c] >= NextMessage.least[c])
    <3>1. PICK c \in DOMAIN got : ~(got[c] >= NextMessage.least[c])
      BY <2>1
    <3>2. got[c] \in Nat /\ actions[k].expects[c] \in Nat
      BY <1>3, OfferType, EstimateType
    <3>3. got[c] < actions[k].expects[c] \/ actions[k].expects[c] = 0
      BY <1>3, <3>1, <3>2
    <3> QED
      BY <1>2, <1>3, <1>4, <1>5, <3>3 DEF RevertsJustified
  <2>2. CASE ~(actions[k].amount <= holdings[actions[k].coin])
    <3>1. ~(\A c \in Coins : holdings[c] >= budget[k][c])
      <4>1. actions[k].amount <= budget[k][actions[k].coin]
        BY <1>3 DEF PlannedInv
      <4>2. /\ actions[k].coin \in Coins /\ actions[k].amount \in Nat
            /\ holdings \in [Coins -> Nat] /\ budget[k] \in [Coins -> Nat]
        BY <1>3, OfferType DEF TypeOK
      <4> QED
        BY <2>2, <4>1, <4>2
    <3>2. CASE ~AsReckoned
      <4>1. PICK c \in Coins : ~(start[c] >= budget[1][c])
        BY <3>2 DEF AsReckoned
      <4>2. start[c] \in Nat /\ budget[1][c] \in Nat
        BY DEF TypeOK
      <4> QED
        BY <1>2, <4>1, <4>2 DEF RevertsJustified
    <3>3. CASE AsReckoned
      <4>1. PICK j \in 1..n : \E c \in DOMAIN actions[j].expects :
              ~(received[j][c] >= actions[j].expects[c])
        BY <1>2, <1>4, <3>1, <3>3 DEF SurplusInv, AsEstimated
      <4>2. PICK c \in DOMAIN actions[j].expects : ~(received[j][c] >= actions[j].expects[c])
        BY <4>1
      <4>3. actions[j] \in Offers /\ received[j] \in Estimates
        BY <1>4 DEF TypeOK
      <4>4. DOMAIN received[j] = DOMAIN actions[j].expects
        <5>1. j \in DOMAIN messages /\ DOMAIN received[j] = DOMAIN messages[j].least
          BY <1>2, <1>4 DEF BroughtInv, TypeOK
        <5> QED
          BY <4>3, <5>1, MessageFacts DEF BuiltInv
      <4>5. received[j][c] \in Nat /\ actions[j].expects[c] \in Nat
        BY <4>2, <4>3, <4>4, OfferType, EstimateType
      <4>6. received[j][c] < actions[j].expects[c]
        BY <4>2, <4>5
      <4> QED
        BY <1>2, <1>4, <1>5, <4>1, <4>2, <4>6 DEF RevertsJustified
    <3> QED
      BY <3>2, <3>3
  <2> QED
    BY <1>1, <1>3, <2>1, <2>2 DEF Enough
<1> QED
  BY <1>2, <1>4, <1>6, <1>7
     DEF PlannedInv, BuiltInv, StageInv, BroughtInv, SurplusInv, Accepted, Valid, ValidSwap,
         ValidDeposit, ValidWithdraw, ValidSlippage, Tradable

\* SettleInv is inductive.
LEMMA SettleInvNext ==
  ASSUME SettleInv, [Next]_vars
  PROVE  SettleInv'
<1> USE DEF SettleInv
<1>1. CASE Plan
  BY <1>1, PlanPreserves
<1>2. CASE HandOver
  BY <1>2 DEF HandOver, TypeOK, PlannedInv, BuiltInv, StageInv, BroughtInv, SurplusInv,
              RevertsJustified
<1>3. CASE BuildMessage
  BY <1>3, BuildMessagePreserves
<1>4. CASE RefusePlan
  BY <1>4 DEF RefusePlan, TypeOK, PlannedInv, BuiltInv, StageInv, BroughtInv, SurplusInv,
              RevertsJustified
<1>5. CASE IncludeMessages
  BY <1>5 DEF IncludeMessages, TypeOK, PlannedInv, BuiltInv, StageInv, BroughtInv,
              SurplusInv, AsReckoned, RevertsJustified
<1>6. CASE ExecuteMessage
  BY <1>6, ExecuteMessagePreserves
<1>7. CASE RevertMessages
  BY <1>7, RevertMessagesPreserves
<1>8. CASE UNCHANGED vars
  BY <1>8 DEF vars, TypeOK, PlannedInv, BuiltInv, StageInv, BroughtInv, SurplusInv,
              AsReckoned, AsEstimated, RevertsJustified
<1> QED
  BY <1>1, <1>2, <1>3, <1>4, <1>5, <1>6, <1>7, <1>8 DEF Next, Settled

-----------------------------------------------------------------------------
\* The theorems

\* The holdings and what the planner reckons of them are never negative, and
\* every sub-action, message and receipt is well formed.
THEOREM SettlementTypeCorrect == Spec => []TypeOK
<1>1. Init => SettleInv
  BY SettleInvInit
<1>2. SettleInv /\ [Next]_vars => SettleInv'
  BY SettleInvNext
<1>3. SettleInv => TypeOK
  BY DEF SettleInv
<1> QED
  BY <1>1, <1>2, <1>3, PTL DEF Spec

\* An executed transaction has brought what was estimated but for the tolerated
\* part, for every tolerance and every move of the market.
THEOREM SettlementWithinTolerance == Spec => []WithinTolerance
<1>1. Init => SettleInv
  BY SettleInvInit
<1>2. SettleInv /\ [Next]_vars => SettleInv'
  BY SettleInvNext
<1> QED
  BY <1>1, <1>2, SettleInvTolerance, PTL DEF Spec

\* A transaction whose estimates hold is not reverted, however many
\* sub-actions it has.
THEOREM SettlementRevertsJustified == Spec => []RevertsJustified
<1>1. Init => SettleInv
  BY SettleInvInit
<1>2. SettleInv /\ [Next]_vars => SettleInv'
  BY SettleInvNext
<1>3. SettleInv => RevertsJustified
  BY DEF SettleInv
<1> QED
  BY <1>1, <1>2, <1>3, PTL DEF Spec
=============================================================================
