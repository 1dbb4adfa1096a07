------------------------------ MODULE GameRules ------------------------------
(***************************************************************************)
(* The rules of one dealt hand: the auction, the patterns of cards and     *)
(* which beats which, the tricks, and the settlement.                      *)
(*                                                                         *)
(* A command that the rules refuse leaves the game as it was, because it   *)
(* is applied to a clone (Game.Fork); a command that is accepted is one    *)
(* step.  Only the ranks of cards matter to the rules, so a hand is a bag  *)
(* of ranks: how many cards of each it holds.                              *)
(***************************************************************************)
EXTENDS Integers, Sequences, FiniteSets

CONSTANTS
    Deals,    \* the deals: a first bidder, and the cards of 0 (the landlord's) to 3
    Scores,   \* the scores players bid; 0 passes
    Samples   \* bags of cards whose every part is analysed

ASSUME ScoresAssumption == 0 \in Scores /\ Scores \subseteq 0 .. 3

VARIABLES
    phase,    \* Game.phase
    auction,  \* bidding.State
    held,     \* the cards of each seat, and at 0 those of the landlord to be
    trick,    \* playing.State without its history
    tally,    \* what the settlement reads from that history
    result    \* what the settlement gave

gameVars == <<phase, auction, held, trick, tally, result>>

-----------------------------------------------------------------------------
(* Cards.  Ranks 0 .. 11 are three to ace, 12 is two, 13 and 14 the jokers. *)

Ranks == 0 .. 14
Ace   == 11
Two   == 12
Jokers == {13, 14}
Positions == 1 .. 3
Next3(p) == (p % 3) + 1

NoCards    == [r \in Ranks |-> 0]
Size(b)    == b[0] + b[1] + b[2] + b[3] + b[4] + b[5] + b[6] + b[7] + b[8] + b[9] + b[10]
              + b[11] + b[12] + b[13] + b[14]
With(b, c) == [r \in Ranks |-> b[r] + c[r]]
Without(b, c) == [r \in Ranks |-> b[r] - c[r]]
RanksWith(b, n)  == {r \in Ranks : b[r] = n}
Held(b)    == {r \in Ranks : b[r] > 0}

(* The bags a player can take from a hand: of the ranks it has n of, 0 to  *)
(* n each.                                                                 *)
Choices(b)     == [RanksWith(b, 1) -> 0 .. 1] \X [RanksWith(b, 2) -> 0 .. 2]
                  \X [RanksWith(b, 3) -> 0 .. 3] \X [RanksWith(b, 4) -> 0 .. 4]
Taken(b, some) == [r \in Ranks |-> IF b[r] = 0 THEN 0 ELSE some[b[r]][r]]
SubBags(b)     == {Taken(b, some) : some \in Choices(b)} \ {NoCards}

(* A deal gives every player cards of one deck.                            *)
ASSUME DealsAssumption ==
    \A deal \in Deals :
        /\ deal.first \in Positions /\ deal.cards \in [0 .. 3 -> [Ranks -> 0 .. 4]]
        /\ \A p \in Positions : deal.cards[p] # NoCards
        /\ \A r \in Ranks :
              deal.cards[0][r] + deal.cards[1][r] + deal.cards[2][r] + deal.cards[3][r]
                  <= IF r \in Jokers THEN 1 ELSE 4

(* So are the samples.                                                     *)
ASSUME SamplesAssumption ==
    \A sample \in Samples : sample \in [Ranks -> 0 .. 4] /\ \A r \in Jokers : sample[r] <= 1

-----------------------------------------------------------------------------
(* Patterns *)

Pattern(kind, rank, length, cards) == [kind |-> kind, rank |-> rank, length |-> length, cards |-> cards]
NoPattern == Pattern("none", 0, 0, 0)

(* exactSequence: all cards are in one run of ranks up to the ace, with n  *)
(* of each.                                                                *)
IsSequence(b, n, least) ==
    /\ Held(b) \subseteq RanksWith(b, n) \cap 0 .. Ace
    /\ Cardinality(Held(b)) >= least
    /\ \A r, s \in Held(b) : \A t \in r .. s : t \in Held(b)

Highest(b) == CHOOSE r \in Held(b) : \A s \in Held(b) : s <= r

(* validPairWings, and remainingCards with one wing for each triple. *)
PairWings(b, n)   == \A r \in Ranks : b[r] \in {0, 2} /\ Cardinality(RanksWith(b, 2)) = n
SingleWings(b, n) == Size(b) = n

Body(low, n)           == low .. low + n - 1
WithoutBody(b, low, n) == [r \in Ranks |-> IF r \in Body(low, n) THEN 0 ELSE b[r]]

(* Variant: triples of twos may carry an airplane. *)
BodiesHigh(b, n) == {low \in 0 .. Two : low + n - 1 <= Two /\ \A r \in Body(low, n) : b[r] = 3}

(* airplaneBody: where n consecutive triples start. *)
Bodies(b, n) == {low \in 0 .. Ace : low + n - 1 <= Ace /\ \A r \in Body(low, n) : b[r] = 3}

(* The lowest body that leaves the right wings counts. *)
Lowest(lows) == CHOOSE low \in lows : \A other \in lows : low <= other

(* Analyze: what a bag of cards is played as.  Only an airplane of twelve  *)
(* cards or more could be read in two ways; it is a plain airplane first.  *)
Analyze(b) ==
    LET n       == Size(b)
        triples == RanksWith(b, 3)
        fours   == RanksWith(b, 4)
        top(rs) == CHOOSE r \in rs : \A s \in rs : r <= s
        k4      == n \div 4
        k5      == n \div 5
        singles == {low \in Bodies(b, k4) : /\ n % 4 = 0 /\ k4 >= 2
                                            /\ SingleWings(WithoutBody(b, low, k4), k4)}
        pairs   == {low \in Bodies(b, k5) : /\ n % 5 = 0 /\ k5 >= 2
                                            /\ PairWings(WithoutBody(b, low, k5), k5)}
    IN  CASE Held(b) = Jokers -> Pattern("ROCKET", 14, 1, 2)
          [] Cardinality(Held(b)) = 1 ->
                Pattern(<<"SINGLE", "PAIR", "TRIPLE", "BOMB">>[n], Highest(b), 1, n)
          [] n = 4 /\ triples # {} -> Pattern("TRIPLE_WITH_SINGLE", top(triples), 1, 4)
          [] n = 5 /\ triples # {} /\ RanksWith(b, 2) # {} ->
                Pattern("TRIPLE_WITH_PAIR", top(triples), 1, 5)
          [] IsSequence(b, 1, 5) -> Pattern("STRAIGHT", Highest(b), n, n)
          [] IsSequence(b, 2, 3) -> Pattern("CONSECUTIVE_PAIRS", Highest(b), n \div 2, n)
          [] IsSequence(b, 3, 2) -> Pattern("AIRPLANE", Highest(b), n \div 3, n)
          [] singles # {} /\ ~IsSequence(b, 3, 2) ->
                Pattern("AIRPLANE_WITH_SINGLES", Lowest(singles) + k4 - 1, k4, n)
          [] pairs # {} ->
                Pattern("AIRPLANE_WITH_PAIRS", Lowest(pairs) + k5 - 1, k5, n)
          [] n = 6 /\ fours # {} -> Pattern("FOUR_WITH_TWO_SINGLES", top(fours), 1, 6)
          [] n = 8 /\ fours # {} /\ Cardinality(RanksWith(b, 2)) = 2 ->
                Pattern("FOUR_WITH_TWO_PAIRS", top(fours), 1, 8)
          [] OTHER -> NoPattern

(* validatePattern: CanBeat refuses a pattern that no cards can have. *)
SequenceKinds == {"STRAIGHT", "CONSECUTIVE_PAIRS", "AIRPLANE", "AIRPLANE_WITH_SINGLES",
                  "AIRPLANE_WITH_PAIRS"}
ValidStructure(p) ==
    /\ p.kind # "none"
    /\ p.kind = "ROCKET" => p.rank = 14
    /\ p.kind \in SequenceKinds => p.rank <= Ace /\ p.rank - p.length + 1 >= 0
    /\ p.kind \notin SequenceKinds => p.length = 1
    /\ p.kind \notin SequenceKinds \cup {"SINGLE", "ROCKET"} => p.rank <= Two

CanBeat(p, q) ==
    \/ p.kind = "ROCKET" /\ q.kind # "ROCKET"
    \/ p.kind = "BOMB" /\ q.kind \notin {"BOMB", "ROCKET"}
    \/ [p EXCEPT !.rank = 0] = [q EXCEPT !.rank = 0] /\ p.rank > q.rank

-----------------------------------------------------------------------------
(* The auction *)

NewAuction(first) == [first |-> first, current |-> first, highest |-> 0, bidder |-> 0, actions |-> <<>>]

Bid(a, position, score) ==
    [a EXCEPT !.current = Next3(position),
              !.highest = IF score > @ THEN score ELSE @,
              !.bidder = IF score > a.highest THEN position ELSE @,
              !.actions = Append(@, [position |-> position, score |-> score])]

AuctionOver(a) == a.highest = 3 \/ Len(a.actions) = 3

NewTrick(seat) == [leader |-> 0, pattern |-> NoPattern, passes |-> 0, current |-> seat]

(* applyBid: the last bid makes its bidder the landlord, who takes the     *)
(* landlord's cards and leads; an auction nobody bid in ends the hand.     *)
ApplyBid(position, score) ==
    /\ phase = "BIDDING"
    /\ position = auction.current
    /\ score > 0 => score > auction.highest
    /\ LET a == Bid(auction, position, score)
       IN  /\ auction' = a
           /\ phase' = IF ~AuctionOver(a) THEN "BIDDING"
                       ELSE IF a.highest = 0 THEN "NO_LANDLORD" ELSE "PLAYING"
           /\ trick' = IF phase' = "PLAYING" THEN NewTrick(a.bidder) ELSE trick
           /\ held' = IF phase' = "PLAYING"
                      THEN [held EXCEPT ![a.bidder] = With(@, held[0])] ELSE held
    /\ UNCHANGED <<tally, result>>

-----------------------------------------------------------------------------
(* Tricks *)

(* A play must be a pattern, and beat the one that leads. *)
Beats(p) == trick.leader = 0 \/ CanBeat(p, trick.pattern)

(* Two passes give the lead back to the last player who played. *)
Passed(seat) ==
    IF trick.passes = 1 THEN NewTrick(trick.leader)
    ELSE [trick EXCEPT !.passes = @ + 1, !.current = Next3(seat)]

MayPass(seat) == phase = "PLAYING" /\ seat = trick.current /\ trick.leader # 0

Pass(seat) ==
    /\ MayPass(seat)
    /\ trick' = Passed(seat)
    /\ UNCHANGED <<phase, auction, held, tally, result>>

(* Whoever played twice might as well have played more often. *)
Tallied(seat, p) ==
    [plays |-> [tally.plays EXCEPT ![seat] = IF @ = 2 THEN 2 ELSE @ + 1],
     bombs |-> tally.bombs + (IF p.kind = "BOMB" THEN 1 ELSE 0),
     rockets |-> tally.rockets + (IF p.kind = "ROCKET" THEN 1 ELSE 0)]

(* settlement.Calculate *)
Farmers(landlord) == Positions \ {landlord}
Spring(t, landlord, winner) ==
    \/ winner = landlord /\ \A f \in Farmers(landlord) : t.plays[f] = 0
    \/ winner # landlord /\ t.plays[landlord] = 1
(* A game with more bombs or rockets than a deck has is not settled, and   *)
(* the play that would have won it is refused.                             *)
Settleable(t) == t.bombs <= 13 /\ t.rockets <= 1
Stake(t, landlord, winner, score) ==
    score * 2 ^ (t.bombs + t.rockets + (IF Spring(t, landlord, winner) THEN 1 ELSE 0))

(* Variant: the landlord wins or loses the stake once. *)
PointsOnce(stake, landlord, winner) ==
    [p \in Positions |-> IF (p = landlord) = (winner = landlord) THEN stake ELSE -stake]

Points(stake, landlord, winner) ==
    LET sign == IF winner = landlord THEN 1 ELSE -1
    IN  [p \in Positions |-> IF p = landlord THEN 2 * sign * stake ELSE -sign * stake]

Calculate(t, landlord, winner) ==
    LET stake == Stake(t, landlord, winner, auction.highest)
    IN  [winner |-> winner, stake |-> stake, points |-> Points(stake, landlord, winner)]

(* A player whose hand is empty has won. *)
Wins(seat, cards) == held[seat] = cards

Play(seat, cards) ==
    /\ phase = "PLAYING"
    /\ seat = trick.current
    /\ LET p == Analyze(cards)
       IN  /\ p # NoPattern
           /\ Beats(p)
           /\ tally' = Tallied(seat, p)
           /\ trick' = [leader |-> seat, pattern |-> p, passes |-> 0,
                        current |-> IF Wins(seat, cards) THEN 0 ELSE Next3(seat)]
    /\ held' = [held EXCEPT ![seat] = Without(@, cards)]
    /\ IF Wins(seat, cards)
       THEN /\ Settleable(tally')
            /\ phase' = "COMPLETED" /\ result' = Calculate(tally', auction.bidder, seat)
       ELSE UNCHANGED <<phase, result>>
    /\ UNCHANGED auction

(* Game.Abort, for whatever reason the hand is terminated. *)
Abort ==
    /\ phase \in {"BIDDING", "PLAYING", "NO_LANDLORD"}
    /\ phase' = "ABORTED"
    /\ UNCHANGED <<auction, held, trick, tally, result>>

-----------------------------------------------------------------------------
NoResult == [winner |-> 0, stake |-> 0, points |-> [p \in Positions |-> 0]]

GameInit ==
    /\ phase = "NEW"
    /\ auction = NewAuction(1)
    /\ held = [seat \in 0 .. 3 |-> NoCards]
    /\ trick = NewTrick(0)
    /\ tally = [plays |-> [p \in Positions |-> 0], bombs |-> 0, rockets |-> 0]
    /\ result = NoResult

(* New: the game starts with the auction of a deal. *)
New(deal) ==
    /\ phase = "NEW"
    /\ phase' = "BIDDING"
    /\ auction' = NewAuction(deal.first)
    /\ held' = deal.cards
    /\ UNCHANGED <<trick, tally, result>>

PlayOn(seat) ==
    /\ seat = trick.current
    /\ Pass(seat) \/ \E cards \in SubBags(held[seat]) : Play(seat, cards)

GameNext ==
    \/ \E deal \in Deals : New(deal)
    \/ Abort
    \/ \E position \in Positions : PlayOn(position) \/ \E score \in Scores : ApplyBid(position, score)

GameSpec == GameInit /\ [][GameNext]_gameVars

-----------------------------------------------------------------------------
(* Properties *)

GameTypeOK ==
    /\ phase \in {"NEW", "BIDDING", "PLAYING", "NO_LANDLORD", "COMPLETED", "ABORTED"}
    /\ auction \in [first : Positions, current : Positions, highest : 0 .. 3, bidder : 0 .. 3,
                    actions : Seq([position : Positions, score : 0 .. 3])]
    /\ held \in [0 .. 3 -> [Ranks -> 0 .. 4]]
    /\ trick.leader \in 0 .. 3 /\ trick.passes \in 0 .. 1 /\ trick.current \in 0 .. 3
    /\ tally \in [plays : [Positions -> Nat], bombs : Nat, rockets : Nat]
    /\ result \in [winner : 0 .. 3, stake : Nat, points : [Positions -> Int]]

(* What a pattern is made of: so many cards of each rank of its body, and  *)
(* so many wings of other ranks for each of them.                          *)
FourKinds  == {"BOMB", "FOUR_WITH_TWO_SINGLES", "FOUR_WITH_TWO_PAIRS"}
ThreeKinds == {"TRIPLE", "TRIPLE_WITH_SINGLE", "TRIPLE_WITH_PAIR", "AIRPLANE",
               "AIRPLANE_WITH_SINGLES", "AIRPLANE_WITH_PAIRS"}
BodyKinds  == {"SINGLE", "STRAIGHT", "PAIR", "CONSECUTIVE_PAIRS"} \cup ThreeKinds \cup FourKinds
Copies(k)  == CASE k \in {"SINGLE", "STRAIGHT"} -> 1 [] k \in {"PAIR", "CONSECUTIVE_PAIRS"} -> 2
                [] k \in ThreeKinds -> 3 [] k \in FourKinds -> 4
Shortest(k) == CASE k = "STRAIGHT" -> 5 [] k = "CONSECUTIVE_PAIRS" -> 3 [] OTHER -> 2
Wings(k, n) == CASE k \in {"TRIPLE_WITH_SINGLE", "AIRPLANE_WITH_SINGLES"} -> <<"cards", n>>
                 [] k \in {"TRIPLE_WITH_PAIR", "AIRPLANE_WITH_PAIRS"} -> <<"pairs", n>>
                 [] k = "FOUR_WITH_TWO_SINGLES" -> <<"cards", 2>>
                 [] k = "FOUR_WITH_TWO_PAIRS" -> <<"pairs", 2>>
                 [] OTHER -> <<"cards", 0>>
MadeOf(b, k, low, n) ==
    LET body == low .. low + n - 1
        rest == [r \in Ranks |-> IF r \in body THEN 0 ELSE b[r]]
    IN  /\ IF k \in SequenceKinds THEN n >= Shortest(k) ELSE n = 1
        /\ body \subseteq (IF k \in SequenceKinds THEN 0 .. Ace ELSE Ranks)
        /\ \A r \in body : b[r] = Copies(k)
        /\ IF Wings(k, n)[1] = "cards" THEN Size(rest) = Wings(k, n)[2]
           ELSE /\ \A r \in Ranks : rest[r] \in {0, 2}
                /\ Size(rest) = 2 * Wings(k, n)[2]

IsReading(b, p) ==
    \E k \in BodyKinds : \E low \in RanksWith(b, Copies(k)) : \E n \in 1 .. Cardinality(Held(b)) :
        MadeOf(b, k, low, n) /\ p = Pattern(k, low + n - 1, n, Size(b))
Readable(b) ==
    \E k \in BodyKinds : \E low \in RanksWith(b, Copies(k)) : \E n \in 1 .. Cardinality(Held(b)) :
        MadeOf(b, k, low, n)

AnalyzedByRules(b) ==
    IF Analyze(b).kind = "ROCKET" THEN b[13] = 1 /\ b[14] = 1 /\ Size(b) = 2
    ELSE IF Analyze(b) = NoPattern THEN ~Readable(b)
    ELSE IsReading(b, Analyze(b)) /\ ValidStructure(Analyze(b))

(* The analysis of every choice of cards is a pattern the rules describe,  *)
(* one CanBeat accepts, and it finds one whenever there is one.            *)
AnalyzeMeetsRules ==
    phase = "BIDDING" /\ auction.actions = <<>> =>
        \A sample \in Samples : \A b \in SubBags(sample) : AnalyzedByRules(b)

(* The landlord is whoever bid highest, and bid first among the actions.   *)
(* No player bids twice and nobody bids after a three.                     *)
AuctionIsFair ==
    LET acts == auction.actions
    IN  /\ \A i \in DOMAIN acts : acts[i].position = ((auction.first + i - 2) % 3) + 1
        /\ \A i \in DOMAIN acts : acts[i].score = 3 => i = Len(acts) /\ phase # "BIDDING"
        /\ phase \in {"PLAYING", "COMPLETED"} =>
               \E i \in DOMAIN acts :
                   /\ acts[i] = [position |-> auction.bidder, score |-> auction.highest]
                   /\ \A j \in DOMAIN acts : acts[j].score > 0 => j <= i /\ acts[j].score <= acts[i].score
        /\ phase = "NO_LANDLORD" => \A i \in DOMAIN acts : acts[i].score = 0 /\ Len(acts) = 3

(* The turn is where the leading play and the passes after it put it: the  *)
(* player whose cards lead is never asked to beat them, and leads again    *)
(* when both others passed.                                                *)
TurnsFollowLead ==
    phase = "PLAYING" =>
        /\ held[trick.current] # NoCards
        /\ trick.leader # 0 =>
               /\ trick.current = ((trick.leader + trick.passes) % 3) + 1
               /\ trick.current # trick.leader

(* The winner is the only player without cards, points sum to zero, and    *)
(* the winning side gains what the other loses.                            *)
SettlementIsZeroSum ==
    phase = "COMPLETED" =>
        /\ {p \in Positions : held[p] = NoCards} = {result.winner}
        /\ result.points[1] + result.points[2] + result.points[3] = 0
        /\ \A p \in Positions :
              result.points[p] > 0 <=>
                  (p = auction.bidder) = (result.winner = auction.bidder)
        /\ result.stake <= 3 * 2 ^ 15

(* The settlement refuses no play that empties a hand.                     *)
WinsAreSettled ==
    phase = "PLAYING" =>
        LET p == Analyze(held[trick.current])
        IN  p # NoPattern /\ Beats(p) => Settleable(Tallied(trick.current, p))

(* What holds of one game: the auction, the turns and the settlement.      *)
GameIsFair == AuctionIsFair /\ TurnsFollowLead /\ SettlementIsZeroSum /\ WinsAreSettled
=============================================================================
