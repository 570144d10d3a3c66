---------------------------------- MODULE Poker ----------------------------------
(****************************************************************************)
(* The poker results of one user: tournaments with their shared costs, the  *)
(* events played in them, and the ledger of the bankroll.  The results are  *)
(* computed three times: per tournament in the service, per tournament in   *)
(* SQL and over all tournaments in SQL, of which the bankroll makes use.    *)
(* An operation checks the owner and writes; a write to what another        *)
(* request has deleted in between fails, so both are one step.              *)
(****************************************************************************)
EXTENDS Integers, FiniteSets, FiniteSetsExt

CONSTANTS
    Tournaments, Events, Entries,   \* identifiers of the three tables
    Null,                           \* an amount that was not entered
    Costs, Plays, Amounts           \* inputs: shared costs, results of an event, amounts of the ledger

\* The requests are validated: no amount is negative.
ASSUME PokerAssumption ==
    /\ Null \notin Int
    /\ Costs \subseteq Nat /\ Amounts \subseteq Nat
    /\ \A play \in Plays :
          /\ play.buyIn \in Nat /\ play.winnings \in Nat /\ play.addOnPurchased \in BOOLEAN
          /\ {play.reBuyAmount, play.addOnAmount} \subseteq Nat \union {Null}

VARIABLES
    tournaments,    \* [id, sharedCosts]
    events,         \* [id, tournament, buyIn, reBuyAmount, addOnAmount, addOnPurchased, winnings]
    bankroll        \* [id, type, amount]

pokerVars == <<tournaments, events, bankroll>>

EntryTypes == {"DEPOSIT", "WITHDRAWAL"}

PokerInit == tournaments = {} /\ events = {} /\ bankroll = {}

\* The rows of a table that have this id; ids are unique.
WithId(table, id) == {row \in table : row.id = id}
IdsOf(table) == {row.id : row \in table}

-------------------------------------------------------------------------------
(* The operations on the three tables.                                        *)

createTournament(t, costs) ==
    /\ t \notin IdsOf(tournaments)
    /\ tournaments' = tournaments \union {[id |-> t, sharedCosts |-> costs]}
    /\ UNCHANGED <<events, bankroll>>

updateTournament(t, costs) ==
    /\ t \in IdsOf(tournaments)
    /\ tournaments' = (tournaments \ WithId(tournaments, t)) \union {[id |-> t, sharedCosts |-> costs]}
    /\ UNCHANGED <<events, bankroll>>

\* The events go with it (onDelete: Cascade).
deleteTournament(t) ==
    /\ t \in IdsOf(tournaments)
    /\ tournaments' = tournaments \ WithId(tournaments, t)
    /\ events' = {e \in events : e.tournament # t}
    /\ UNCHANGED bankroll

\* An event of a tournament with these results.
EventOf(e, t, play) ==
    [id |-> e, tournament |-> t, buyIn |-> play.buyIn, reBuyAmount |-> play.reBuyAmount,
     addOnAmount |-> play.addOnAmount, addOnPurchased |-> play.addOnPurchased, winnings |-> play.winnings]

createTournamentEvent(e, t, play) ==
    /\ e \notin IdsOf(events) /\ t \in IdsOf(tournaments)
    /\ events' = events \union {EventOf(e, t, play)}
    /\ UNCHANGED <<tournaments, bankroll>>

updateTournamentEvent(e, play) ==
    /\ \E old \in WithId(events, e) :
          events' = (events \ {old}) \union {EventOf(e, old.tournament, play)}
    /\ UNCHANGED <<tournaments, bankroll>>

deleteTournamentEvent(e) ==
    /\ e \in IdsOf(events)
    /\ events' = events \ WithId(events, e)
    /\ UNCHANGED <<tournaments, bankroll>>

createBankrollTransaction(id, type, amount) ==
    /\ id \notin IdsOf(bankroll)
    /\ bankroll' = bankroll \union {[id |-> id, type |-> type, amount |-> amount]}
    /\ UNCHANGED <<tournaments, events>>

deleteBankrollTransaction(id) ==
    /\ id \in IdsOf(bankroll)
    /\ bankroll' = bankroll \ WithId(bankroll, id)
    /\ UNCHANGED <<tournaments, events>>

PokerNext ==
    \/ \E t \in Tournaments :
          \/ \E costs \in Costs : createTournament(t, costs) \/ updateTournament(t, costs)
          \/ deleteTournament(t)
          \/ \E e \in Events, play \in Plays : createTournamentEvent(e, t, play)
    \/ \E e \in Events :
          (\E play \in Plays : updateTournamentEvent(e, play)) \/ deleteTournamentEvent(e)
    \/ \E id \in Entries :
          \/ \E type \in EntryTypes, amount \in Amounts : createBankrollTransaction(id, type, amount)
          \/ deleteBankrollTransaction(id)

-------------------------------------------------------------------------------
(* The results.                                                               *)

OrZero(amount) == IF amount = Null THEN 0 ELSE amount

\* What an event cost; an add-on that was offered is paid only if purchased.
AddOnCost(e) == IF e.addOnPurchased THEN OrZero(e.addOnAmount) ELSE 0
CostOf(e) == e.buyIn + OrZero(e.reBuyAmount) + AddOnCost(e)
Won(played) == {e \in played : e.winnings > CostOf(e)}

EventsOf(t) == {e \in events : e.tournament = t.id}

\* Sums of a column over rows, which are unique by their ids.
Added(rows, Value(_)) == SumFunction([row \in rows |-> Value(row)])

\* SQL's MAX and MIN of an expression over the events, 0 where there are none.
Largest(played, Value(_)) == IF played = {} THEN 0 ELSE Max({Value(e) : e \in played})
Smallest(played, Value(_)) == IF played = {} THEN 0 ELSE Min({Value(e) : e \in played})

\* The service, from a tournament that was fetched with its events.
transformTournamentToDto(t) ==
    LET investment == t.sharedCosts + Added(EventsOf(t), LAMBDA e : e.buyIn)
                      + Added(EventsOf(t), LAMBDA e : OrZero(e.reBuyAmount)) + Added(EventsOf(t), AddOnCost)
        winnings == Added(EventsOf(t), LAMBDA e : e.winnings)
    IN  [totalInvestment |-> investment, totalWinnings |-> winnings, netProfit |-> winnings - investment,
         eventsPlayed |-> Cardinality(EventsOf(t)), eventsWon |-> Cardinality(Won(EventsOf(t)))]

\* SQL, one tournament joined with its events: the costs are columns of the group.
getTournamentStats(t) ==
    LET played == EventsOf(t)
        entered == {e \in played : e.reBuyAmount # Null}
        purchased == {e \in played : e.addOnPurchased /\ e.addOnAmount # Null}
        investment == t.sharedCosts + Added(played, LAMBDA e : e.buyIn)
                      + Added(entered, LAMBDA e : e.reBuyAmount) + Added(purchased, LAMBDA e : e.addOnAmount)
    IN  [totalInvestment |-> investment, totalWinnings |-> Added(played, LAMBDA e : e.winnings),
         netProfit |-> Added(played, LAMBDA e : e.winnings) - investment,
         eventsPlayed |-> Cardinality(played), eventsWon |-> Cardinality(Won(played))]

\* Slip: an inner join, which leaves out a tournament that has no events.
SharedCostsJoined == Added({t \in tournaments : EventsOf(t) # {}}, LAMBDA t : t.sharedCosts)

SharedCosts == Added(tournaments, LAMBDA t : t.sharedCosts)

\* SQL over all tournaments: the events are aggregated by tournament first.  The
\* "biggest loss" is the least of what an event cost beyond its winnings.
getUserPokerStats ==
    LET investment == SharedCosts + Added(events, CostOf)
        winnings == Added(events, LAMBDA e : e.winnings)
    IN  [totalTournaments |-> Cardinality(tournaments), totalInvestment |-> investment,
         totalBuyIns |-> Added(events, LAMBDA e : e.buyIn), totalWinnings |-> winnings,
         netProfit |-> winnings - investment,
         totalEventsPlayed |-> Cardinality(events), totalEventsWon |-> Cardinality(Won(events)),
         biggestWin |-> Largest(events, LAMBDA e : e.winnings),
         biggestLoss |-> Smallest(events, LAMBDA e : e.buyIn - e.winnings)]

\* A ratio is a part and a whole; it is shown as 0 when the whole is 0.
Ratio(part, whole) == IF whole > 0 THEN <<part, whole>> ELSE <<0, 1>>

getPokerAnalytics ==
    LET stats == getUserPokerStats
    IN  [stats |-> stats,
         overallROI |-> Ratio(stats.totalWinnings - stats.totalInvestment, stats.totalInvestment),
         winRate |-> Ratio(stats.totalEventsWon, stats.totalEventsPlayed),
         averageBuyIn |-> Ratio(stats.totalBuyIns, stats.totalEventsPlayed),
         averageWinnings |-> Ratio(stats.totalWinnings, stats.totalEventsPlayed)]

getTournamentAnalytics(t) ==
    LET stats == getTournamentStats(t)
    IN  [stats |-> stats,
         roi |-> Ratio(stats.totalWinnings - stats.totalInvestment, stats.totalInvestment),
         winRate |-> Ratio(stats.eventsWon, stats.eventsPlayed),
         costPerEvent |-> Ratio(stats.totalInvestment, stats.eventsPlayed)]

-------------------------------------------------------------------------------
(* The bankroll: what was put in, less what was taken out, and what was won.  *)

OfType(ledger, type) == Added({entry \in ledger : entry.type = type}, LAMBDA entry : entry.amount)

getBankroll(ledger) ==
    LET deposits == OfType(ledger, "DEPOSIT")
        withdrawals == OfType(ledger, "WITHDRAWAL")
        netProfit == getUserPokerStats.netProfit
        current == deposits - withdrawals + netProfit
        atRisk == Max({0, deposits - withdrawals})
        isFreerolling == deposits > 0 /\ withdrawals >= deposits /\ current > 0
        status == CASE deposits > 0 /\ (isFreerolling \/ netProfit >= 2 * deposits) -> "FREEROLL"
                    [] deposits > 0 /\ ~isFreerolling /\ netProfit \in deposits .. 2 * deposits - 1 -> "IN_PROFIT"
                    [] OTHER -> "BUILDING"
        suggested == CASE status = "FREEROLL" -> atRisk
                       [] status = "IN_PROFIT" -> Max({0, current - deposits})
                       [] OTHER -> 0
    IN  [currentBankroll |-> current, capitalAtRisk |-> atRisk, capitalRecouped |-> Min({withdrawals, deposits}),
         status |-> status, isFreerolling |-> isFreerolling,
         suggestedWithdrawal |-> Min({suggested, Max({0, current})})]
================================================================================
