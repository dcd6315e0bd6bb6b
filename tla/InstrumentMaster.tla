--------------------------- MODULE InstrumentMaster ---------------------------
(***************************************************************************)
(* From a spot price to a contract the exchange lists: the day-stamped copy *)
(* of Dhan's instrument master that the worker processes of one machine    *)
(* share, what ScripMaster reads out of it, the expiry that is fixed for   *)
(* the session, and the strike that a signal's moneyness asks for.  The    *)
(* file on the broker's side is external.  Symbols and tick sizes are left *)
(* out; prices and strikes are in the same small unit.                     *)
(***************************************************************************)
EXTENDS Integers, Sequences, FiniteSets

CONSTANTS Processes,
          Days,        \* 0 to the last day looked at
          PublishedOn,   \* the master as it is published on each day
          Underlying, Exchange,
          StrikeStep,
          Configured,  \* the expiry that the configuration gives, or NoExpiry
          Keep         \* retained copies

VARIABLES today,
          files,    \* the cache directory, a file a day
          pc,
          text,     \* the master a process has read or downloaded
          loadedOn, \* the day it was read
          expiry,   \* DhanOptionChainResolver._expiry
          pick      \* the contract selected last, and what was asked for

masterVars == <<today, files, pc, text, loadedOn, expiry, pick>>

NoFile == <<>>      \* an absent copy, or one that is empty
NoExpiry == -1
Unreadable == -1    \* a column that does not parse
NoRow == [strike |-> Unreadable]
NoPick == [row |-> NoRow, strike |-> 0, type |-> "none"]

-----------------------------------------------------------------------------
(* ScripMaster.  A row has instrument, root (of its symbol), exchange, type,*)
(* expiry, strike, lot and id.                                             *)

\* A row of another kind, index or exchange is passed over, an unreadable one skipped.
Usable(r) ==
  /\ r.instrument = "OPTIDX" /\ r.type \in {"CE", "PE"}
  /\ r.root = Underlying /\ r.exchange \in {Exchange, "blank"}
  /\ r.strike # Unreadable /\ r.lot # Unreadable

Contracts(m) == {i \in 1..Len(m) : Usable(m[i])}
Latest(S) == CHOOSE i \in S : \A j \in S : j <= i

\* Each index keeps the last row of a key.
RowOf(m, S) == IF S = {} THEN NoRow ELSE m[Latest(S)]

Get(m, strike, type, exp) ==
  RowOf(m, {i \in Contracts(m) : m[i].strike = strike /\ m[i].type = type /\ m[i].expiry = exp})

BySecurityId(m, id) == RowOf(m, {i \in Contracts(m) : m[i].id = id})

Expiries(m) == {m[i].expiry : i \in Contracts(m)}
StrikesForExpiry(m, exp) == {m[i].strike : i \in {j \in Contracts(m) : m[j].expiry = exp}}

\* Of whichever series the file lists last.
LotSize(m) == RowOf(m, Contracts(m)).lot

Soonest(e, S) == e \in S /\ \A f \in S : e <= f
Current(m, on) == {e \in Expiries(m) : e >= on}

\* A blank expiry sorts first, and does not parse.
HasCurrent(m, on) == NoExpiry \notin Expiries(m) /\ Current(m, on) # {}
NearestExpiry(m, on) == CHOOSE e \in Current(m, on) : Soonest(e, Current(m, on))

-----------------------------------------------------------------------------
(* Strikes.                                                                *)

\* Python's round: a tie goes to the even multiple.
Round(n, d) ==
  LET q == n \div d  r == n % d IN
  IF 2 * r > d \/ (2 * r = d /\ q % 2 = 1) THEN q + 1 ELSE q

NearestAtmStrike(spot, offset) == Round(spot, StrikeStep) * StrikeStep + offset * StrikeStep

\* ITM is below the spot for a call and above it for a put, OTM the reverse.
Offset(type, moneyness, steps) ==
  IF moneyness = "ATM" THEN 0
  ELSE IF (type = "CE") = (moneyness = "OTM") THEN steps ELSE -steps

ResolveStrike(spot, type, moneyness, steps) ==
  NearestAtmStrike(spot, Offset(type, moneyness, steps))

\* Everything within so many strikes of the money.
AtmBand(m, spot, exp, width) ==
  {Get(m, NearestAtmStrike(spot, o), type, exp) : o \in -width..width, type \in {"CE", "PE"}}
     \ {NoRow}

-----------------------------------------------------------------------------
(* The processes.                                                          *)

Idle(p) ==
  /\ text' = [text EXCEPT ![p] = <<>>] /\ loadedOn' = [loadedOn EXCEPT ![p] = 0]
  /\ expiry' = [expiry EXCEPT ![p] = NoExpiry] /\ pick' = [pick EXCEPT ![p] = NoPick]

MasterInit ==
  /\ today = 0 /\ files = [d \in Days |-> NoFile]
  /\ pc = [p \in Processes |-> "start"] /\ text = [p \in Processes |-> <<>>]
  /\ loadedOn = [p \in Processes |-> 0]
  /\ expiry = [p \in Processes |-> NoExpiry] /\ pick = [p \in Processes |-> NoPick]

\* cached_text: today's copy, if there is one and it is not empty.
ReadCached(p) ==
  /\ pc[p] = "start" /\ files[today] # NoFile
  /\ text' = [text EXCEPT ![p] = files[today]] /\ pc' = [pc EXCEPT ![p] = "load"]
  /\ UNCHANGED <<today, files, loadedOn, expiry, pick>>

\* Otherwise it is downloaded, or the worker does not start.
Download(p) ==
  /\ pc[p] = "start" /\ files[today] = NoFile
  /\ \/ text' = [text EXCEPT ![p] = PublishedOn[today]] /\ pc' = [pc EXCEPT ![p] = "write"]
     \/ pc' = [pc EXCEPT ![p] = "failed"] /\ UNCHANGED text
  /\ UNCHANGED <<today, files, loadedOn, expiry, pick>>

\* _write: whole or not at all, and under the name of the day it is by then.
Write(p) ==
  /\ pc[p] = "write" /\ files' = [files EXCEPT ![today] = text[p]]
  /\ pc' = [pc EXCEPT ![p] = "load"]
  /\ UNCHANGED <<today, text, loadedOn, expiry, pick>>

\* load_from_text, and the resolver that fixes the session's expiry.  No contract
\* of this underlying, or none that has not expired, and the worker does not start.
Load(p) ==
  LET m == text[p] IN
  /\ pc[p] = "load" /\ loadedOn' = [loadedOn EXCEPT ![p] = today]
  /\ IF Contracts(m) # {} /\ (Configured # NoExpiry \/ HasCurrent(m, today))
       THEN /\ pc' = [pc EXCEPT ![p] = "ready"]
            /\ expiry' = [expiry EXCEPT ![p] =
                            IF Configured # NoExpiry THEN Configured ELSE NearestExpiry(m, today)]
       ELSE pc' = [pc EXCEPT ![p] = "failed"] /\ UNCHANGED expiry
  /\ UNCHANGED <<today, files, text, pick>>

\* OptionSelector.select.  ContractNotListed is nobody's to catch: it ends the worker.
Select(p, spot, type, moneyness, steps) ==
  LET strike == ResolveStrike(spot, type, moneyness, steps)
      row == Get(text[p], strike, type, expiry[p]) IN
  /\ pc[p] = "ready"
  /\ IF row # NoRow
       THEN /\ pick' = [pick EXCEPT ![p] = [row |-> row, strike |-> strike, type |-> type]]
            /\ UNCHANGED pc
       ELSE pc' = [pc EXCEPT ![p] = "failed"] /\ UNCHANGED pick
  /\ UNCHANGED <<today, files, text, loadedOn, expiry>>

\* The process ends, anywhere, and is started again.
Restart(p) ==
  /\ pc' = [pc EXCEPT ![p] = "start"] /\ Idle(p) /\ UNCHANGED <<today, files>>

\* prune, from the housekeeping before a start: the newest copies stay.
Newer(d) == {e \in Days : e > d /\ files[e] # NoFile}

Prune ==
  /\ files' = [d \in Days |-> IF Cardinality(Newer(d)) < Keep THEN files[d] ELSE NoFile]
  /\ UNCHANGED <<today, pc, text, loadedOn, expiry, pick>>

Midnight ==
  /\ today + 1 \in Days /\ today' = today + 1
  /\ UNCHANGED <<files, pc, text, loadedOn, expiry, pick>>

MasterNext ==
  \/ \E p \in Processes :
       \/ ReadCached(p) \/ Download(p) \/ Write(p) \/ Load(p) \/ Restart(p)
       \/ \E spot, steps \in Nat, type \in {"CE", "PE"}, moneyness \in {"ITM", "ATM", "OTM"} :
            Select(p, spot, type, moneyness, steps)
  \/ Prune \/ Midnight

MasterSpec == MasterInit /\ [][MasterNext]_masterVars

-----------------------------------------------------------------------------
(* A copy in the cache is a whole master as it was published, and never one *)
(* of a later day, wherever a process dies and however many write it; it    *)
(* may be the day before's, when the download ran over midnight (_write).   *)
CopiesAreWhole ==
  \A d \in Days : files[d] # NoFile => \E x \in Days : x <= d /\ files[d] = PublishedOn[x]

(* What is selected is listed in the master the process read, at the strike *)
(* and of the type that were asked for and in the session's series          *)
(* (DhanOptionChainResolver.resolve).                                      *)
PickIsAsked ==
  \A p \in Processes : pick[p] # NoPick =>
    LET row == pick[p].row IN
    /\ \E i \in Contracts(text[p]) : row = text[p][i]
    /\ row.strike = pick[p].strike /\ row.type = pick[p].type /\ row.expiry = expiry[p]

UniqueIds(m) == \A i, j \in Contracts(m) : m[i].id = m[j].id => i = j

(* The rules that the paper broker looks up under the id of the selected    *)
(* contract are that contract's own, provided the master gives no id twice *)
(* (instrument_rules).                                                     *)
RulesAreThePicks ==
  \A p \in Processes : pick[p] # NoPick /\ UniqueIds(text[p]) =>
    BySecurityId(text[p], pick[p].row.id) = pick[p].row

(* Unless configuration chose it, the session's series is the first listed  *)
(* one that had not expired on the day the master was read                 *)
(* (nearest_expiry).                                                       *)
SeriesIsNearest ==
  \A p \in Processes : pc[p] = "ready" /\ Configured = NoExpiry =>
    Soonest(expiry[p], Current(text[p], loadedOn[p]))

SeriesStep ==
  \A p \in Processes : pick[p] # NoPick /\ pick'[p] # NoPick =>
    pick'[p].row.expiry = pick[p].row.expiry

(* A run never trades two series, although it may last over midnight        *)
(* (DhanOptionChainResolver.__init__).                                     *)
OneSeries == [][SeriesStep]_masterVars
===============================================================================
