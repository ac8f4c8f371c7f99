--------------------------- MODULE BacktestProofs ---------------------------
(***************************************************************************)
(* Theorems about Backtest, for any instances, frequency, horizon, feed,   *)
(* validation and candidates: no fold sees anything that was not known at  *)
(* its origin, nothing is scored that was learned from, forecasts speak    *)
(* from their own origin, and what is returned is complete and comparable. *)
(***************************************************************************)
EXTENDS Backtest, TLAPS, WellFoundedInduction, FiniteSetTheorems

-----------------------------------------------------------------------------
(* A bounded set of naturals has a least and a greatest element.           *)

LEMMA LeastIsOneOfThem ==
  ASSUME NEW S, S \subseteq Nat, S # {}
  PROVE  Min(S) \in S /\ \A t \in S : Min(S) <= t
<1> DEFINE Less == OpToRel(<, Nat)
<1>1. IsWellFoundedOn(Less, Nat)
  BY NatLessThanWellFounded
<1>2. PICK least \in S : \A t \in S : ~(<<t, least>> \in Less)
  <2> HIDE DEF Less
  <2> QED BY <1>1, WFMin
<1>3. \A t \in S : ~(t < least)
  BY <1>2 DEF OpToRel
<1>4. \A t \in S : least =< t
  BY <1>3
<1> QED BY <1>4 DEF Min

LEMMA GreatestIsOneOfThem ==
  ASSUME NEW n \in Nat, NEW S, S \subseteq 0 .. n, S # {}
  PROVE  Max(S) \in S /\ \A t \in S : t <= Max(S)
<1> DEFINE T == {n - t : t \in S}
<1>1. T \subseteq Nat /\ T # {}
  <2>1. \A t \in S : n - t \in Nat
    OBVIOUS
  <2>2. PICK t \in S : TRUE
    OBVIOUS
  <2>3. n - t \in T
    OBVIOUS
  <2> QED BY <2>1, <2>3
<1>2. Min(T) \in T /\ \A u \in T : Min(T) <= u
  BY <1>1, LeastIsOneOfThem
<1>3. PICK greatest \in S : Min(T) = n - greatest
  BY <1>2
<1>4. \A t \in S : greatest >= t
  <2> SUFFICES ASSUME NEW t \in S PROVE greatest >= t
    OBVIOUS
  <2>1. n - greatest <= n - t
    BY <1>2, <1>3
  <2> QED BY <2>1
<1> QED BY <1>4 DEF Max

(* Every selection is of origins that exist. *)
LEMMA SelectedExist ==
  ASSUME NEW n \in Nat, NEW S, S \subseteq 0 .. n, S # {},
         NEW selection, selection.mode \in OriginModes
  PROVE  Selected(selection, S) \subseteq S
<1>1. Max(S) \in S
  BY GreatestIsOneOfThem
<1> QED BY <1>1 DEF Selected, OriginModes, Thinned

-----------------------------------------------------------------------------
(* What the feed remembers: what it held after each moment is what it      *)
(* holds now, up to that moment. Every row is of a moment it lived through.*)

FeedInv ==
  /\ clock \in 0 .. LastMoment + 1
  /\ \A row \in info : row.origin \in 0 .. clock - 1
  /\ \A row \in truth : row.event \in 0 .. clock - 1 /\ row.instance \in Instance
  /\ DOMAIN asKnown = Moments
  /\ \A t \in 0 .. clock - 1 :
       asKnown[t] = [info |-> {row \in info : row.origin <= t}, truth |-> Happened(truth, t)]
  /\ phase # "feed" => clock > LastMoment

(* Nothing has been recorded.                                              *)
LEMMA FeedInitially == Init => FeedInv
BY BacktestAssumption DEF Init, FeedInv, Moments

(* A moment adds rows of that moment, which no earlier moment is to have   *)
(* known.                                                                  *)
LEMMA LiveKeepsTheFeed == FeedInv /\ Live => FeedInv'
<1> SUFFICES ASSUME FeedInv, Live PROVE FeedInv'
  OBVIOUS
<1> USE BacktestAssumption
<1>1. PICK report \in [Instance -> Reports(clock)] :
        /\ info' = info \cup Issued(report)
        /\ truth' = truth \cup Recorded(report)
  BY DEF Live
<1>2. /\ clock \in 0 .. LastMoment /\ clock' = clock + 1
      /\ asKnown' = [asKnown EXCEPT ![clock] = [info |-> info', truth |-> truth']]
      /\ phase = "feed" /\ phase' = "feed"
  BY DEF Live, Moments
<1>3. \A row \in Issued(report) : row.origin = clock
  BY DEF Issued
<1>4. \A row \in Recorded(report) : row.event = clock /\ row.instance \in Instance
  BY DEF Recorded
<1>5. /\ \A row \in info' : row.origin \in 0 .. clock
      /\ \A row \in truth' : row.event \in 0 .. clock /\ row.instance \in Instance
  BY <1>1, <1>2, <1>3, <1>4 DEF FeedInv
<1>6. \A t \in 0 .. clock :
        asKnown'[t] = [info |-> {row \in info' : row.origin <= t}, truth |-> Happened(truth', t)]
  <2> SUFFICES ASSUME NEW t \in 0 .. clock
               PROVE  asKnown'[t] = [info |-> {row \in info' : row.origin <= t},
                                     truth |-> Happened(truth', t)]
    OBVIOUS
  <2>1. CASE t = clock
    <3>1. {row \in info' : row.origin <= t} = info' /\ Happened(truth', t) = truth'
      BY <1>2, <1>5, <2>1 DEF Happened
    <3> QED BY <1>2, <2>1, <3>1 DEF FeedInv, Moments
  <2>2. CASE t # clock
    <3>1. {row \in info' : row.origin <= t} = {row \in info : row.origin <= t}
      BY <1>1, <1>2, <1>3, <2>2
    <3>2. Happened(truth', t) = Happened(truth, t)
      BY <1>1, <1>2, <1>4, <2>2 DEF Happened
    <3>3. asKnown'[t] = asKnown[t]
      BY <1>2, <2>2 DEF FeedInv, Moments
    <3> QED BY <1>2, <2>2, <3>1, <3>2, <3>3 DEF FeedInv
  <2> QED BY <2>1, <2>2
<1>7. clock' - 1 = clock
  BY <1>2
<1> QED BY <1>2, <1>5, <1>6, <1>7 DEF FeedInv

(* The backtest reads the feed and never writes it, and starts after it.   *)
LEMMA BacktestKeepsTheFeed ==
  FeedInv /\ (StartRolling \/ StartOrigins \/ Fit \/ FitRaises \/ Forecast \/ ForecastRaises)
    => FeedInv'
<1> SUFFICES ASSUME FeedInv,
                    StartRolling \/ StartOrigins \/ Fit \/ FitRaises \/ Forecast \/ ForecastRaises
             PROVE  FeedInv'
  OBVIOUS
<1>1. UNCHANGED feed
  BY DEF StartRolling, StartOrigins, Fit, FitRaises, Forecast, ForecastRaises, Begin, Raise
<1>2. clock > LastMoment
  BY DEF FeedInv, StartRolling, StartOrigins, Fit, FitRaises, Forecast, ForecastRaises
<1> QED BY <1>1, <1>2 DEF FeedInv, feed, Happened, Moments

(* So the feed is remembered as it was, in every behaviour.                *)
LEMMA FeedAlways == Spec => []FeedInv
<1>1. FeedInv /\ [Next]_vars => FeedInv'
  <2>1. FeedInv /\ UNCHANGED vars => FeedInv'
    BY DEF FeedInv, vars, feed, Happened, Moments
  <2> QED BY <2>1, LiveKeepsTheFeed, BacktestKeepsTheFeed DEF Next
<1> QED BY <1>1, FeedInitially, PTL DEF Spec

-----------------------------------------------------------------------------
(* Every fold is cut at its origin.                                        *)

(* A source of what had happened and been issued up to a moment.           *)
SourceUpTo(source, t) ==
  /\ source.origins \subseteq 0 .. t /\ source.origins # {}
  /\ \A row \in source.truth : row.event \in 0 .. t
  /\ \/ source.kind = "frame" /\ \A row \in source.info : "origin" \notin DOMAIN row
     \/ source.kind = "dataset"

IsCut(fold) ==
  /\ fold.origin \in 0 .. LastMoment
  /\ SourceUpTo(fold.train, fold.origin)
  /\ \A row \in fold.truth : row.event \in Int /\ fold.origin < row.event
  /\ fold.train.truth = Happened(truth, fold.origin)
  /\ fold.train.kind = "dataset" =>
       /\ fold.train.info = {row \in info : row.origin <= fold.origin}
       /\ fold.context = AtOrigin(Dataset(fold.context.static), fold.origin)

FoldInv ==
  /\ phase = "feed" => folds = {}
  /\ \A fold \in folds : IsCut(fold)

(* A fold of a rolling validation holds the outcomes up to its origin, and *)
(* is scored on later ones.                                                *)
LEMMA RollingFoldsAreCut ==
  ASSUME FeedInv, clock > LastMoment,
         NEW validation \in Validations, validation.mode = "rolling",
         NEW beyond, NEW static, truth # {},
         NEW origin \in RollingOrigins(validation, Frame(beyond, static)),
         FrameReaches(Frame(beyond, static), origin)
  PROVE  IsCut(RollingFold(Frame(beyond, static), origin))
<1> USE BacktestAssumption, PeriodAssumption
<1> DEFINE frame == Frame(beyond, static)
           last == Max(EventsIn(truth))
<1>1. frame.history = truth
  BY DEF Frame
<1>2. EventsIn(truth) \subseteq 0 .. LastMoment /\ EventsIn(truth) # {}
  BY DEF FeedInv, EventsIn
<1>3. last \in 0 .. LastMoment
  BY <1>2, GreatestIsOneOfThem
<1>4. PICK k \in 0 .. validation.windows - 1 :
        origin = Shift(last, -(Horizon + k * validation.stride))
  BY <1>1 DEF RollingOrigins
<1>5. k * validation.stride \in Nat
  <2>1. k \in Nat /\ validation.stride \in Nat
    OBVIOUS
  <2> QED BY <2>1
<1>6. origin \in Int /\ origin <= last
  <2> DEFINE back == Horizon + k * validation.stride
  <2>1. back \in Nat /\ Period \in Nat
    BY <1>5
  <2>2. origin = last + (-back) * Period
    BY <1>4 DEF Shift
  <2> HIDE DEF back, last
  <2>3. back * Period \in Nat
    BY <2>1
  <2>4. (-back) * Period = -(back * Period)
    BY <2>1
  <2> QED BY <1>3, <2>2, <2>3, <2>4
<1>7. \E row \in truth : row.event <= origin
  BY <1>1 DEF FrameReaches, FrameUpTo, Happened
<1>8. origin \in 0 .. LastMoment
  <2> HIDE DEF last
  <2>1. PICK row \in truth : row.event <= origin
    BY <1>7
  <2>2. row.event \in 0 .. LastMoment
    BY <1>2 DEF EventsIn
  <2> QED BY <1>3, <1>6, <2>1, <2>2
<1> DEFINE fold == RollingFold(frame, origin)
<1>9. fold.origin = origin /\ fold.train = FrameSource(FrameUpTo(frame, origin))
  BY DEF RollingFold
<1>10. fold.train.truth = Happened(truth, origin) /\ fold.train.kind = "frame"
  BY <1>1, <1>9 DEF FrameSource, FrameUpTo
<1>11. \A row \in fold.truth : row.event \in Int /\ origin < row.event
  BY <1>1, <1>2 DEF RollingFold, Outcomes, EventsIn
<1>12. SourceUpTo(fold.train, origin)
  <2>1. \A row \in Happened(truth, origin) : row.event \in 0 .. origin
    BY <1>2, <1>8 DEF Happened, EventsIn
  <2>2. fold.train.origins = EventsIn(Happened(truth, origin))
    BY <1>1, <1>9 DEF FrameSource, FrameUpTo
  <2>3. Happened(truth, origin) # {}
    BY <1>7 DEF Happened
  <2>4. \A row \in fold.train.info : "origin" \notin DOMAIN row
    <3>1. \A row \in frame.future : "origin" \notin DOMAIN row
      BY DEF Frame
    <3>2. \A rows1 : \A row \in Cells(rows1) : "origin" \notin DOMAIN row
      BY DEF Cells, CellOf
    <3>3. fold.train.info \subseteq Cells(Happened(truth, origin)) \cup Cells(truth) \cup frame.future
      BY <1>1, <1>9 DEF FrameSource, FrameUpTo, Ahead
    <3> QED BY <3>1, <3>2, <3>3
  <2> HIDE DEF fold
  <2> QED BY <1>10, <2>1, <2>2, <2>3, <2>4 DEF SourceUpTo, EventsIn
<1> QED BY <1>8, <1>9, <1>10, <1>11, <1>12 DEF IsCut

(* A fold of an origin validation holds what was issued and what had       *)
(* happened by its origin.                                                 *)
LEMMA OriginFoldsAreCut ==
  ASSUME FeedInv, clock > LastMoment, info # {},
         NEW validation \in Validations, validation.mode = "origins",
         NEW static,
         NEW origin \in Selected(validation.origins, Origins(Dataset(static)))
  PROVE  IsCut(OriginFold(Dataset(static), origin))
<1> USE BacktestAssumption
<1> DEFINE dataset == Dataset(static)
           fold == OriginFold(dataset, origin)
<1>1. dataset.info = info /\ dataset.truth = truth /\ dataset.static = static
  BY DEF Dataset
<1>2. Origins(dataset) \subseteq 0 .. LastMoment /\ Origins(dataset) # {}
  BY <1>1 DEF FeedInv, Origins
<1>3. origin \in 0 .. LastMoment
  BY <1>2, SelectedExist
<1>4. /\ fold.origin = origin
      /\ fold.train = DatasetSource(UpTo(dataset, origin))
      /\ fold.context = AtOrigin(dataset, origin)
  BY DEF OriginFold
<1>5. /\ fold.train.truth = Happened(truth, origin)
      /\ fold.train.info = {row \in info : row.origin <= origin}
  BY <1>1, <1>4 DEF DatasetSource, UpTo, IssuedBy
<1>6. fold.context.static = static
  BY <1>1, <1>4 DEF AtOrigin
<1>7. \A row \in fold.truth : row.event \in Int /\ origin < row.event
  BY <1>1 DEF OriginFold, Outcomes, FeedInv
<1>8. SourceUpTo(fold.train, origin)
  <2>1. \A row \in Happened(truth, origin) : row.event \in 0 .. origin
    BY <1>3 DEF Happened, FeedInv
  <2>2. fold.train.origins = {row.origin : row \in {r \in info : r.origin <= origin}}
    BY <1>1, <1>4 DEF DatasetSource, UpTo, IssuedBy, Origins
  <2>3. origin \in fold.train.origins /\ fold.train.origins \subseteq 0 .. origin
    <3>1. origin \in Origins(dataset)
      BY <1>2, SelectedExist
    <3>2. PICK row \in info : row.origin = origin
      BY <1>1, <3>1 DEF Origins
    <3>3. \A r \in info : r.origin \in 0 .. LastMoment
      BY <1>1, <1>2 DEF Origins
    <3> HIDE DEF fold
    <3> QED BY <1>3, <2>2, <3>2, <3>3
  <2>4. fold.train.kind = "dataset"
    BY <1>4 DEF DatasetSource
  <2> HIDE DEF fold
  <2> QED BY <1>5, <2>1, <2>3, <2>4 DEF SourceUpTo
<1> QED BY <1>3, <1>4, <1>5, <1>6, <1>7, <1>8 DEF IsCut

(* Every fold of every behaviour is cut at its origin.                     *)
LEMMA FoldsAlways == Spec => []FoldInv
<1>1. Init => FoldInv
  BY DEF Init, FoldInv
<1>2. FeedInv /\ FoldInv /\ [Next]_vars => FoldInv'
  <2> SUFFICES ASSUME FeedInv, FoldInv, [Next]_vars PROVE FoldInv'
    OBVIOUS
  <2>1. ASSUME UNCHANGED <<info, truth>>, folds' = folds, phase' # "feed" \/ phase' = phase
        PROVE  FoldInv'
    <3>1. \A fold \in folds : IsCut(fold) => IsCut(fold)'
      BY <2>1 DEF IsCut, Dataset
    <3> QED BY <2>1, <3>1 DEF FoldInv
  <2>2. CASE Live
    BY <2>2 DEF Live, FoldInv
  <2>3. CASE StartRolling
    <3>1. ASSUME Raise PROVE FoldInv'
      BY <3>1, <2>1 DEF Raise, feed
    <3>2. ASSUME NEW validation \in Validations, validation.mode = "rolling",
                 NEW list, NEW beyond, NEW static,
                 \A o \in RollingOrigins(validation, Frame(beyond, static)) :
                    FrameReaches(Frame(beyond, static), o),
                 Begin(list, {RollingFold(Frame(beyond, static), o) :
                                o \in RollingOrigins(validation, Frame(beyond, static))})
          PROVE  FoldInv'
      <4>1. /\ clock > LastMoment /\ truth # {}
        BY <2>3 DEF StartRolling
      <4>2. \A fold \in folds' : IsCut(fold)
        BY <3>2, <4>1, RollingFoldsAreCut DEF Begin
      <4>3. UNCHANGED <<info, truth>> /\ phase' = "run"
        BY <3>2 DEF Begin, feed
      <4> QED BY <4>2, <4>3 DEF FoldInv, IsCut, Dataset
    <3> QED BY <2>3, <3>1, <3>2 DEF StartRolling
  <2>4. CASE StartOrigins
    <3>1. ASSUME Raise PROVE FoldInv'
      BY <3>1, <2>1 DEF Raise, feed
    <3>2. ASSUME NEW validation \in Validations, validation.mode = "origins",
                 NEW list, NEW static,
                 Begin(list, {OriginFold(Dataset(static), o) :
                                o \in Selected(validation.origins, Origins(Dataset(static)))})
          PROVE  FoldInv'
      <4>1. /\ clock > LastMoment /\ info # {}
        BY <2>4 DEF StartOrigins
      <4>2. \A fold \in folds' : IsCut(fold)
        BY <3>2, <4>1, OriginFoldsAreCut DEF Begin
      <4>3. UNCHANGED <<info, truth>> /\ phase' = "run"
        BY <3>2 DEF Begin, feed
      <4> QED BY <4>2, <4>3 DEF FoldInv, IsCut, Dataset
    <3> QED BY <2>4, <3>1, <3>2 DEF StartOrigins
  <2>5. CASE Fit
    BY <2>1, <2>5 DEF Fit, feed
  <2>6. CASE FitRaises \/ ForecastRaises
    BY <2>1, <2>6 DEF FitRaises, ForecastRaises, Raise, feed
  <2>7. CASE Forecast
    BY <2>1, <2>7 DEF Forecast, Advance, feed
  <2>8. CASE UNCHANGED vars
    BY <2>1, <2>8 DEF vars, feed
  <2> QED BY <2>2, <2>3, <2>4, <2>5, <2>6, <2>7, <2>8 DEF Next
<1> QED BY <1>1, <1>2, FeedAlways, PTL DEF Spec

-----------------------------------------------------------------------------
(* What a dataset says at an origin is what its part up to the origin says *)
(* there.                                                                  *)
LEMMA ContextOfThePast ==
  ASSUME NEW rows1, NEW rows2, NEW static, NEW t \in Int,
         \A row \in rows1 : row.origin \in Int,
         \A row \in rows2 : row.event \in Int
  PROVE  AtOrigin([info |-> {row \in rows1 : row.origin <= t}, truth |-> Happened(rows2, t),
                   static |-> static], t)
           = AtOrigin([info |-> rows1, truth |-> rows2, static |-> static], t)
<1> DEFINE past == [info |-> {row \in rows1 : row.origin <= t}, truth |-> Happened(rows2, t),
                    static |-> static]
           whole == [info |-> rows1, truth |-> rows2, static |-> static]
           vintage == VintageOf(whole, t)
<1>1. VintageOf(past, t) = vintage
  BY DEF VintageOf
<1>2. Happened(Cells(Happened(rows2, t)) \cup Cells(vintage), t)
        = Happened(Cells(rows2) \cup Cells(vintage), t)
  BY DEF Happened, Cells, CellOf
<1>3. \A cell \in Happened(Cells(rows2) \cup Cells(vintage), t) :
        HistoryRow(cell, Happened(rows2, t), vintage) = HistoryRow(cell, rows2, vintage)
  <2> SUFFICES ASSUME NEW cell \in Happened(Cells(rows2) \cup Cells(vintage), t)
               PROVE  HistoryRow(cell, Happened(rows2, t), vintage) = HistoryRow(cell, rows2, vintage)
    OBVIOUS
  <2>1. cell.event <= t
    BY DEF Happened
  <2>2. \A row : CellOf(row) = cell => row.event = cell.event
    BY DEF CellOf
  <2>3. {row \in Happened(rows2, t) : CellOf(row) = cell} = {row \in rows2 : CellOf(row) = cell}
    BY <2>1, <2>2 DEF Happened
  <2> QED BY <2>3 DEF HistoryRow
<1> HIDE DEF vintage
<1>4. {HistoryRow(cell, Happened(rows2, t), vintage) :
         cell \in Happened(Cells(Happened(rows2, t)) \cup Cells(vintage), t)}
        = {HistoryRow(cell, rows2, vintage) : cell \in Happened(Cells(rows2) \cup Cells(vintage), t)}
  BY <1>2, <1>3
<1>5. past.truth = Happened(rows2, t) /\ whole.truth = rows2
      /\ past.static = static /\ whole.static = static
  OBVIOUS
<1>6. vintage = VintageOf(whole, t)
  BY DEF vintage
<1> DEFINE seen(cells, outcomes) == {HistoryRow(cell, outcomes, vintage) : cell \in cells}
           cellsOf(outcomes) == Happened(Cells(outcomes) \cup Cells(vintage), t)
           context(outcomes) == [origin |-> t, history |-> seen(cellsOf(outcomes), outcomes),
                                 future |-> Ahead(vintage, t), static |-> static]
<1> HIDE DEF past, whole
<1>7. AtOrigin(past, t) = context(Happened(rows2, t))
  BY <1>1, <1>5 DEF AtOrigin
<1>8. AtOrigin(whole, t) = context(rows2)
  BY <1>5, <1>6 DEF AtOrigin
<1>9. seen(cellsOf(Happened(rows2, t)), Happened(rows2, t)) = seen(cellsOf(rows2), rows2)
  BY <1>4
<1> HIDE DEF seen
<1>10. context(Happened(rows2, t)) = context(rows2)
  BY <1>9
<1> QED BY <1>7, <1>8, <1>10 DEF past, whole

(* Nothing that arrived after an origin, and no vintage issued before it,  *)
(* makes any difference to the fold of that origin: its training data and  *)
(* its context are what could have been cut from the feed at the time.     *)
(* forecast_dataset.py:92-213, frame.py:123-193.                           *)
THEOREM NoLookahead == Spec => []FoldsAreAsKnown
<1>1. FeedInv /\ FoldInv => FoldsAreAsKnown
  <2> SUFFICES ASSUME FeedInv, FoldInv, NEW fold \in folds
               PROVE  /\ fold.train.truth = asKnown[fold.origin].truth
                      /\ fold.train.kind = "dataset" =>
                           /\ fold.train.info = asKnown[fold.origin].info
                           /\ fold.context
                                = AtOrigin([info |-> asKnown[fold.origin].info,
                                            truth |-> asKnown[fold.origin].truth,
                                            static |-> fold.context.static], fold.origin)
    BY DEF FoldsAreAsKnown
  <2>1. IsCut(fold) /\ phase # "feed"
    BY DEF FoldInv
  <2>2. fold.origin \in 0 .. clock - 1 /\ fold.origin \in Int
    BY <2>1, BacktestAssumption DEF FeedInv, IsCut
  <2>3. asKnown[fold.origin] = [info |-> {row \in info : row.origin <= fold.origin},
                                truth |-> Happened(truth, fold.origin)]
    BY <2>2 DEF FeedInv
  <2>4. AtOrigin([info |-> {row \in info : row.origin <= fold.origin},
                  truth |-> Happened(truth, fold.origin),
                  static |-> fold.context.static], fold.origin)
          = AtOrigin(Dataset(fold.context.static), fold.origin)
    BY <2>2, ContextOfThePast DEF FeedInv, Dataset
  <2> QED BY <2>1, <2>3, <2>4 DEF IsCut
<1> QED BY <1>1, FeedAlways, FoldsAlways, PTL

-----------------------------------------------------------------------------
(* What a training view learns from.                                       *)

Learned(sample, t) ==
  /\ \A row \in sample.outcomes : row.event \in 0 .. t
  /\ sample.origin <= t
  /\ \A row \in sample.observed : sample.origin # NoOrigin => row.event <= sample.origin
  /\ \A row \in sample.known : "origin" \in DOMAIN row => row.origin = sample.origin

LearnedUpTo(view, t) == \A sample \in view : Learned(sample, t)

(* The vintage of an origin, of either kind of source, names no other      *)
(* origin.                                                                 *)
LEMMA VintageIsOfItsOrigin ==
  ASSUME NEW source, NEW t \in Nat, SourceUpTo(source, t), NEW origin \in source.origins \cup {NoOrigin},
         origin = NoOrigin => source.kind = "frame"
  PROVE  \A row \in Vintage(source, origin) : "origin" \in DOMAIN row => row.origin = origin
BY DEF Vintage, SourceUpTo

(* A training view of a source that ends at a moment has learned nothing   *)
(* past it, under any contract.                                            *)
LEMMA FitViewLearnsUpTo ==
  ASSUME NEW source, NEW t \in Nat, SourceUpTo(source, t),
         NEW contract \in Contracts, contract # "standing",
         NEW selection, selection.mode \in OriginModes,
         NEW context, NEW horizon
  PROVE  LearnedUpTo(FitView(source, contract, selection, context, horizon), t)
<1> DEFINE chosen == Selected(selection, source.origins)
<1>1. chosen \subseteq source.origins
  BY SelectedExist DEF SourceUpTo
<1>2. \A origin \in source.origins : origin <= t /\ origin # NoOrigin /\ origin \in Int
  BY DEF SourceUpTo, NoOrigin
<1>3. \A i, events : \A row \in AtCells(source.truth, i, events) : row.event \in 0 .. t
  BY DEF AtCells, SourceUpTo
<1>4. \A rows1, i, events : AtCells(rows1, i, events) \subseteq rows1
  BY DEF AtCells
<1>5. \A rows1, o : \A row \in Observable(rows1, o) : o # NoOrigin => row.event <= o
  BY DEF Observable, Happened
<1> HIDE DEF chosen
<1>6. CASE contract = "series"
  <2> DEFINE origins == SeriesOrigins(source, selection)
  <2>1. \A o \in origins : /\ o \in source.origins \cup {NoOrigin} /\ o <= t
                           /\ o = NoOrigin => source.kind = "frame"
    BY <1>1, <1>2 DEF SeriesOrigins, NoOrigin, chosen
  <2>2. ASSUME NEW i, NEW o \in origins PROVE Learned(SeriesSample(source, i, o), t)
    <3> DEFINE sample == SeriesSample(source, i, o)
    <3>1. sample.origin = o
      BY DEF SeriesSample
    <3>2. \A row \in sample.outcomes : row.event \in 0 .. t
      BY <1>3 DEF SeriesSample
    <3>3. \A row \in sample.known : row \in Vintage(source, o)
      BY <1>4 DEF SeriesSample
    <3>4. \A row \in sample.observed : o # NoOrigin => row.event <= o
      BY <1>5 DEF SeriesSample
    <3>5. \A row \in sample.known : "origin" \in DOMAIN row => row.origin = o
      BY <2>1, <3>3, VintageIsOfItsOrigin
    <3> HIDE DEF sample
    <3>6. Learned(sample, t)
      BY <2>1, <3>1, <3>2, <3>4, <3>5 DEF Learned
    <3> QED BY <3>6 DEF sample
  <2>3. \A o : \A sample \in SeriesSamples(source, o) : \E i : sample = SeriesSample(source, i, o)
    BY DEF SeriesSamples
  <2>4. \A sample \in FitView(source, contract, selection, context, horizon) :
           \E o \in origins : sample \in SeriesSamples(source, o)
    BY <1>6 DEF FitView
  <2> QED BY <2>2, <2>3, <2>4 DEF LearnedUpTo
<1>7. CASE contract = "sequences"
  <2>1. FitView(source, contract, selection, context, horizon)
          = SequenceSamples(source, chosen, context, horizon)
    BY <1>7 DEF FitView, chosen
  <2>2. ASSUME NEW i, NEW o \in chosen
        PROVE  Learned(SequenceSample(source, i, o, context, horizon), t)
    <3> DEFINE sample == SequenceSample(source, i, o, context, horizon)
    <3>1. sample.origin = o
      BY DEF SequenceSample
    <3>2. \A row \in sample.outcomes : row.event \in 0 .. t
      BY <1>3 DEF SequenceSample
    <3>3. \A row \in sample.known : row \in Vintage(source, o)
      BY <1>4 DEF SequenceSample
    <3>4. \A row \in sample.observed : o # NoOrigin => row.event <= o
      BY <1>5 DEF SequenceSample
    <3>5. \A row \in sample.known : "origin" \in DOMAIN row => row.origin = o
      BY <1>1, <1>2, <3>3, VintageIsOfItsOrigin
    <3> HIDE DEF sample
    <3>6. Learned(sample, t)
      BY <1>1, <1>2, <3>1, <3>2, <3>4, <3>5 DEF Learned
    <3> QED BY <3>6 DEF sample
  <2>3. \A sample \in SequenceSamples(source, chosen, context, horizon) :
           \E i, o : o \in chosen /\ sample = SequenceSample(source, i, o, context, horizon)
    BY DEF SequenceSamples
  <2> QED BY <2>1, <2>2, <2>3 DEF LearnedUpTo
<1>8. CASE contract = "tabular"
  <2>1. FitView(source, contract, selection, context, horizon)
          = TabularSamples(source, chosen, horizon)
    BY <1>8 DEF FitView, chosen
  <2>2. ASSUME NEW i, NEW o \in chosen, NEW moment
        PROVE  Learned(TabularSample(source, i, o, moment), t)
    <3> DEFINE sample == TabularSample(source, i, o, moment)
    <3>1. sample.origin = o /\ sample.observed = {}
      BY DEF TabularSample
    <3>2. \A row \in sample.outcomes : row.event \in 0 .. t
      BY <1>3 DEF TabularSample
    <3>3. \A row \in sample.known : row \in Vintage(source, o)
      BY <1>4 DEF TabularSample
    <3>4. \A row \in sample.known : "origin" \in DOMAIN row => row.origin = o
      BY <1>1, <1>2, <3>3, VintageIsOfItsOrigin
    <3> HIDE DEF sample
    <3>5. Learned(sample, t)
      BY <1>1, <1>2, <3>1, <3>2, <3>4 DEF Learned
    <3> QED BY <3>5 DEF sample
  <2>3. \A sample \in TabularSamples(source, chosen, horizon) :
           \E i, o, moment : o \in chosen /\ sample = TabularSample(source, i, o, moment)
    <3> SUFFICES ASSUME NEW sample \in TabularSamples(source, chosen, horizon)
                 PROVE  \E i, o, moment : o \in chosen /\ sample = TabularSample(source, i, o, moment)
      OBVIOUS
    <3>1. PICK p \in source.instances \X chosen :
            sample \in {TabularSample(source, p[1], p[2], u) : u \in Supported(source, p[1], p[2], horizon)}
      BY DEF TabularSamples
    <3>2. PICK u : sample = TabularSample(source, p[1], p[2], u)
      BY <3>1
    <3> QED BY <3>1, <3>2
  <2> QED BY <2>1, <2>2, <2>3 DEF LearnedUpTo
<1> QED BY <1>6, <1>7, <1>8 DEF Contracts

(* A run has folds to do, is at a candidate, and the artifact it forecasts *)
(* with was fitted on what was known at the origin it is at.               *)
RunInv ==
  /\ \E views : published \in Seq(views)
  /\ executed \in {Unfitted, Standing} \cup 1 .. Len(published)
  /\ phase = "feed" => folds = {} /\ executed = Unfitted
  /\ pending \subseteq {fold.origin : fold \in folds}
  /\ phase = "run" =>
       /\ pending # {} /\ models \in ModelLists /\ candidate \in 1 .. Len(models)
       /\ executed \in 1 .. Len(published) => LearnedUpTo(published[executed], Min(pending))

(* What was scored was learned before its origin and happened after it.    *)
ScoredInv ==
  \A p \in predictions :
    /\ p.fold \in Nat
    /\ p.artifact \in {Standing} \cup 1 .. Len(published)
    /\ p.artifact # Standing => LearnedUpTo(published[p.artifact], p.fold)
    /\ \A row \in p.actual : row.event \in Int /\ p.fold < row.event

(* A view that is published takes the next number, and leaves the others   *)
(* theirs.                                                                 *)
LEMMA AppendKeeps ==
  ASSUME NEW views, NEW s \in Seq(views), NEW e
  PROVE  /\ \E more : Append(s, e) \in Seq(more)
         /\ Len(Append(s, e)) = Len(s) + 1 /\ Len(s) \in Nat
         /\ \A k \in 1 .. Len(s) : Append(s, e)[k] = s[k]
         /\ Append(s, e)[Len(s) + 1] = e
<1>1. s \in Seq(views \cup {e}) /\ e \in views \cup {e}
  OBVIOUS
<1>2. Append(s, e) \in Seq(views \cup {e})
  BY <1>1
<1> QED BY <1>1, <1>2

(* The fold being measured is the one cut at the earliest pending origin.  *)
LEMMA FoldIsOfThePending ==
  ASSUME FoldInv, RunInv, phase = "run"
  PROVE  /\ Fold \in folds /\ Fold.origin = Min(pending) /\ Min(pending) \in pending
         /\ Min(pending) \in Nat /\ IsCut(Fold)
<1>1. pending \subseteq Nat /\ pending # {}
  BY BacktestAssumption DEF FoldInv, RunInv, IsCut
<1>2. Min(pending) \in pending
  BY <1>1, LeastIsOneOfThem
<1>3. \E fold \in folds : fold.origin = Min(pending)
  BY <1>2 DEF RunInv
<1>4. Fold \in folds /\ Fold.origin = Min(pending)
  BY <1>3 DEF Fold
<1> QED BY <1>1, <1>2, <1>4 DEF FoldInv

(* A fit at a fold learns from the training source of that fold.           *)
LEMMA FitKeeps ==
  ASSUME FoldInv, RunInv, ScoredInv, Fit
  PROVE  RunInv' /\ ScoredInv'
<1>1. /\ phase = "run" /\ executed = Unfitted
      /\ UNCHANGED <<phase, models, folds, candidate, pending, predictions>>
  BY DEF Fit, results
<1>2. CASE Model.contract = "standing"
  <2>1. executed' = Standing /\ UNCHANGED published
    BY <1>2 DEF Fit, results
  <2>2. Standing \notin 1 .. Len(published)
    BY DEF Standing
  <2> QED BY <1>1, <2>1, <2>2 DEF RunInv, ScoredInv
<1>3. CASE Model.contract # "standing"
  <2> DEFINE view == FitView(Fold.train, Model.contract, Model.selection, Model.context, Horizon)
  <2>1. published' = Append(published, view) /\ executed' = Len(published) + 1
    BY <1>3 DEF Fit
  <2>2. Model.contract \in Contracts /\ Model.selection.mode \in OriginModes
    BY <1>1, BacktestAssumption DEF RunInv, Model
  <2>3. Fold.origin = Min(pending) /\ SourceUpTo(Fold.train, Fold.origin) /\ Fold.origin \in Nat
    BY <1>1, FoldIsOfThePending DEF IsCut
  <2>4. LearnedUpTo(view, Min(pending))
    BY <1>3, <2>2, <2>3, FitViewLearnsUpTo
  <2> HIDE DEF view
  <2>5. PICK views : published \in Seq(views)
    BY DEF RunInv
  <2>6. /\ \E more : published' \in Seq(more)
        /\ Len(published') = Len(published) + 1 /\ Len(published) \in Nat
        /\ \A k \in 1 .. Len(published) : published'[k] = published[k]
        /\ published'[Len(published) + 1] = view
    <3>1. /\ \E more : Append(published, view) \in Seq(more)
          /\ Len(Append(published, view)) = Len(published) + 1 /\ Len(published) \in Nat
          /\ \A k \in 1 .. Len(published) : Append(published, view)[k] = published[k]
          /\ Append(published, view)[Len(published) + 1] = view
      BY <2>5, AppendKeeps, Zenon
    <3> QED BY <2>1, <3>1, Zenon
  <2>7. executed' \in 1 .. Len(published') /\ published'[executed'] = view
    BY <2>1, <2>6
  <2>8. RunInv'
    BY <1>1, <2>4, <2>6, <2>7 DEF RunInv
  <2>9. ScoredInv'
    <3> SUFFICES ASSUME NEW p \in predictions
                 PROVE  /\ p.fold \in Nat
                        /\ p.artifact \in {Standing} \cup 1 .. Len(published')
                        /\ p.artifact # Standing => LearnedUpTo(published'[p.artifact], p.fold)
                        /\ \A row \in p.actual : row.event \in Int /\ p.fold < row.event
      BY <1>1 DEF ScoredInv
    <3>1. /\ p.fold \in Nat
          /\ p.artifact \in {Standing} \cup 1 .. Len(published)
          /\ p.artifact # Standing => LearnedUpTo(published[p.artifact], p.fold)
          /\ \A row \in p.actual : row.event \in Int /\ p.fold < row.event
      BY DEF ScoredInv
    <3> QED BY <2>6, <3>1
  <2> QED BY <2>8, <2>9
<1> QED BY <1>2, <1>3

(* A forecast scores what the artifact of this fold could not have learned,*)
(* and passes on to a fold that waits.                                     *)
LEMMA ForecastKeeps ==
  ASSUME FoldInv, RunInv, ScoredInv, Forecast
  PROVE  RunInv' /\ ScoredInv'
<1>1. /\ phase = "run" /\ executed # Unfitted
      /\ UNCHANGED <<models, folds, published>>
  BY DEF Forecast
<1>a. PICK silent : predictions' = predictions \cup Predicted(silent)
  BY DEF Forecast
<1>2. Advance
  BY DEF Forecast
<1>3. /\ Fold.origin = Min(pending) /\ Fold.origin \in Nat /\ Fold \in folds
      /\ \A row \in Fold.truth : row.event \in Int /\ Fold.origin < row.event
  BY <1>1, FoldIsOfThePending DEF IsCut
<1>4. RunInv'
  <2>1. executed' = Unfitted /\ Unfitted \notin 1 .. Len(published) /\ phase' # "feed"
    BY <1>1, <1>2 DEF Advance, Unfitted
  <2>2. pending' \subseteq {fold.origin : fold \in folds}
    BY <1>2 DEF Advance, RunInv
  <2>3. ASSUME phase' = "run" PROVE pending' # {} /\ candidate' \in 1 .. Len(models)
    <3>1. models \in ModelLists /\ candidate \in 1 .. Len(models) /\ Len(models) \in Nat
      BY <1>1, BacktestAssumption DEF RunInv
    <3>2. {fold.origin : fold \in folds} # {}
      BY <1>3
    <3> DEFINE left == pending \ {Min(pending)}
    <3>3. CASE left # {}
      BY <1>2, <3>1, <3>3 DEF Advance
    <3>4. CASE left = {} /\ candidate < Len(models)
      <4>1. candidate' = candidate + 1 /\ pending' = {fold.origin : fold \in folds}
        BY <1>2, <3>4 DEF Advance
      <4> QED BY <3>1, <3>2, <3>4, <4>1
    <3>5. CASE left = {} /\ ~(candidate < Len(models))
      <4>1. phase' = "done"
        BY <1>2, <3>5 DEF Advance
      <4> QED BY <2>3, <4>1
    <3> QED BY <3>3, <3>4, <3>5
  <2> QED BY <1>1, <2>1, <2>2, <2>3 DEF RunInv
<1>5. ScoredInv'
  <2>1. \A p \in Predicted(silent) :
          /\ p.fold = Fold.origin /\ p.artifact = executed
          /\ \A row \in p.actual : row \in Fold.truth
    <3>1. \A p \in Predicted(silent) : \E cell, step, answered : p = Prediction(cell, step, answered)
      BY DEF Predicted
    <3> QED BY <3>1 DEF Prediction
  <2>2. executed \in {Standing} \cup 1 .. Len(published)
    BY <1>1 DEF RunInv
  <2>3. executed # Standing => LearnedUpTo(published[executed], Fold.origin)
    BY <1>1, <1>3, <2>2 DEF RunInv
  <2>4. \A p \in Predicted(silent) :
          /\ p.fold \in Nat
          /\ p.artifact \in {Standing} \cup 1 .. Len(published)
          /\ p.artifact # Standing => LearnedUpTo(published[p.artifact], p.fold)
          /\ \A row \in p.actual : row.event \in Int /\ p.fold < row.event
    BY <1>3, <2>1, <2>2, <2>3
  <2> QED BY <1>1, <1>a, <2>4 DEF ScoredInv
<1> QED BY <1>4, <1>5

(* A run begins with its first candidate, every fold pending and nothing   *)
(* fitted.                                                                 *)
LEMMA BeginKeeps ==
  ASSUME RunInv, ScoredInv, phase = "feed", NEW list \in ModelLists, NEW cut, cut # {}, Begin(list, cut)
  PROVE  RunInv' /\ ScoredInv'
<1>1. /\ models' = list /\ folds' = cut /\ candidate' = 1 /\ phase' = "run"
      /\ pending' = {fold.origin : fold \in cut}
      /\ UNCHANGED <<executed, published, predictions>>
  BY DEF Begin, results
<1>2. executed = Unfitted /\ Unfitted \notin 1 .. Len(published)
  BY DEF RunInv, Unfitted
<1>3. 1 \in 1 .. Len(list)
  BY BacktestAssumption
<1> QED BY <1>1, <1>2, <1>3 DEF RunInv, ScoredInv

(* Both hold of every behaviour.                                           *)
LEMMA RunAlways == Spec => [](RunInv /\ ScoredInv)
<1>1. Init => RunInv /\ ScoredInv
  <2> SUFFICES ASSUME Init PROVE RunInv /\ ScoredInv
    OBVIOUS
  <2>1. published \in Seq({})
    BY DEF Init
  <2> QED BY <2>1 DEF Init, RunInv, ScoredInv
<1>2. FeedInv /\ FoldInv /\ RunInv /\ ScoredInv /\ [Next]_vars => RunInv' /\ ScoredInv'
  <2> SUFFICES ASSUME FeedInv, FoldInv, RunInv, ScoredInv, [Next]_vars
               PROVE  RunInv' /\ ScoredInv'
    OBVIOUS
  <2>1. ASSUME UNCHANGED <<models, folds, progress, results>>, phase' = phase
        PROVE  RunInv' /\ ScoredInv'
    BY <2>1 DEF RunInv, ScoredInv, progress, results
  <2>2. ASSUME Raise PROVE RunInv' /\ ScoredInv'
    BY <2>2 DEF Raise, RunInv, ScoredInv, progress, results
  <2>3. CASE Live
    BY <2>1, <2>3 DEF Live
  <2>4. CASE StartRolling
    <3>1. ASSUME NEW validation \in Validations, validation.mode = "rolling",
                 NEW list \in ModelLists, NEW beyond, NEW static,
                 Begin(list, {RollingFold(Frame(beyond, static), o) :
                                o \in RollingOrigins(validation, Frame(beyond, static))})
          PROVE  RunInv' /\ ScoredInv'
      <4>1. 0 \in 0 .. validation.windows - 1
        BY <3>1, BacktestAssumption
      <4>2. RollingOrigins(validation, Frame(beyond, static)) # {}
        BY <4>1 DEF RollingOrigins
      <4>3. {RollingFold(Frame(beyond, static), o) :
               o \in RollingOrigins(validation, Frame(beyond, static))} # {}
        BY <4>2
      <4> QED BY <2>4, <3>1, <4>3, BeginKeeps DEF StartRolling
    <3> QED BY <2>2, <2>4, <3>1 DEF StartRolling
  <2>5. CASE StartOrigins
    <3>1. ASSUME NEW validation \in Validations,
                 NEW list \in ModelLists, NEW static,
                 Selected(validation.origins, Origins(Dataset(static))) # {},
                 Begin(list, {OriginFold(Dataset(static), o) :
                                o \in Selected(validation.origins, Origins(Dataset(static)))})
          PROVE  RunInv' /\ ScoredInv'
      <4>1. {OriginFold(Dataset(static), o) :
               o \in Selected(validation.origins, Origins(Dataset(static)))} # {}
        BY <3>1
      <4> QED BY <2>5, <3>1, <4>1, BeginKeeps DEF StartOrigins
    <3> QED BY <2>2, <2>5, <3>1 DEF StartOrigins
  <2>6. CASE Fit
    BY <2>6, FitKeeps
  <2>7. CASE FitRaises \/ ForecastRaises
    BY <2>2, <2>7 DEF FitRaises, ForecastRaises
  <2>8. CASE Forecast
    BY <2>8, ForecastKeeps
  <2>9. CASE UNCHANGED vars
    BY <2>1, <2>9 DEF vars
  <2> QED BY <2>3, <2>4, <2>5, <2>6, <2>7, <2>8, <2>9 DEF Next
<1> QED BY <1>1, <1>2, FeedAlways, FoldsAlways, PTL DEF Spec

(* No artifact has seen what it is scored on: at every fold and under      *)
(* every contract, its training view holds no outcome after the origin, of *)
(* each vintage only what a sample's own origin could see, and none of the *)
(* outcomes its forecast is compared with. views/planner.py:195-518,       *)
(* views/_sources.py:97-142, evaluation/backtest.py:457-589.               *)
THEOREM NothingScoredWasLearned == Spec => []LearnedBeforeTheOrigin
<1>1. ScoredInv => LearnedBeforeTheOrigin
  <2> SUFFICES ASSUME ScoredInv,
                      NEW p \in predictions, p.artifact # Standing,
                      NEW sample \in published[p.artifact]
               PROVE  /\ \A row \in sample.outcomes : row.event <= p.fold
                      /\ p.actual \cap sample.outcomes = {}
                      /\ sample.origin <= p.fold
                      /\ \A row \in sample.observed :
                            sample.origin # NoOrigin => row.event <= sample.origin
                      /\ \A row \in sample.known :
                            "origin" \in DOMAIN row => row.origin = sample.origin
    BY DEF LearnedBeforeTheOrigin
  <2>1. Learned(sample, p.fold) /\ p.fold \in Nat
    BY DEF ScoredInv, LearnedUpTo
  <2>2. \A row \in sample.outcomes : row.event \in 0 .. p.fold
    BY <2>1 DEF Learned
  <2>3. \A row \in p.actual : row.event \in Int /\ p.fold < row.event
    BY DEF ScoredInv
  <2>4. p.actual \cap sample.outcomes = {}
    BY <2>1, <2>2, <2>3
  <2> QED BY <2>1, <2>2, <2>4 DEF Learned
<1> QED BY <1>1, RunAlways, PTL

-----------------------------------------------------------------------------
(* What a fold says of its own origin. *)
Grid == [instance : Instance, event : 0 .. LastMoment]

FromItsOrigin(fold) ==
  /\ fold.context.origin \in Int
  /\ \A row \in fold.context.future : "origin" \in DOMAIN row => row.origin = fold.origin
  /\ \A row \in fold.truth : fold.origin < row.event /\ row.event <= Shift(fold.origin, Horizon)
  /\ Cells(fold.truth) \subseteq Grid

FoldOriginInv ==
  /\ \A fold \in folds : FromItsOrigin(fold)
  /\ \A fold, other \in folds : fold.origin = other.origin => fold = other

(* What was recorded is of an instance, at a moment of the feed.           *)
LEMMA RecordedOnTheGrid ==
  ASSUME FeedInv, NEW after, NEW horizon
  PROVE  Cells(Outcomes(truth, after, horizon)) \subseteq Grid
<1>1. 0 .. clock - 1 \subseteq 0 .. LastMoment
  BY BacktestAssumption DEF FeedInv
<1> QED BY <1>1 DEF FeedInv, Outcomes, Cells, CellOf, Grid

(* A frame has no vintages, so what a rolling fold knows of the future     *)
(* names no origin at all.                                                 *)
LEMMA RollingFoldsSpeakOfTheirOrigin ==
  ASSUME FeedInv, NEW beyond, NEW static, NEW origin,
         FrameReaches(Frame(beyond, static), origin)
  PROVE  FromItsOrigin(RollingFold(Frame(beyond, static), origin))
<1> USE BacktestAssumption
<1> DEFINE frame == Frame(beyond, static)
           past == FrameUpTo(frame, origin)
           fold == RollingFold(frame, origin)
<1>1. frame.history = truth /\ past.history = Happened(truth, origin) /\ past.history # {}
  BY DEF Frame, FrameUpTo, FrameReaches
<1>2. /\ EventsIn(Happened(truth, origin)) \subseteq 0 .. LastMoment
      /\ EventsIn(Happened(truth, origin)) # {}
  <2>1. \A row \in Happened(truth, origin) : row.event \in 0 .. LastMoment
    BY DEF FeedInv, Happened
  <2>2. Happened(truth, origin) # {}
    BY <1>1
  <2> QED BY <2>1, <2>2 DEF EventsIn
<1>3. Max(EventsIn(past.history)) \in Int
  <2>1. Max(EventsIn(Happened(truth, origin))) \in Int
    BY <1>2, GreatestIsOneOfThem
  <2> QED BY <1>1, <2>1
<1>4. fold.origin = origin /\ fold.context = ContextOf(past)
  BY DEF RollingFold
<1>5. fold.context.origin \in Int
  BY <1>3, <1>4 DEF ContextOf
<1>6. \A row \in fold.context.future : "origin" \notin DOMAIN row
  <2>1. \A row \in frame.future : "origin" \notin DOMAIN row
    BY DEF Frame
  <2>2. \A rows1 : \A row \in Cells(rows1) : "origin" \notin DOMAIN row
    BY DEF Cells, CellOf
  <2>3. fold.context.future \subseteq Cells(truth) \cup frame.future
    BY <1>1, <1>4 DEF ContextOf, FrameUpTo, Ahead
  <2> QED BY <2>1, <2>2, <2>3
<1>7. \A row \in fold.truth : origin < row.event /\ row.event <= Shift(origin, Horizon)
  BY DEF RollingFold, Outcomes
<1>8. Cells(fold.truth) \subseteq Grid
  BY <1>1, RecordedOnTheGrid DEF RollingFold
<1> QED BY <1>4, <1>5, <1>6, <1>7, <1>8 DEF FromItsOrigin

(* A fold of a dataset knows of the future what its own vintage says.      *)
LEMMA OriginFoldsSpeakOfTheirOrigin ==
  ASSUME FeedInv, NEW static, NEW origin \in Int
  PROVE  FromItsOrigin(OriginFold(Dataset(static), origin))
<1> DEFINE fold == OriginFold(Dataset(static), origin)
<1>1. Cells(fold.truth) \subseteq Grid
  BY RecordedOnTheGrid DEF OriginFold, Dataset
<1>2. fold.truth = Outcomes(truth, origin, Horizon) /\ fold.origin = origin
  BY DEF OriginFold, Dataset
<1>3. \A row \in fold.truth : fold.origin < row.event /\ row.event <= Shift(fold.origin, Horizon)
  BY <1>2 DEF Outcomes
<1>4. /\ fold.context.origin \in Int
      /\ \A row \in fold.context.future : "origin" \in DOMAIN row => row.origin = fold.origin
  BY DEF OriginFold, AtOrigin, VintageOf, Ahead
<1> QED BY <1>1, <1>3, <1>4 DEF FromItsOrigin

(* It holds of every fold, and no two folds share an origin.               *)
LEMMA FoldOriginsAlways == Spec => []FoldOriginInv
<1>1. Init => FoldOriginInv
  BY DEF Init, FoldOriginInv
<1>2. FeedInv /\ FoldOriginInv /\ [Next]_vars => FoldOriginInv'
  <2> SUFFICES ASSUME FeedInv, FoldOriginInv, [Next]_vars PROVE FoldOriginInv'
    OBVIOUS
  <2>1. ASSUME folds' = folds PROVE FoldOriginInv'
    BY <2>1 DEF FoldOriginInv, FromItsOrigin
  <2>2. CASE StartRolling
    <3>1. CASE Raise
      BY <2>1, <3>1 DEF Raise
    <3>2. ASSUME NEW validation \in Validations, NEW list, NEW beyond, NEW static,
                 \A o \in RollingOrigins(validation, Frame(beyond, static)) :
                    FrameReaches(Frame(beyond, static), o),
                 Begin(list, {RollingFold(Frame(beyond, static), o) :
                                o \in RollingOrigins(validation, Frame(beyond, static))})
          PROVE  FoldOriginInv'
      <4>1. folds' = {RollingFold(Frame(beyond, static), o) :
                        o \in RollingOrigins(validation, Frame(beyond, static))}
        BY <3>2 DEF Begin
      <4>2. \A fold \in folds' : FromItsOrigin(fold)
        BY <3>2, <4>1, RollingFoldsSpeakOfTheirOrigin
      <4>3. \A o : RollingFold(Frame(beyond, static), o).origin = o
        BY DEF RollingFold
      <4>4. \A fold, other \in folds' : fold.origin = other.origin => fold = other
        BY <4>1, <4>3
      <4> QED BY <4>2, <4>4 DEF FoldOriginInv, FromItsOrigin
    <3> QED BY <2>2, <3>1, <3>2 DEF StartRolling
  <2>3. CASE StartOrigins
    <3>1. CASE Raise
      BY <2>1, <3>1 DEF Raise
    <3>2. ASSUME NEW validation \in Validations, validation.mode = "origins", NEW list, NEW static,
                 Begin(list, {OriginFold(Dataset(static), o) :
                                o \in Selected(validation.origins, Origins(Dataset(static)))})
          PROVE  FoldOriginInv'
      <4>1. folds' = {OriginFold(Dataset(static), o) :
                        o \in Selected(validation.origins, Origins(Dataset(static)))}
        BY <3>2 DEF Begin
      <4>2. Selected(validation.origins, Origins(Dataset(static))) \subseteq Int
        <5>1. Origins(Dataset(static)) \subseteq 0 .. LastMoment /\ Origins(Dataset(static)) # {}
          BY <2>3, BacktestAssumption DEF FeedInv, Origins, Dataset, StartOrigins
        <5> QED BY <3>2, <5>1, SelectedExist, BacktestAssumption
      <4>3. \A fold \in folds' : FromItsOrigin(fold)
        BY <4>1, <4>2, OriginFoldsSpeakOfTheirOrigin
      <4>4. \A o : OriginFold(Dataset(static), o).origin = o
        BY DEF OriginFold
      <4>5. \A fold, other \in folds' : fold.origin = other.origin => fold = other
        BY <4>1, <4>4
      <4> QED BY <4>3, <4>5 DEF FoldOriginInv, FromItsOrigin
    <3> QED BY <2>3, <3>1, <3>2 DEF StartOrigins
  <2>4. CASE Live \/ Fit \/ FitRaises \/ Forecast \/ ForecastRaises \/ UNCHANGED vars
    BY <2>1, <2>4 DEF Live, Fit, FitRaises, Forecast, ForecastRaises, Raise, vars
  <2> QED BY <2>2, <2>3, <2>4 DEF Next
<1> QED BY <1>1, <1>2, FeedAlways, PTL DEF Spec

-----------------------------------------------------------------------------
(* A forecast has a cell for every instance of its context, at every step. *)
LEMMA CellsAreAhead ==
  ASSUME NEW context, NEW horizon, NEW cell \in ForecastCells(context, horizon)
  PROVE  /\ cell.event \in ForecastWindow(context.origin, horizon)
         /\ cell.instance \in InstancesIn(context.history)
         /\ cell.values \subseteq context.future
<1> DEFINE At(i, t) == [instance |-> i, event |-> t, values |-> AtCells(context.future, i, {t})]
<1>1. \A i, t : At(i, t).event = t /\ At(i, t).instance = i /\ At(i, t).values \subseteq context.future
  BY DEF AtCells
<1>2. cell \in {At(i, t) : i \in InstancesIn(context.history),
                          t \in ForecastWindow(context.origin, horizon)}
  BY DEF ForecastCells
<1> HIDE DEF At
<1> QED BY <1>1, <1>2

(* A forecast of some instance has a cell at every step of the window.     *)
LEMMA EventsOfAForecast ==
  ASSUME NEW context, NEW horizon, NEW i \in InstancesIn(context.history)
  PROVE  EventsIn(ForecastCells(context, horizon)) = ForecastWindow(context.origin, horizon)
<1> DEFINE At(t) == [instance |-> i, event |-> t, values |-> AtCells(context.future, i, {t})]
<1>1. \A t \in ForecastWindow(context.origin, horizon) : At(t) \in ForecastCells(context, horizon)
  BY DEF ForecastCells
<1>2. \A t : At(t).event = t
  OBVIOUS
<1>3. \A cell \in ForecastCells(context, horizon) :
        cell.event \in ForecastWindow(context.origin, horizon)
  BY CellsAreAhead
<1> HIDE DEF At
<1> QED BY <1>1, <1>2, <1>3 DEF EventsIn

(* The steps of a forecast are counted by its cells.                       *)
LEMMA StepsAreCounted ==
  ASSUME NEW context, context.origin \in Int, NEW cell \in ForecastCells(context, Horizon)
  PROVE  cell.event = Shift(context.origin,
           Cardinality({t \in EventsIn(ForecastCells(context, Horizon)) : t <= cell.event}))
<1> DEFINE o == context.origin
           at(k) == o + k * Period
<1>a. Horizon \in Nat /\ Period \in Nat \ {0}
  BY BacktestAssumption, PeriodAssumption
<1>1. PICK n \in 1 .. Horizon : cell.event = at(n)
  <2>1. cell.event \in ForecastWindow(o, Horizon)
    BY CellsAreAhead
  <2> QED BY <2>1 DEF ForecastWindow, Shift
<1>2. EventsIn(ForecastCells(context, Horizon)) = {at(k) : k \in 1 .. Horizon}
  <2>1. EventsIn(ForecastCells(context, Horizon)) = ForecastWindow(o, Horizon)
    BY CellsAreAhead, EventsOfAForecast
  <2> QED BY <2>1 DEF ForecastWindow, Shift
<1>3. \A k, m \in 1 .. Horizon : (at(k) <= at(m) <=> k <= m) /\ at(k) \in Int
  <2> SUFFICES ASSUME NEW k \in 1 .. Horizon, NEW m \in 1 .. Horizon
               PROVE  (at(k) <= at(m) <=> k <= m) /\ at(k) \in Int
    OBVIOUS
  <2>1. k * Period \in Int /\ m * Period \in Int
    BY <1>a
  <2>2. k <= m => k * Period <= m * Period
    BY <1>a
  <2>3. m < k => m * Period < k * Period
    BY <1>a
  <2> QED BY <2>1, <2>2, <2>3
<1>4. {t \in {at(k) : k \in 1 .. Horizon} : t <= at(n)} = {at(k) : k \in 1 .. n}
  <2> HIDE DEF at
  <2> QED BY <1>a, <1>3
<1>5. Cardinality({at(k) : k \in 1 .. n}) = n
  <2> DEFINE f == [k \in 1 .. n |-> at(k)]
  <2>1. f \in Bijection(1 .. n, {at(k) : k \in 1 .. n})
    <3>1. \A k, m \in 1 .. n : at(k) = at(m) => k = m
      <4> HIDE DEF at
      <4>1. \A k, m \in 1 .. n : at(k) = at(m) => k <= m /\ m <= k
        BY <1>a, <1>3
      <4> QED BY <4>1
    <3> HIDE DEF at
    <3> QED BY <3>1 DEF Bijection, Injection, Surjection, IsInjective
  <2>2. ExistsBijection(1 .. n, {at(k) : k \in 1 .. n})
    BY <2>1 DEF ExistsBijection
  <2>3. IsFiniteSet(1 .. n) /\ Cardinality(1 .. n) = n
    BY FS_Interval
  <2> QED BY <2>2, <2>3, FS_Bijection
<1> HIDE DEF at
<1>6. Cardinality({t \in EventsIn(ForecastCells(context, Horizon)) : t <= cell.event}) = n
  BY <1>1, <1>2, <1>4, <1>5
<1> QED BY <1>1, <1>6 DEF Shift, at

-----------------------------------------------------------------------------
(* What a fold makes of any candidate: the cells and steps that it is      *)
(* asked for, and how many of them it is scored on.                        *)

StepOf(fold, cell) ==
  Cardinality({t \in EventsIn(ForecastCells(fold.context, Horizon)) : t <= cell.event})

ActualOf(fold, cell) == {row \in fold.truth : CellOf(row) = CellOf(cell)}

KeysOf(fold) ==
  {<<cell.instance, cell.event, StepOf(fold, cell), ActualOf(fold, cell)>> :
     cell \in ForecastCells(fold.context, Horizon)}

MeasuredOf(fold) ==
  {cell \in ForecastCells(fold.context, Horizon) :
     \E row \in ActualOf(fold, cell) : row.measured}

OfThePlace(table, k, origin) == {q \in table : q.model = k /\ q.fold = origin}

(* What of them a table has asked, and what has been left out.             *)
Met(table, k, origin) ==
  {<<p.instance, p.event, p.step, p.actual>> : p \in OfThePlace(table, k, origin)}

Missed(found) == Cells({p \in found : IsMeasured(p) /\ ~p.answered})

(* A candidate at a place is over with an origin when the loop is past it. *)
Over(at, left, k, origin) == k < at \/ (k = at /\ origin \notin left)

(* Every measurement that is over has one row, and no other has one.       *)
MeasuredInv ==
  /\ phase = "feed" => rows = {} /\ predictions = {}
  /\ phase = "done" => pending = {} /\ candidate = Len(models)
  /\ candidate \in Nat
  /\ phase \in {"run", "done"} => DOMAIN models = 1 .. Len(models) /\ Len(models) \in Nat
  /\ \A r \in rows :
       /\ r.model \in 1 .. Len(models)
       /\ r.fold \in {fold.origin : fold \in folds}
       /\ Over(candidate, pending, r.model, r.fold)
  /\ \A r, s \in rows : r.model = s.model /\ r.fold = s.fold => r = s
  /\ phase \in {"run", "done"} =>
       \A k \in 1 .. Len(models), fold \in folds :
         Over(candidate, pending, k, fold.origin) => \E r \in rows : r.model = k /\ r.fold = fold.origin

(* No two rows share an artifact that was fitted, and none has the one     *)
(* that is about to forecast.                                              *)
ArtifactInv ==
  /\ \A r \in rows :
       /\ r.artifact \in {Standing} \cup 1 .. Len(published)
       /\ r.artifact = Standing => models[r.model].contract = "standing"
       /\ r.artifact # executed \/ r.artifact = Standing
  /\ \A r, s \in rows : r # s /\ r.artifact = s.artifact => r.artifact = Standing
  /\ phase = "run" /\ executed = Standing => Model.contract = "standing"

(* Every prediction belongs to a row, and a row to what its fold asks of   *)
(* every candidate alike.                                                  *)
SameInv ==
  /\ \A p \in predictions : \E r \in rows : r.model = p.model /\ r.fold = p.fold
  /\ \A r \in rows, fold \in folds : r.fold = fold.origin =>
       /\ Met(predictions, r.model, r.fold) = KeysOf(fold)
       /\ Missed(OfThePlace(predictions, r.model, r.fold)) \subseteq Cells(MeasuredOf(fold))
       /\ r.pairs = Cardinality(Cells(MeasuredOf(fold)) \ Missed(OfThePlace(predictions, r.model, r.fold)))

PlacedInv ==
  \A p \in predictions, fold \in folds : p.fold = fold.origin =>
    /\ p.event = Shift(fold.context.origin, p.step)
    /\ \A row \in p.given : "origin" \in DOMAIN row => row.origin = p.fold
    /\ \A row \in p.actual : p.fold < row.event /\ row.event <= Shift(p.fold, Horizon)

(* One prediction for every cell of the forecast, and no other.            *)
Made(silent, cell) == Prediction(cell, StepOf(Fold, cell), cell \notin silent)

LEMMA WhatIsPredicted ==
  ASSUME NEW silent
  PROVE  /\ \A p \in Predicted(silent) : \E cell \in ForecastCells(Fold.context, Horizon) :
              p = Made(silent, cell)
         /\ \A cell \in ForecastCells(Fold.context, Horizon) : Made(silent, cell) \in Predicted(silent)
<1>1. Predicted(silent) = {Made(silent, cell) : cell \in ForecastCells(Fold.context, Horizon)}
  BY DEF Predicted, StepOf, Asked, Made
<1> QED BY <1>1

(* The columns of a prediction.                                            *)
LEMMA WhatAPredictionSays ==
  ASSUME NEW silent, NEW cell
  PROVE  /\ Made(silent, cell).model = candidate
         /\ Made(silent, cell).fold = Fold.origin
         /\ Made(silent, cell).artifact = executed
         /\ Made(silent, cell).instance = cell.instance
         /\ Made(silent, cell).event = cell.event
         /\ Made(silent, cell).step = StepOf(Fold, cell)
         /\ Made(silent, cell).given = cell.values
         /\ Made(silent, cell).answered = (cell \notin silent)
         /\ Made(silent, cell).actual = ActualOf(Fold, cell)
         /\ CellOf(Made(silent, cell)) = CellOf(cell)
BY DEF Made, Prediction, CellOf, ActualOf

(* What is asked depends on the fold, and not on who predicts it or with   *)
(* what.                                                                   *)
LEMMA PredictedKeys ==
  ASSUME NEW silent
  PROVE  {<<p.instance, p.event, p.step, p.actual>> : p \in Predicted(silent)} = KeysOf(Fold)
<1>1. ASSUME NEW p \in Predicted(silent)
      PROVE  <<p.instance, p.event, p.step, p.actual>> \in KeysOf(Fold)
  <2>1. PICK cell \in ForecastCells(Fold.context, Horizon) : p = Made(silent, cell)
    BY WhatIsPredicted
  <2>2. /\ p.instance = cell.instance /\ p.event = cell.event
        /\ p.step = StepOf(Fold, cell) /\ p.actual = ActualOf(Fold, cell)
    BY <2>1, WhatAPredictionSays
  <2> QED BY <2>2 DEF KeysOf
<1>2. ASSUME NEW key \in KeysOf(Fold)
      PROVE  \E p \in Predicted(silent) : key = <<p.instance, p.event, p.step, p.actual>>
  <2>1. PICK cell \in ForecastCells(Fold.context, Horizon) :
          key = <<cell.instance, cell.event, StepOf(Fold, cell), ActualOf(Fold, cell)>>
    BY DEF KeysOf
  <2>2. PICK p \in Predicted(silent) : p = Made(silent, cell)
    BY WhatIsPredicted
  <2>3. /\ p.instance = cell.instance /\ p.event = cell.event
        /\ p.step = StepOf(Fold, cell) /\ p.actual = ActualOf(Fold, cell)
    BY <2>2, WhatAPredictionSays
  <2> QED BY <2>1, <2>3
<1> QED BY <1>1, <1>2

(* A forecast has one cell for an instance and an event.                   *)
LEMMA CellsAreDistinct ==
  ASSUME NEW context, NEW horizon,
         NEW cell \in ForecastCells(context, horizon), NEW other \in ForecastCells(context, horizon),
         CellOf(cell) = CellOf(other)
  PROVE  cell = other
<1> DEFINE At(i, t) == [instance |-> i, event |-> t, values |-> AtCells(context.future, i, {t})]
<1>1. \A i, t : At(i, t).instance = i /\ At(i, t).event = t
  OBVIOUS
<1>2. \A c \in ForecastCells(context, horizon) :
         \E i \in InstancesIn(context.history), t \in ForecastWindow(context.origin, horizon) :
           c = At(i, t)
  BY DEF ForecastCells
<1>3. cell.instance = other.instance /\ cell.event = other.event
  BY DEF CellOf
<1> HIDE DEF At
<1>4. \A c \in {cell, other} : c = At(c.instance, c.event)
  BY <1>1, <1>2
<1> QED BY <1>3, <1>4

(* What is left out is of what the fold measures.                          *)
LEMMA LeftOutWasMeasured ==
  ASSUME NEW silent
  PROVE  Missed(Predicted(silent)) \subseteq Cells(MeasuredOf(Fold))
<1> SUFFICES ASSUME NEW p \in Predicted(silent), IsMeasured(p)
             PROVE  CellOf(p) \in Cells(MeasuredOf(Fold))
  BY DEF Missed, Cells
<1>1. PICK cell \in ForecastCells(Fold.context, Horizon) : p = Made(silent, cell)
  BY WhatIsPredicted
<1>2. p.actual = ActualOf(Fold, cell) /\ CellOf(p) = CellOf(cell)
  BY <1>1, WhatAPredictionSays
<1>3. cell \in MeasuredOf(Fold)
  BY <1>2 DEF MeasuredOf, IsMeasured
<1> QED BY <1>2, <1>3 DEF Cells

(* What is scored is what the fold measures, but for what is left out.     *)
LEMMA PredictedPairs ==
  ASSUME NEW silent
  PROVE  Cells({p \in Predicted(silent) : IsScorable(p)})
           = Cells(MeasuredOf(Fold)) \ Missed(Predicted(silent))
<1>1. ASSUME NEW p \in Predicted(silent), IsScorable(p)
      PROVE  /\ \E cell \in MeasuredOf(Fold) : CellOf(p) = CellOf(cell)
             /\ CellOf(p) \notin Missed(Predicted(silent))
  <2>1. PICK cell \in ForecastCells(Fold.context, Horizon) : p = Made(silent, cell)
    BY WhatIsPredicted
  <2>2. p.actual = ActualOf(Fold, cell) /\ CellOf(p) = CellOf(cell)
    BY <2>1, WhatAPredictionSays
  <2>3. cell \in MeasuredOf(Fold)
    BY <1>1, <2>2 DEF MeasuredOf, IsScorable, IsMeasured
  <2>4. ASSUME NEW q \in Predicted(silent), ~q.answered, CellOf(q) = CellOf(p) PROVE FALSE
    <3>1. PICK other \in ForecastCells(Fold.context, Horizon) : q = Made(silent, other)
      BY WhatIsPredicted
    <3>2. CellOf(other) = CellOf(cell)
      BY <2>2, <2>4, <3>1, WhatAPredictionSays
    <3>3. q = p
      BY <2>1, <3>1, <3>2, CellsAreDistinct
    <3> QED BY <1>1, <2>4, <3>3 DEF IsScorable
  <2>5. CellOf(p) \notin Missed(Predicted(silent))
    BY <2>4 DEF Missed, Cells
  <2> QED BY <2>2, <2>3, <2>5
<1>2. ASSUME NEW cell \in MeasuredOf(Fold), CellOf(cell) \notin Missed(Predicted(silent))
      PROVE  \E p \in {q \in Predicted(silent) : IsScorable(q)} : CellOf(cell) = CellOf(p)
  <2>1. PICK p \in Predicted(silent) : p = Made(silent, cell)
    BY WhatIsPredicted DEF MeasuredOf
  <2>2. p.actual = ActualOf(Fold, cell) /\ CellOf(p) = CellOf(cell)
    BY <2>1, WhatAPredictionSays
  <2>3. IsMeasured(p)
    BY <2>2 DEF IsMeasured, MeasuredOf
  <2>4. p.answered
    BY <1>2, <2>2, <2>3 DEF Missed, Cells
  <2>5. IsScorable(p)
    BY <2>3, <2>4 DEF IsScorable
  <2> QED BY <2>1, <2>2, <2>5
<1> DEFINE scored == {p \in Predicted(silent) : IsScorable(p)}
<1>3. Cells(scored) \subseteq Cells(MeasuredOf(Fold)) \ Missed(Predicted(silent))
  BY <1>1 DEF Cells
<1>4. Cells(MeasuredOf(Fold)) \ Missed(Predicted(silent)) \subseteq Cells(scored)
  <2> SUFFICES ASSUME NEW c \in Cells(MeasuredOf(Fold)), c \notin Missed(Predicted(silent))
               PROVE  c \in Cells(scored)
    OBVIOUS
  <2>1. PICK cell \in MeasuredOf(Fold) : c = CellOf(cell)
    BY DEF Cells
  <2>2. PICK p \in scored : CellOf(cell) = CellOf(p)
    BY <1>2, <2>1
  <2> QED BY <2>1, <2>2 DEF Cells
<1> QED BY <1>3, <1>4

ResultInv == MeasuredInv /\ ArtifactInv /\ SameInv /\ PlacedInv

(* A fit gives the fold an artifact that no row has.                       *)
LEMMA FitKeepsResults ==
  ASSUME FoldInv, RunInv, ResultInv, Fit
  PROVE  ResultInv'
<1>1. /\ phase = "run" /\ executed = Unfitted
      /\ UNCHANGED <<phase, models, folds, candidate, pending, rows, predictions>>
  BY DEF Fit, results
<1>2. MeasuredInv' /\ SameInv' /\ PlacedInv'
  BY <1>1 DEF ResultInv, MeasuredInv, SameInv, PlacedInv
<1>3. ArtifactInv'
  <2>1. CASE Model.contract = "standing"
    <3>1. executed' = Standing /\ UNCHANGED published
      BY <2>1 DEF Fit, results
    <3> QED BY <1>1, <2>1, <3>1 DEF ResultInv, ArtifactInv, Model
  <2>2. CASE Model.contract # "standing"
    <3>1. PICK view : published' = Append(published, view) /\ executed' = Len(published) + 1
      BY <2>2 DEF Fit
    <3>2. Len(published) \in Nat /\ Len(published') = Len(published) + 1
      BY <3>1, AppendKeeps DEF RunInv
    <3>3. executed' # Standing /\ \A n \in 1 .. Len(published) : n # executed'
      BY <3>1, <3>2 DEF Standing
    <3>4. \A r \in rows : /\ r.artifact \in {Standing} \cup 1 .. Len(published)
                          /\ r.artifact = Standing => models[r.model].contract = "standing"
      BY DEF ResultInv, ArtifactInv
    <3>5. \A r \in rows : /\ r.artifact \in {Standing} \cup 1 .. Len(published')
                          /\ r.artifact # executed' \/ r.artifact = Standing
      BY <3>2, <3>3, <3>4
    <3> QED BY <1>1, <3>3, <3>4, <3>5 DEF ResultInv, ArtifactInv
  <2> QED BY <2>1, <2>2
<1> QED BY <1>2, <1>3 DEF ResultInv

(* Advancing puts exactly the measurement that was made behind the loop.   *)
LEMMA AdvanceIsOverWithOne ==
  ASSUME RunInv, phase = "run", candidate \in Nat, Advance, UNCHANGED folds,
         NEW k \in Nat, NEW origin \in {fold.origin : fold \in folds}
  PROVE  Over(candidate', pending', k, origin) <=>
           Over(candidate, pending, k, origin) \/ (k = candidate /\ origin = Min(pending))
<1> DEFINE left == pending \ {Min(pending)}
<1>1. CASE left # {}
  <2>1. pending' = left /\ candidate' = candidate
    BY <1>1 DEF Advance
  <2>2. origin \notin left <=> origin \notin pending \/ origin = Min(pending)
    OBVIOUS
  <2> HIDE DEF left
  <2> QED BY <2>1, <2>2 DEF Over
<1>2. CASE left = {} /\ candidate < Len(models)
  <2>1. candidate' = candidate + 1 /\ pending' = {fold.origin : fold \in folds}
    BY <1>2 DEF Advance
  <2>2. k < candidate + 1 <=> k < candidate \/ k = candidate
    OBVIOUS
  <2>3. origin \notin pending \/ origin = Min(pending)
    BY <1>2
  <2> QED BY <2>1, <2>2, <2>3 DEF Over
<1>3. CASE left = {} /\ ~(candidate < Len(models))
  <2>1. candidate' = candidate /\ pending' = {}
    BY <1>3 DEF Advance
  <2>2. origin \notin pending \/ origin = Min(pending)
    BY <1>3
  <2> QED BY <2>1, <2>2 DEF Over
<1> QED BY <1>1, <1>2, <1>3

(* A forecast adds one row: its place, its artifact, and the pairs that    *)
(* its predictions leave of its fold.                                      *)
LEMMA RowOfAForecast ==
  ASSUME Forecast
  PROVE  \E row, silent :
           /\ rows' = rows \cup {row} /\ predictions' = predictions \cup Predicted(silent)
           /\ row.model = candidate /\ row.fold = Fold.origin /\ row.artifact = executed
           /\ row.pairs = Cardinality(Cells(MeasuredOf(Fold)) \ Missed(Predicted(silent)))
<1> DEFINE row(silent) ==
             [ model |-> candidate, fold |-> Fold.origin, artifact |-> executed,
               pairs |-> Cardinality(Cells({p \in Predicted(silent) : IsScorable(p)})) ]
<1>1. PICK silent : /\ rows' = rows \cup {row(silent)}
                    /\ predictions' = predictions \cup Predicted(silent)
  BY DEF Forecast
<1>2. row(silent).pairs = Cardinality(Cells(MeasuredOf(Fold)) \ Missed(Predicted(silent)))
  BY PredictedPairs
<1>3. /\ row(silent).model = candidate /\ row(silent).fold = Fold.origin
      /\ row(silent).artifact = executed
  OBVIOUS
<1> HIDE DEF row
<1> QED BY <1>1, <1>2, <1>3

(* The row of a forecast is the first for its candidate and its fold.      *)
LEMMA ForecastKeepsMeasured ==
  ASSUME FoldInv, RunInv, ResultInv, Forecast
  PROVE  MeasuredInv'
<1>1. /\ phase = "run" /\ Advance
      /\ UNCHANGED <<models, folds, published>>
  BY DEF Forecast
<1>2. /\ Fold \in folds /\ Fold.origin = Min(pending) /\ Min(pending) \in pending
      /\ candidate \in 1 .. Len(models) /\ Len(models) \in Nat
  BY <1>1, FoldIsOfThePending, BacktestAssumption DEF RunInv
<1>3. PICK row : /\ rows' = rows \cup {row}
                 /\ row.model = candidate /\ row.fold = Fold.origin
  BY RowOfAForecast
<1>4. /\ candidate \in Nat
      /\ \A r \in rows : /\ r.model \in 1 .. Len(models)
                          /\ r.fold \in {fold.origin : fold \in folds}
                          /\ Over(candidate, pending, r.model, r.fold)
      /\ \A r, s \in rows : r.model = s.model /\ r.fold = s.fold => r = s
      /\ \A k \in 1 .. Len(models), fold \in folds :
           Over(candidate, pending, k, fold.origin) => \E r \in rows : r.model = k /\ r.fold = fold.origin
  BY <1>1 DEF ResultInv, MeasuredInv
<1>5. \A k \in 1 .. Len(models), origin \in {fold.origin : fold \in folds} :
        Over(candidate', pending', k, origin) <=>
          Over(candidate, pending, k, origin) \/ (k = candidate /\ origin = Min(pending))
  BY <1>1, <1>2, <1>4, AdvanceIsOverWithOne
<1>6. ~Over(candidate, pending, candidate, Min(pending))
  BY <1>2 DEF Over
<1>7. /\ phase' # "feed" /\ candidate' \in Nat
      /\ phase' = "done" => pending' = {} /\ candidate' = Len(models)
      /\ DOMAIN models = 1 .. Len(models)
  BY <1>1, <1>2 DEF Advance, ResultInv, MeasuredInv
<1>8. \A r \in rows' : /\ r.model \in 1 .. Len(models)
                       /\ r.fold \in {fold.origin : fold \in folds}
                       /\ Over(candidate', pending', r.model, r.fold)
  BY <1>2, <1>3, <1>4, <1>5
<1>9. \A r, s \in rows' : r.model = s.model /\ r.fold = s.fold => r = s
  BY <1>2, <1>3, <1>4, <1>6
<1>10. \A k \in 1 .. Len(models), fold \in folds :
         Over(candidate', pending', k, fold.origin) => \E r \in rows' : r.model = k /\ r.fold = fold.origin
  BY <1>2, <1>3, <1>4, <1>5
<1> QED BY <1>1, <1>2, <1>7, <1>8, <1>9, <1>10 DEF MeasuredInv

(* It has the artifact that this fold was given, which the next fold does  *)
(* not inherit.                                                            *)
LEMMA ForecastKeepsArtifacts ==
  ASSUME RunInv, ResultInv, Forecast
  PROVE  ArtifactInv'
<1>1. /\ phase = "run" /\ executed # Unfitted /\ Advance
      /\ UNCHANGED <<models, folds, published>>
  BY DEF Forecast
<1>2. PICK row : rows' = rows \cup {row} /\ row.model = candidate /\ row.artifact = executed
  BY RowOfAForecast
<1>3. executed' = Unfitted /\ executed \in {Standing} \cup 1 .. Len(published)
  BY <1>1 DEF Advance, RunInv
<1>4. Unfitted # Standing /\ Unfitted \notin 1 .. Len(published)
  BY DEF Unfitted, Standing
<1>5. ArtifactInv
  BY DEF ResultInv
<1>6. \A r \in rows' :
        /\ r.artifact \in {Standing} \cup 1 .. Len(published)
        /\ r.artifact = Standing => models[r.model].contract = "standing"
  BY <1>1, <1>2, <1>3, <1>5 DEF ArtifactInv, Model
<1>7. \A r, s \in rows' : r # s /\ r.artifact = s.artifact => r.artifact = Standing
  BY <1>2, <1>5 DEF ArtifactInv
<1> QED BY <1>1, <1>3, <1>4, <1>6, <1>7 DEF ArtifactInv

(* It is asked what any other candidate is asked at the fold, and is       *)
(* scored on all of it that is measured and that it answered.              *)
LEMMA ForecastKeepsSameness ==
  ASSUME FoldInv, RunInv, FoldOriginInv, ResultInv, Forecast
  PROVE  SameInv'
<1>1. phase = "run" /\ UNCHANGED folds
  BY DEF Forecast
<1>2. Fold \in folds /\ Fold.origin = Min(pending) /\ Min(pending) \in pending
  BY <1>1, FoldIsOfThePending
<1>3. PICK row, silent :
        /\ rows' = rows \cup {row} /\ predictions' = predictions \cup Predicted(silent)
        /\ row.model = candidate /\ row.fold = Fold.origin
        /\ row.pairs = Cardinality(Cells(MeasuredOf(Fold)) \ Missed(Predicted(silent)))
  BY RowOfAForecast
<1> DEFINE Agrees(table, r, fold) ==
             /\ Met(table, r.model, r.fold) = KeysOf(fold)
             /\ Missed(OfThePlace(table, r.model, r.fold)) \subseteq Cells(MeasuredOf(fold))
             /\ r.pairs = Cardinality(Cells(MeasuredOf(fold)) \ Missed(OfThePlace(table, r.model, r.fold)))
<1>4. /\ \A p \in predictions : \E r \in rows : r.model = p.model /\ r.fold = p.fold
      /\ \A r \in rows, fold \in folds : r.fold = fold.origin => Agrees(predictions, r, fold)
  BY DEF ResultInv, SameInv
<1>5. \A r \in rows : ~(r.model = candidate /\ r.fold = Fold.origin)
  <2>1. \A r \in rows : Over(candidate, pending, r.model, r.fold) /\ candidate \in Nat
    BY DEF ResultInv, MeasuredInv
  <2> QED BY <1>2, <2>1 DEF Over
<1>6. \A p \in Predicted(silent) : p.model = candidate /\ p.fold = Fold.origin
  BY WhatIsPredicted, WhatAPredictionSays
<1>7. \A r \in rows : OfThePlace(predictions', r.model, r.fold) = OfThePlace(predictions, r.model, r.fold)
  BY <1>3, <1>5, <1>6 DEF OfThePlace
<1>8. OfThePlace(predictions', candidate, Fold.origin) = Predicted(silent)
  <2>1. \A p \in predictions : ~(p.model = candidate /\ p.fold = Fold.origin)
    BY <1>4, <1>5
  <2> QED BY <1>3, <1>6, <2>1 DEF OfThePlace
<1>9. \A fold \in folds : fold.origin = Fold.origin => fold = Fold
  BY <1>2 DEF FoldOriginInv
<1>10. \A p \in predictions' : \E r \in rows' : r.model = p.model /\ r.fold = p.fold
  BY <1>3, <1>4, <1>6
<1>11. \A r \in rows', fold \in folds : r.fold = fold.origin => Agrees(predictions', r, fold)
  <2> SUFFICES ASSUME NEW r \in rows', NEW fold \in folds, r.fold = fold.origin
               PROVE  Agrees(predictions', r, fold)
    OBVIOUS
  <2>1. CASE r \in rows
    BY <1>4, <1>7, <2>1 DEF Met
  <2>2. CASE r = row
    <3>1. fold = Fold
      BY <1>3, <1>9, <2>2
    <3>2. Met(predictions', candidate, Fold.origin) = KeysOf(Fold)
      BY <1>8, PredictedKeys DEF Met
    <3> QED BY <1>3, <1>8, <2>2, <3>1, <3>2, LeftOutWasMeasured
  <2> QED BY <1>3, <2>1, <2>2
<1> QED BY <1>1, <1>10, <1>11 DEF SameInv

(* They are where the steps of its context lead.                           *)
LEMMA ForecastKeepsPlaces ==
  ASSUME FoldInv, RunInv, FoldOriginInv, ResultInv, Forecast
  PROVE  PlacedInv'
<1>1. phase = "run" /\ UNCHANGED folds
  BY DEF Forecast
<1>a. PICK silent : predictions' = predictions \cup Predicted(silent)
  BY DEF Forecast
<1>2. Fold \in folds /\ FromItsOrigin(Fold)
  BY <1>1, FoldIsOfThePending DEF FoldOriginInv
<1>3. \A fold \in folds : fold.origin = Fold.origin => fold = Fold
  BY <1>2 DEF FoldOriginInv
<1>4. ASSUME NEW p \in Predicted(silent)
      PROVE  /\ p.fold = Fold.origin
             /\ p.event = Shift(Fold.context.origin, p.step)
             /\ \A row \in p.given : "origin" \in DOMAIN row => row.origin = p.fold
             /\ \A row \in p.actual : p.fold < row.event /\ row.event <= Shift(p.fold, Horizon)
  <2>1. PICK cell \in ForecastCells(Fold.context, Horizon) : p = Made(silent, cell)
    BY WhatIsPredicted
  <2>2. /\ p.fold = Fold.origin /\ p.event = cell.event /\ p.step = StepOf(Fold, cell)
        /\ p.given = cell.values /\ p.actual \subseteq Fold.truth
    BY <2>1, WhatAPredictionSays DEF ActualOf
  <2>3. p.event = Shift(Fold.context.origin, p.step)
    BY <1>2, <2>2, StepsAreCounted DEF StepOf, FromItsOrigin
  <2>4. p.given \subseteq Fold.context.future
    BY <2>2, CellsAreAhead
  <2> QED BY <1>2, <2>2, <2>3, <2>4 DEF FromItsOrigin
<1> QED BY <1>1, <1>a, <1>3, <1>4 DEF ResultInv, PlacedInv

(* A run begins with nothing behind the loop and no results.               *)
LEMMA BeginKeepsResults ==
  ASSUME RunInv, ResultInv, phase = "feed",
         NEW list \in ModelLists, NEW cut, cut # {}, Begin(list, cut)
  PROVE  ResultInv'
<1>1. /\ models' = list /\ folds' = cut /\ candidate' = 1 /\ phase' = "run"
      /\ pending' = {fold.origin : fold \in cut}
      /\ UNCHANGED <<executed, published, rows, predictions>>
  BY DEF Begin, results
<1>2. rows = {} /\ predictions = {} /\ executed = Unfitted
  BY DEF ResultInv, MeasuredInv, RunInv
<1>3. \A k \in 1 .. Len(list), fold \in cut : ~Over(1, pending', k, fold.origin)
  BY <1>1 DEF Over
<1>4. MeasuredInv'
  BY <1>1, <1>2, <1>3, BacktestAssumption DEF MeasuredInv
<1>5. ArtifactInv'
  BY <1>1, <1>2 DEF ArtifactInv, Unfitted, Standing
<1>6. SameInv' /\ PlacedInv'
  BY <1>1, <1>2 DEF SameInv, PlacedInv
<1> QED BY <1>4, <1>5, <1>6 DEF ResultInv

(* All of it holds of every behaviour.                                     *)
LEMMA ResultsAlways == Spec => []ResultInv
<1>1. Init => ResultInv
  BY DEF Init, ResultInv, MeasuredInv, ArtifactInv, SameInv, PlacedInv
<1>2. FoldInv /\ RunInv /\ FoldOriginInv /\ ResultInv /\ [Next]_vars => ResultInv'
  <2> SUFFICES ASSUME FoldInv, RunInv, FoldOriginInv, ResultInv, [Next]_vars PROVE ResultInv'
    OBVIOUS
  <2>1. ASSUME UNCHANGED <<phase, models, folds, progress, results>> PROVE ResultInv'
    BY <2>1 DEF ResultInv, MeasuredInv, ArtifactInv, SameInv, PlacedInv, Model, progress, results
  <2>2. ASSUME Raise PROVE ResultInv'
    BY <2>2 DEF Raise, ResultInv, MeasuredInv, ArtifactInv, SameInv, PlacedInv, Model, progress, results
  <2>3. CASE Live \/ UNCHANGED vars
    BY <2>1, <2>3 DEF Live, vars
  <2>4. CASE StartRolling
    <3>1. ASSUME NEW validation \in Validations, validation.mode = "rolling",
                 NEW list \in ModelLists, NEW beyond, NEW static,
                 Begin(list, {RollingFold(Frame(beyond, static), o) :
                                o \in RollingOrigins(validation, Frame(beyond, static))})
          PROVE  ResultInv'
      <4>1. 0 \in 0 .. validation.windows - 1
        BY <3>1, BacktestAssumption
      <4>2. RollingOrigins(validation, Frame(beyond, static)) # {}
        BY <4>1 DEF RollingOrigins
      <4>3. {RollingFold(Frame(beyond, static), o) :
               o \in RollingOrigins(validation, Frame(beyond, static))} # {}
        BY <4>2
      <4> QED BY <2>4, <3>1, <4>3, BeginKeepsResults DEF StartRolling
    <3> QED BY <2>2, <2>4, <3>1 DEF StartRolling
  <2>5. CASE StartOrigins
    <3>1. ASSUME NEW validation \in Validations, NEW list \in ModelLists, NEW static,
                 Selected(validation.origins, Origins(Dataset(static))) # {},
                 Begin(list, {OriginFold(Dataset(static), o) :
                                o \in Selected(validation.origins, Origins(Dataset(static)))})
          PROVE  ResultInv'
      <4>1. {OriginFold(Dataset(static), o) :
               o \in Selected(validation.origins, Origins(Dataset(static)))} # {}
        BY <3>1
      <4> QED BY <2>5, <3>1, <4>1, BeginKeepsResults DEF StartOrigins
    <3> QED BY <2>2, <2>5, <3>1 DEF StartOrigins
  <2>6. CASE Fit
    BY <2>6, FitKeepsResults
  <2>7. CASE FitRaises \/ ForecastRaises
    BY <2>2, <2>7 DEF FitRaises, ForecastRaises
  <2>8. CASE Forecast
    BY <2>8, ForecastKeepsMeasured, ForecastKeepsArtifacts, ForecastKeepsSameness,
       ForecastKeepsPlaces DEF ResultInv
  <2> QED BY <2>3, <2>4, <2>5, <2>6, <2>7, <2>8 DEF Next
<1> QED BY <1>1, <1>2, FoldsAlways, RunAlways, FoldOriginsAlways, PTL DEF Spec

(* A forecast conditions on its origin's vintage and on no other, its      *)
(* steps count from where its context ends, whatever cells it answers      *)
(* for, and what it is scored against happened after the origin and within *)
(* the horizon. evaluation/backtest.py:516-599, views/planner.py:436-518.  *)
THEOREM ForecastsSpeakFromTheirOrigin == Spec => []ForecastFromItsOrigin
<1>1. ResultInv => ForecastFromItsOrigin
  <2> SUFFICES ASSUME ResultInv, NEW p \in predictions
               PROVE  /\ \A fold \in folds : fold.origin = p.fold =>
                            p.event = Shift(fold.context.origin, p.step)
                      /\ \A row \in p.given : "origin" \in DOMAIN row => row.origin = p.fold
                      /\ \A row \in p.actual : p.fold < row.event /\ row.event <= Shift(p.fold, Horizon)
    BY DEF ForecastFromItsOrigin
  <2>1. PICK fold \in folds : fold.origin = p.fold
    BY DEF ResultInv, SameInv, MeasuredInv
  <2> QED BY <2>1 DEF ResultInv, PlacedInv
<1> QED BY <1>1, ResultsAlways, PTL

(* The cells of the grid are as many as instances and moments.             *)
LEMMA GridIsFinite == IsFiniteSet(Grid)
<1> DEFINE S == Instance \X (0 .. LastMoment)
           f == [p \in S |-> [instance |-> p[1], event |-> p[2]]]
<1>1. IsFiniteSet(S)
  <2>1. IsFiniteSet(0 .. LastMoment) /\ IsFiniteSet(Instance)
    BY FS_Interval, BacktestAssumption
  <2> QED BY <2>1, FS_Product
<1>2. f \in Surjection(S, Grid)
  <2>1. \A p \in S : f[p] \in Grid
    BY DEF Grid
  <2>2. ASSUME NEW cell \in Grid PROVE \E p \in S : f[p] = cell
    <3>1. <<cell.instance, cell.event>> \in S
      BY DEF Grid
    <3>2. f[<<cell.instance, cell.event>>] = [instance |-> cell.instance, event |-> cell.event]
      BY <3>1
    <3>3. cell = [instance |-> cell.instance, event |-> cell.event]
      BY DEF Grid
    <3> QED BY <3>1, <3>2, <3>3
  <2> QED BY <2>1, <2>2 DEF Surjection
<1> QED BY <1>1, <1>2, FS_Surjection DEF ExistsSurjection

(* Two candidates that were measured at one origin were asked for the same *)
(* cells at the same steps beside the same outcomes, whatever they learned *)
(* from; every measured outcome is a pair of each or a value that it left  *)
(* out; and no two rows rest on one fitted artifact, however often a       *)
(* candidate is listed. evaluation/backtest.py:289-309, 457-599.           *)
THEOREM CandidatesAreComparable == Spec => []RowsAreComparable
<1>1. ResultInv /\ FoldOriginInv => RowsAreComparable
  <2> SUFFICES ASSUME ResultInv, FoldOriginInv, NEW r \in rows, NEW s \in rows
               PROVE  /\ r.fold = s.fold =>
                           /\ AskedOf(r) = AskedOf(s)
                           /\ r.pairs + Cardinality(LeftOut(r)) = s.pairs + Cardinality(LeftOut(s))
                      /\ r # s /\ r.artifact = s.artifact =>
                           \A row \in {r, s} : models[row.model].contract = "standing"
    BY DEF RowsAreComparable
  <2>1. PICK fold \in folds : r.fold = fold.origin
    BY DEF ResultInv, MeasuredInv
  <2> DEFINE cells == Cells(MeasuredOf(fold))
  <2>2. \A row \in {r, s} : /\ AskedOf(row) = Met(predictions, row.model, row.fold)
                           /\ LeftOut(row) = Missed(OfThePlace(predictions, row.model, row.fold))
    BY DEF AskedOf, LeftOut, PredictionsOf, Met, Missed, OfThePlace
  <2>3. \A row \in {r, s} : row.fold = fold.origin =>
          /\ AskedOf(row) = KeysOf(fold)
          /\ LeftOut(row) \subseteq cells /\ row.pairs = Cardinality(cells \ LeftOut(row))
    BY <2>2 DEF ResultInv, SameInv
  <2>4. IsFiniteSet(cells)
    <3>1. cells \subseteq Cells(fold.truth)
      BY DEF MeasuredOf, ActualOf, Cells
    <3> QED BY <3>1, GridIsFinite, FS_Subset DEF FoldOriginInv, FromItsOrigin
  <2> HIDE DEF cells
  <2>5. ASSUME NEW out \in SUBSET cells
        PROVE  Cardinality(cells \ out) + Cardinality(out) = Cardinality(cells)
    <3>1. cells \cap out = out /\ IsFiniteSet(out)
      BY <2>4, FS_Subset
    <3>2. Cardinality(cells \ out) = Cardinality(cells) - Cardinality(out)
      BY <2>4, <3>1, FS_Difference
    <3>3. Cardinality(cells) \in Nat /\ Cardinality(out) \in Nat
      BY <2>4, <3>1, FS_CardinalityType
    <3> QED BY <3>2, <3>3
  <2>6. ASSUME r.fold = s.fold
        PROVE  /\ AskedOf(r) = AskedOf(s)
               /\ r.pairs + Cardinality(LeftOut(r)) = s.pairs + Cardinality(LeftOut(s))
    BY <2>1, <2>3, <2>5, <2>6
  <2>7. ASSUME r # s, r.artifact = s.artifact
        PROVE  models[r.model].contract = "standing" /\ models[s.model].contract = "standing"
    BY <2>7 DEF ResultInv, ArtifactInv
  <2> QED BY <2>6, <2>7
<1> QED BY <1>1, ResultsAlways, FoldOriginsAlways, PTL

(* A backtest that returns has a row for every candidate at every fold,    *)
(* and not two. evaluation/backtest.py:250-309.                            *)
THEOREM ReturnsAreComplete == Spec => []DoneIsComplete
<1>1. ResultInv => DoneIsComplete
  <2> SUFFICES ASSUME ResultInv, phase = "done", NEW k \in DOMAIN models, NEW fold \in folds
               PROVE  Cardinality({r \in rows : r.model = k /\ r.fold = fold.origin}) = 1
    BY DEF DoneIsComplete
  <2>1. /\ k \in 1 .. Len(models) /\ Len(models) \in Nat
        /\ pending = {} /\ candidate = Len(models)
    BY DEF ResultInv, MeasuredInv
  <2>2. Over(candidate, pending, k, fold.origin)
    BY <2>1 DEF Over
  <2>3. PICK row \in rows : row.model = k /\ row.fold = fold.origin
    BY <2>1, <2>2 DEF ResultInv, MeasuredInv
  <2>4. {r \in rows : r.model = k /\ r.fold = fold.origin} = {row}
    BY <2>3 DEF ResultInv, MeasuredInv
  <2> QED BY <2>4, FS_Singleton
<1> QED BY <1>1, ResultsAlways, PTL
=============================================================================
