-------------------------- MODULE HandshakeProofs ---------------------------
(***************************************************************************)
(* Theorems about one request and its answer, for all limits and defaults, *)
(* all configurations of the server and all options of the client, and for *)
(* whatever other programs put into their datagrams.                       *)
(***************************************************************************)
EXTENDS Handshake, NegotiationProofs, FiniteSetTheorems, WellFoundedInduction

Requested == FromPairs(frame.pairs)

Answered == {"answered", "agreed"}

\* What has been tested of a request that is served, and what it does to the file.
RequestInv ==
  /\ phase # "start" =>
       /\ frame.path.components \in Seq({"normal", "cur", "parent"})
       /\ DOMAIN frame.pairs = 1 .. Len(frame.pairs) /\ Len(frame.pairs) \in Nat
  /\ phase \in Served => Verdict(config, frame, before) = "ok" /\ IsRequest(frame)
  /\ object = IF phase \in Served /\ frame.opcode = "WRQ" THEN "new" ELSE before

\* Where the parameters of the two ends come from.
ParameterInv ==
  /\ phase \in Answered =>
       /\ ~ClampPanics(config, Requested)
       /\ oack = ToPairs(Granted(config, Requested, Size))
       /\ server = Negotiated(config, Requested)
  /\ phase \notin Answered => oack = << >> /\ server = Defaults
  /\ client = IF phase = "agreed" THEN MergeOack(Defaults, FromPairs(oack)) ELSE Defaults

HInv ==
  /\ config \in Configs /\ opts \in ClientOptions \cup {None}
  /\ before \in {"nothing", "nowhere", "file", "directory", "forbidden"}
  /\ phase \in Served \cup Codes \cup {"start", "requested", "ignored"}
  /\ RequestInv
  /\ ParameterInv

-----------------------------------------------------------------------------
(* The invariant.                                                          *)

\* Whatever open says is a code, or that there is none.
LEMMA VerdictCodes ==
  ASSUME NEW c, NEW f, NEW o
  PROVE  Verdict(c, f, o) \in Codes \cup {"ok"}
BY DEF Verdict, Opens, Codes

\* The phases differ as their names do.
LEMMA Phases ==
  /\ {"start", "requested", "ignored"} \cap Served = {}
  /\ Codes \cap Served = {} /\ Codes \cap Answered = {}
  /\ Answered \subseteq Served
  /\ "start" \notin Codes /\ "agreed" \notin Codes
  /\ {"opened", "died", "answered", "agreed"} \subseteq Served
  /\ {"opened", "died", "start", "requested", "ignored"} \cap Answered = {}
  /\ {"answered", "agreed"} \subseteq Answered
BY DEF Served, Codes, Answered

\* Of an empty list of pairs nothing is decoded, and the defaults stay.
LEMMA NoOackNoChange == MergeOack(Defaults, FromPairs(<< >>)) = Defaults
<1>1. \A n \in Names : Given(<< >>, n) = {}
  BY DEF Given
<1>2. DOMAIN FromPairs(<< >>) = {}
  BY <1>1 DEF FromPairs
<1> QED
  BY <1>2 DEF MergeOack, OrElse, Defaults

\* Nothing has been tested, touched or agreed upon in the beginning.
LEMMA InitHInv == Init => HInv
BY Phases DEF Init, HInv, RequestInv, ParameterInv, Served, Answered

\* Each action keeps the invariant.
LEMMA NextHInv == HInv /\ [Next]_vars => HInv'
<1> SUFFICES ASSUME HInv, [Next]_vars
             PROVE  HInv'
  OBVIOUS
<1> USE Phases
<1> DEFINE Path == Seq({"normal", "cur", "parent"})
<1>1. CASE Request
  <2>1. <<"normal">> \in Path
    OBVIOUS
  <2>2. /\ frame'.path.components = <<"normal">> /\ phase' = "requested" /\ phase = "start"
        /\ \E options : frame'.pairs = ToPairs(options)
    BY <1>1 DEF Request
  <2>5. DOMAIN frame'.pairs = 1 .. Len(frame'.pairs) /\ Len(frame'.pairs) \in Nat
    BY <2>2, ToPairsLists DEF Lists
  <2>3. RequestInv'
    BY <1>1, <2>1, <2>2, <2>5 DEF HInv, RequestInv, Request, environment
  <2>4. ParameterInv'
    BY <1>1, <2>2 DEF HInv, ParameterInv, Request, environment
  <2> QED
    BY <1>1, <2>2, <2>3, <2>4 DEF HInv, Request, environment
<1>2. CASE OtherRequest
  <2>1. /\ frame'.path.components \in Path
        /\ DOMAIN frame'.pairs = 1 .. Len(frame'.pairs) /\ Len(frame'.pairs) \in Nat
    BY <1>2, HandshakeAssumption DEF OtherRequest
  <2>2. RequestInv'
    BY <1>2, <2>1 DEF HInv, RequestInv, OtherRequest, environment
  <2>3. ParameterInv'
    BY <1>2 DEF HInv, ParameterInv, OtherRequest, environment
  <2> QED
    BY <1>2, <2>2, <2>3 DEF HInv, OtherRequest, environment
<1>3. CASE Ignore
  <2>1. RequestInv'
    BY <1>3 DEF HInv, RequestInv, Ignore, environment
  <2>2. ParameterInv'
    BY <1>3 DEF HInv, ParameterInv, Ignore, environment
  <2> QED
    BY <1>3, <2>1, <2>2 DEF HInv, Ignore, environment
<1>4. CASE Open
  <2>1. object = before
    BY <1>4 DEF HInv, RequestInv, Open
  <2>2. RequestInv'
    <3>1. Verdict(config, frame, before)' = "ok" /\ IsRequest(frame)'
      BY <1>4, <2>1 DEF Open, environment, Verdict, Opens, Resolves, IsRequest
    <3>2. object' = IF frame'.opcode = "WRQ" THEN "new" ELSE before'
      BY <1>4, <2>1 DEF Open, environment
    <3> QED
      BY <1>4, <3>1, <3>2 DEF HInv, RequestInv, Open, environment
  <2>3. ParameterInv'
    BY <1>4 DEF HInv, ParameterInv, Open, environment
  <2> QED
    BY <1>4, <2>2, <2>3 DEF HInv, Open, environment
<1>5. CASE Refuse
  <2>1. phase' \in Codes
    BY <1>5, VerdictCodes DEF Refuse
  <2>2. RequestInv'
    BY <1>5, <2>1 DEF HInv, RequestInv, Refuse, environment
  <2>3. ParameterInv'
    BY <1>5, <2>1 DEF HInv, ParameterInv, Refuse, environment
  <2> QED
    BY <1>5, <2>1, <2>2, <2>3 DEF HInv, Refuse, environment
<1>6. ASSUME phase = "opened" \/ phase = "answered",
             phase' \in {"answered", "died", "agreed"},
             UNCHANGED <<config, opts, before, object, frame>>
      PROVE  RequestInv'
  <2>1. phase' \in Served /\ phase \in Served /\ phase # "start"
    BY <1>6
  <2>2. Verdict(config, frame, before)' = Verdict(config, frame, before)
        /\ (IsRequest(frame)' <=> IsRequest(frame))
    BY <1>6 DEF Verdict, Opens, Resolves, IsRequest
  <2> QED
    BY <1>6, <2>1, <2>2 DEF HInv, RequestInv
<1>7. CASE Answer
  <2>1. RequestInv'
    BY <1>6, <1>7 DEF Answer, environment
  <2>2. ParameterInv'
    BY <1>7 DEF HInv, ParameterInv, Answer, environment, Requested, Size
  <2> QED
    BY <1>7, <2>1, <2>2 DEF HInv, Answer, environment
<1>8. CASE Die
  <2>1. RequestInv'
    BY <1>6, <1>8 DEF Die, environment
  <2>2. ParameterInv'
    BY <1>8 DEF HInv, ParameterInv, Die, environment
  <2> QED
    BY <1>8, <2>1, <2>2 DEF HInv, Die, environment
<1>9. CASE Merge
  <2>1. RequestInv'
    BY <1>6, <1>9 DEF Merge, environment
  <2>2. ParameterInv'
    BY <1>9 DEF HInv, ParameterInv, Merge, environment, Requested, Size
  <2> QED
    BY <1>9, <2>1, <2>2 DEF HInv, Merge, environment
<1>10. CASE FallBack
  <2>1. RequestInv'
    BY <1>6, <1>10 DEF FallBack, environment
  <2>2. ParameterInv'
    BY <1>10, NoOackNoChange DEF HInv, ParameterInv, FallBack, environment, Requested, Size
  <2> QED
    BY <1>10, <2>1, <2>2 DEF HInv, FallBack, environment
<1>11. CASE UNCHANGED vars
  BY <1>11 DEF vars, environment, HInv, RequestInv, ParameterInv, Requested, Size
<1> QED
  BY <1>1, <1>2, <1>3, <1>4, <1>5, <1>7, <1>8, <1>9, <1>10, <1>11 DEF Next

\* The invariant holds throughout.
THEOREM HandshakeInvariance == Spec => []HInv
<1> QED
  BY InitHInv, NextHInv, PTL DEF Spec

-----------------------------------------------------------------------------
(* The theorems.                                                           *)

\* What the server takes the size of the file to be is a size, or none.
LEMMA SizeIsOne == Size \in (0 .. MaxU64) \cup {None}
BY HandshakeAssumption DEF Size

\* Whatever becomes a parameter of a transfer is within the limits of its option.
THEOREM HandshakeTypes == Spec => []TypeOK
<1>1. ASSUME HInv
      PROVE  TypeOK
  <2>1. Defaults \in Parameters
    BY NegotiationAssumption DEF Defaults, Parameters
  <2>2. CASE phase \in Answered
    <3>1. OptionSet(Requested) /\ config.max_block_size \in Nat
      BY <1>1, FromPairsOptionSet, HandshakeAssumption DEF HInv, Requested
    <3>2. ~ClampPanics(config, Requested) /\ server = Negotiated(config, Requested)
          /\ oack = ToPairs(Granted(config, Requested, Size))
      BY <1>1, <2>2 DEF HInv, ParameterInv
    <3>3. server \in Parameters
      BY <3>1, <3>2, NegotiatedValid DEF Parameters
    <3>4. client \in {server, Defaults}
      BY <1>1, <3>1, <3>2, SizeIsOne, OackTellsAll DEF HInv, ParameterInv
    <3> QED
      BY <1>1, <2>1, <3>3, <3>4 DEF TypeOK, HInv, RequestInv
  <2>3. CASE phase \notin Answered
    <3>1. server = Defaults /\ client = Defaults
      BY <1>1, <2>3, Phases DEF HInv, ParameterInv
    <3> QED
      BY <1>1, <2>1, <3>1 DEF TypeOK, HInv, RequestInv
  <2> QED
    BY <2>2, <2>3
<1> QED
  BY <1>1, HandshakeInvariance, PTL

\* Client and server enter the data phase with the same parameters.
THEOREM Agreement == Spec => []Agree
<1>1. ASSUME HInv, phase = "agreed"
      PROVE  client = server
  <2>1. OptionSet(Requested) /\ config.max_block_size \in Nat
    BY <1>1, FromPairsOptionSet, HandshakeAssumption DEF HInv, Requested
  <2>2. /\ ~ClampPanics(config, Requested) /\ server = Negotiated(config, Requested)
        /\ client = MergeOack(Defaults, FromPairs(ToPairs(Granted(config, Requested, Size))))
    BY <1>1, Phases DEF HInv, ParameterInv
  <2> QED
    BY <2>1, <2>2, SizeIsOne, OackTellsAll
<1>2. HInv => Agree
  BY <1>1 DEF Agree
<1> QED
  BY <1>2, HandshakeInvariance, PTL

\* A set of positions in a list that is not empty has a last one.
LEMMA LastPosition ==
  ASSUME NEW n \in Nat, NEW S, S \subseteq 1 .. n, S # {}
  PROVE  \E m \in S : \A j \in S : j <= m
<1> DEFINE T == {n - i : i \in S}
           R == {ss \in Nat \X Nat : ss[1] < ss[2]}
<1>1. \A i \in S : i \in Int /\ n - i \in Nat /\ n - i \in T
  OBVIOUS
<1>2. \A y \in T : \E i \in S : y = n - i
  OBVIOUS
<1> HIDE DEF T
<1>3. T \subseteq Nat /\ T # {}
  BY <1>1, <1>2
<1>4. PICK x \in T : \A y \in T : ~(<<y, x>> \in R)
  <2>1. IsWellFoundedOn(R, Nat)
    BY NatLessThanWellFounded DEF OpToRel
  <2> HIDE DEF R
  <2> QED
    BY <1>3, <2>1, WFMin
<1>5. ASSUME NEW y \in T
      PROVE  x <= y
  <2>1. x \in Nat /\ y \in Nat
    BY <1>3, <1>4
  <2>2. ~(y < x)
    BY <1>4, <2>1
  <2> QED
    BY <2>1, <2>2
<1>6. PICK m \in S : x = n - m
  BY <1>2, <1>4
<1>7. ASSUME NEW j \in S
      PROVE  j <= m
  <2>1. x <= n - j
    BY <1>1, <1>5
  <2>2. j \in Int /\ m \in Int
    BY <1>1
  <2> QED
    BY <1>6, <2>1, <2>2
<1> QED
  BY <1>7

\* An option that is decoded is one that the request gives, and its last word on it.
LEMMA DecodedIsLast ==
  ASSUME NEW pairs, DOMAIN pairs = 1 .. Len(pairs), Len(pairs) \in Nat,
         NEW name \in DOMAIN FromPairs(pairs)
  PROVE  \E k \in DOMAIN pairs :
           /\ pairs[k].name = name
           /\ \A j \in DOMAIN pairs : j > k => pairs[j].name # name
           /\ FromPairs(pairs)[name] = pairs[k].value
           /\ Valid(name, pairs[k].value)
<1>1. Given(pairs, name) # {} /\ Valid(name, Latest(pairs, name))
      /\ FromPairs(pairs)[name] = Latest(pairs, name)
  BY DEF FromPairs
<1>2. Given(pairs, name) \subseteq 1 .. Len(pairs)
  BY DEF Given
<1>3. \E m \in Given(pairs, name) : \A j \in Given(pairs, name) : j <= m
  BY <1>1, <1>2, LastPosition
<1> DEFINE k == CHOOSE m \in Given(pairs, name) : \A j \in Given(pairs, name) : j <= m
<1>4. k \in Given(pairs, name) /\ \A j \in Given(pairs, name) : j <= k
  BY <1>3
<1>5. Latest(pairs, name) = pairs[k].value
  BY DEF Latest
<1> HIDE DEF k
<1>6. k \in DOMAIN pairs /\ pairs[k].name = name
  BY <1>4 DEF Given
<1>7. ASSUME NEW j \in DOMAIN pairs, j > k
      PROVE  pairs[j].name # name
  BY <1>4, <1>6, <1>7 DEF Given
<1> QED
  BY <1>1, <1>5, <1>6, <1>7

\* An OACK grants only what the client's last word on an option asks for, and no
\* more of it than the configuration allows.
THEOREM OackAnswers == Spec => []OackAnswersRequest
<1>1. ASSUME HInv, phase \in Answered, NEW i \in DOMAIN oack
      PROVE  \E k \in DOMAIN frame.pairs :
               /\ frame.pairs[k].name = oack[i].name
               /\ \A j \in DOMAIN frame.pairs : j > k => frame.pairs[j].name # oack[i].name
               /\ Valid(oack[i].name, frame.pairs[k].value)
               /\ oack[i].name = "blksize" => oack[i].value <= frame.pairs[k].value
                                              /\ oack[i].value <= config.max_block_size
               /\ oack[i].name = "windowsize" => config.allow_windowsize
                                                 /\ oack[i].value = frame.pairs[k].value
               /\ oack[i].name = "timeout" => oack[i].value = frame.pairs[k].value
               /\ oack[i].name = "tsize" =>
                    oack[i].value = IF Size = None THEN frame.pairs[k].value ELSE Size
  <2> DEFINE name == oack[i].name
             options == Granted(config, Requested, Size)
  <2>1. /\ DOMAIN frame.pairs = 1 .. Len(frame.pairs) /\ Len(frame.pairs) \in Nat
        /\ config.max_block_size \in Nat
    BY <1>1, HandshakeAssumption, Phases DEF HInv, RequestInv
  <2>2. Lists(oack, options, Names)
    BY <1>1, ToPairsLists DEF HInv, ParameterInv
  <2>3. name \in DOMAIN options /\ oack[i].value = options[name]
    BY <2>2 DEF Lists
  <2>4. /\ name \in DOMAIN Requested
        /\ name = "blksize" => options[name] = Clamp(config, Requested.blksize)
        /\ name = "windowsize" => config.allow_windowsize /\ options[name] = Requested[name]
        /\ name = "timeout" => options[name] = Requested[name]
        /\ name = "tsize" => options[name] = IF Size = None THEN Requested[name] ELSE Size
    BY <2>3 DEF Granted, GrantsWindow
  <2> HIDE DEF name, options
  <2>5. PICK k \in DOMAIN frame.pairs :
          /\ frame.pairs[k].name = name
          /\ \A j \in DOMAIN frame.pairs : j > k => frame.pairs[j].name # name
          /\ Requested[name] = frame.pairs[k].value
          /\ Valid(name, frame.pairs[k].value)
    BY <2>1, <2>4, DecodedIsLast DEF Requested
  <2>6. name = "blksize" => /\ options[name] <= frame.pairs[k].value
                            /\ options[name] <= config.max_block_size
    BY <2>1, <2>4, <2>5, NegotiationAssumption DEF Clamp, Valid
  <2>7. /\ name = "windowsize" => config.allow_windowsize
                                   /\ options[name] = frame.pairs[k].value
        /\ name = "timeout" => options[name] = frame.pairs[k].value
        /\ name = "tsize" =>
             options[name] = IF Size = None THEN frame.pairs[k].value ELSE Size
    BY <2>4, <2>5
  <2>8. name = oack[i].name /\ oack[i].value = options[name]
    BY <2>3 DEF name
  <2> QED
    BY <2>5, <2>6, <2>7, <2>8
<1>2. HInv => OackAnswersRequest
  BY <1>1 DEF OackAnswersRequest, Answered
<1> QED
  BY <1>2, HandshakeInvariance, PTL

\* A request changes a file only if it is a write request that is going to be served.
THEOREM Touches == Spec => []TouchesOnlyWhatItServes
<1>1. ASSUME HInv, object = "new"
      PROVE  /\ phase \in Served
             /\ frame.opcode = "WRQ"
             /\ before = "nothing" \/ (before = "file" /\ config.allow_overwrite)
  <2>1. phase \in Served /\ frame.opcode = "WRQ"
    BY <1>1 DEF HInv, RequestInv
  <2>2. Opens(config, "WRQ", before) = "ok"
    BY <1>1, <2>1 DEF HInv, RequestInv, Verdict
  <2>3. before = "nothing" \/ (before = "file" /\ config.allow_overwrite)
    <3>1. CASE before = "nothing"
      BY <3>1
    <3>2. CASE before = "nowhere"
      BY <2>2, <3>2 DEF Opens
    <3>3. CASE before \in {"file", "forbidden", "directory"} /\ ~config.allow_overwrite
      BY <2>2, <3>3 DEF Opens
    <3>4. CASE before \in {"forbidden", "directory"} /\ config.allow_overwrite
      BY <2>2, <3>4 DEF Opens
    <3> QED
      BY <1>1, <3>1, <3>2, <3>3, <3>4 DEF HInv
  <2> QED
    BY <2>1, <2>3
<1>2. HInv => TouchesOnlyWhatItServes
  BY <1>1 DEF TouchesOnlyWhatItServes
<1> QED
  BY <1>2, HandshakeInvariance, PTL

\* No request that is served leads out of the root.
THEOREM Confinement == Spec => []Confined
<1>1. ASSUME HInv, phase \in Served
      PROVE  /\ ~frame.path.absolute
             /\ \A n \in 0 .. Len(frame.path.components) :
                  LET walked(c) == {i \in 1 .. n : frame.path.components[i] = c}
                  IN  Cardinality(walked("parent")) <= Cardinality(walked("normal"))
  <2> DEFINE components == frame.path.components
  <2>1. Resolves(frame.path)
    BY <1>1 DEF HInv, RequestInv, Verdict
  <2>2. components \in Seq({"normal", "cur", "parent"})
    BY <1>1, Phases DEF HInv, RequestInv
  <2>3. DOMAIN components = 1 .. Len(components) /\ Len(components) \in Nat
    BY <2>2
  <2>4. \A i \in DOMAIN components : components[i] # "parent"
    BY <2>1 DEF Resolves
  <2> HIDE DEF components
  <2>5. ASSUME NEW n \in 0 .. Len(components)
        PROVE  Cardinality({i \in 1 .. n : components[i] = "parent"})
                 <= Cardinality({i \in 1 .. n : components[i] = "normal"})
    <3> DEFINE normal == {i \in 1 .. n : components[i] = "normal"}
               parent == {i \in 1 .. n : components[i] = "parent"}
    <3>1. parent = {}
      BY <2>3, <2>4
    <3>2. IsFiniteSet(1 .. n)
      BY <2>3, FS_Interval
    <3>3. IsFiniteSet(normal)
      BY <3>2, FS_Subset
    <3>4. Cardinality(normal) \in Nat
      BY <3>3, FS_CardinalityType
    <3>5. Cardinality({}) = 0
      BY FS_EmptySet
    <3> HIDE DEF normal, parent
    <3>6. Cardinality(parent) <= Cardinality(normal)
      BY <3>1, <3>4, <3>5
    <3> QED
      BY <3>6 DEF normal, parent
  <2>6. ~frame.path.absolute
    BY <2>1 DEF Resolves
  <2> QED
    BY <2>5, <2>6 DEF components
<1>2. HInv => Confined
  BY <1>1 DEF Confined
<1> QED
  BY <1>2, HandshakeInvariance, PTL
=============================================================================
