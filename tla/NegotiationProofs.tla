-------------------------- MODULE NegotiationProofs --------------------------
(***************************************************************************)
(* Facts about the operators of Negotiation, for all values of the limits  *)
(* and defaults: what an OACK carries over the wire, and that client and   *)
(* server take the same parameters from it.                                *)
(***************************************************************************)
EXTENDS Negotiation, TLAPS

\* What decoding leaves of a set of options.
OptionSet(options) ==
  /\ options = [name \in DOMAIN options |-> options[name]]
  /\ DOMAIN options \subseteq Names
  /\ \A name \in DOMAIN options : Valid(name, options[name])

\* pairs are the items of options whose names are in S, each of them once.
Lists(pairs, options, S) ==
  /\ pairs \in Seq([name : Names, value : {options[n] : n \in DOMAIN options}])
  /\ \A i \in DOMAIN pairs : pairs[i].name \in S \cap DOMAIN options
                             /\ pairs[i].value = options[pairs[i].name]
  /\ \A i, j \in DOMAIN pairs : pairs[i].name = pairs[j].name => i = j
  /\ \A name \in S \cap DOMAIN options : \E i \in DOMAIN pairs : pairs[i].name = name

\* Writing one more item keeps the list what it is.
LEMMA WithItemLists ==
  ASSUME NEW pairs, NEW options, NEW S, NEW name \in Names, name \notin S,
         Lists(pairs, options, S)
  PROVE  Lists(WithItem(pairs, options, name), options, S \cup {name})
PROOF
<1> DEFINE item == [name |-> name, value |-> options[name]]
           T == [name : Names, value : {options[n] : n \in DOMAIN options}]
<1>1. CASE name \notin DOMAIN options
  BY <1>1 DEF WithItem, Lists
<1>2. CASE name \in DOMAIN options
  <2>1. WithItem(pairs, options, name) = Append(pairs, item)
    BY <1>2 DEF WithItem
  <2>2. pairs \in Seq(T) /\ item \in T
    BY <1>2 DEF Lists
  <2>3. /\ Append(pairs, item) \in Seq(T)
        /\ DOMAIN Append(pairs, item) = 1 .. Len(pairs) + 1
        /\ DOMAIN pairs = 1 .. Len(pairs) /\ Len(pairs) \in Nat
        /\ \A i \in 1 .. Len(pairs) : Append(pairs, item)[i] = pairs[i]
        /\ Append(pairs, item)[Len(pairs) + 1] = item
    BY <2>2
  <2> HIDE DEF T
  <2>4. item.name = name /\ item.value = options[name]
    OBVIOUS
  <2> HIDE DEF item
  <2>5. \A i \in 1 .. Len(pairs) + 1 : i \in DOMAIN pairs \/ i = Len(pairs) + 1
    BY <2>3
  <2> DEFINE longer == Append(pairs, item)
  <2>6. ASSUME NEW i \in DOMAIN longer
        PROVE  longer[i].name \in (S \cup {name}) \cap DOMAIN options
               /\ longer[i].value = options[longer[i].name]
    BY <1>2, <2>3, <2>4, <2>5 DEF Lists
  <2>7. ASSUME NEW i \in DOMAIN longer, NEW j \in DOMAIN longer,
               longer[i].name = longer[j].name
        PROVE  i = j
    BY <2>3, <2>4, <2>5, <2>7 DEF Lists
  <2>8. ASSUME NEW n \in (S \cup {name}) \cap DOMAIN options
        PROVE  \E i \in DOMAIN longer : longer[i].name = n
    <3>1. CASE n = name
      <4>1. Len(pairs) + 1 \in DOMAIN longer
        BY <2>3
      <4> QED
        BY <4>1, <3>1, <2>3, <2>4
    <3>2. CASE n # name
      <4>1. PICK i \in DOMAIN pairs : pairs[i].name = n
        BY <3>2, <2>8 DEF Lists
      <4>2. i \in DOMAIN longer /\ longer[i] = pairs[i]
        BY <2>3
      <4> QED
        BY <4>1, <4>2
    <3> QED
      BY <3>1, <3>2
  <2> QED
    BY <2>1, <2>3, <2>6, <2>7, <2>8 DEF Lists, T
<1> QED
  BY <1>1, <1>2

\* Encoding lists every option of the set, once.
LEMMA ToPairsLists ==
  ASSUME NEW options
  PROVE  Lists(ToPairs(options), options, Names)
PROOF
<1> DEFINE p1 == WithItem(<< >>, options, "blksize")
           p2 == WithItem(p1, options, "timeout")
           p3 == WithItem(p2, options, "tsize")
           p4 == WithItem(p3, options, "windowsize")
<1>0. Lists(<< >>, options, {})
  BY DEF Lists
<1>1. Lists(p1, options, {} \cup {"blksize"})
  BY <1>0, WithItemLists DEF Names
<1> HIDE DEF p1
<1>2. Lists(p2, options, ({} \cup {"blksize"}) \cup {"timeout"})
  BY <1>1, WithItemLists DEF Names
<1> HIDE DEF p2
<1>3. Lists(p3, options, (({} \cup {"blksize"}) \cup {"timeout"}) \cup {"tsize"})
  BY <1>2, WithItemLists DEF Names
<1> HIDE DEF p3
<1>4. Lists(p4, options,
            ((({} \cup {"blksize"}) \cup {"timeout"}) \cup {"tsize"}) \cup {"windowsize"})
  BY <1>3, WithItemLists DEF Names
<1>5. Names = ((({} \cup {"blksize"}) \cup {"timeout"}) \cup {"tsize"}) \cup {"windowsize"}
  BY DEF Names
<1>6. ToPairs(options) = p4
  BY DEF ToPairs, p1, p2, p3
<1> QED
  BY <1>4, <1>5, <1>6

\* What decoding yields is a set of options, whatever the packet holds.
LEMMA FromPairsOptionSet ==
  ASSUME NEW pairs
  PROVE  OptionSet(FromPairs(pairs))
PROOF
<1> DEFINE S == {n \in Names : Given(pairs, n) # {} /\ Valid(n, Latest(pairs, n))}
           options == FromPairs(pairs)
<1>1. options = [name \in S |-> Latest(pairs, name)]
  BY DEF FromPairs
<1>2. DOMAIN options = S /\ \A name \in S : options[name] = Latest(pairs, name)
  BY <1>1
<1>3. options = [name \in DOMAIN options |-> options[name]]
  BY <1>1
<1> HIDE DEF options
<1>4. \A name \in DOMAIN options : Valid(name, options[name])
  BY <1>2
<1> QED
  BY <1>2, <1>3, <1>4 DEF OptionSet, options

\* In a list that names an option once, that one pair is the one that counts.
LEMMA OnlyPairCounts ==
  ASSUME NEW pairs, NEW options, Lists(pairs, options, Names),
         NEW name \in Names \cap DOMAIN options
  PROVE  Given(pairs, name) # {} /\ Latest(pairs, name) = options[name]
PROOF
<1>1. PICK i \in DOMAIN pairs : pairs[i].name = name
  BY DEF Lists
<1>2. Given(pairs, name) = {i}
  BY <1>1 DEF Lists, Given
<1>3. i \in Nat
  BY DEF Lists
<1>4. (CHOOSE k \in {i} : \A j \in {i} : j <= k) = i
  BY <1>3
<1>5. Latest(pairs, name) = pairs[i].value
  BY <1>2, <1>4 DEF Latest
<1> QED
  BY <1>1, <1>2, <1>5 DEF Lists

\* A set of options comes over the wire as it is.
LEMMA DecodeEncode ==
  ASSUME NEW options, OptionSet(options)
  PROVE  FromPairs(ToPairs(options)) = options
PROOF
<1> DEFINE pairs == ToPairs(options)
           S == {n \in Names : Given(pairs, n) # {} /\ Valid(n, Latest(pairs, n))}
<1>1. Lists(pairs, options, Names)
  BY ToPairsLists
<1> HIDE DEF pairs
<1>2. ASSUME NEW n \in Names, n \notin DOMAIN options
      PROVE  Given(pairs, n) = {}
  BY <1>1, <1>2 DEF Lists, Given
<1>3. \A n \in DOMAIN options : Given(pairs, n) # {} /\ Latest(pairs, n) = options[n]
  BY <1>1, OnlyPairCounts DEF OptionSet
<1>4. S = DOMAIN options
  BY <1>2, <1>3 DEF OptionSet
<1>5. FromPairs(pairs) = [name \in S |-> Latest(pairs, name)]
  BY DEF FromPairs
<1> HIDE DEF S
<1>6. [name \in S |-> Latest(pairs, name)] = [name \in DOMAIN options |-> options[name]]
  BY <1>3, <1>4
<1> QED
  BY <1>5, <1>6 DEF OptionSet, pairs

-----------------------------------------------------------------------------
(* The server's answer.                                                    *)

\* What clamp makes of a valid blksize is valid, unless it panics.
LEMMA ClampValid ==
  ASSUME NEW config, config.max_block_size \in Nat, config.max_block_size >= MinBlockSize,
         NEW blksize, Valid("blksize", blksize)
  PROVE  Valid("blksize", Clamp(config, blksize))
BY NegotiationAssumption DEF Valid, Clamp

\* What a server grants is a set of options, which the client will decode as it is.
LEMMA GrantedOptionSet ==
  ASSUME NEW config, config.max_block_size \in Nat, NEW requested, OptionSet(requested),
         ~ClampPanics(config, requested), NEW size \in (0 .. MaxU64) \cup {None}
  PROVE  OptionSet(Granted(config, requested, size))
PROOF
<1> DEFINE options == Granted(config, requested, size)
<1>1. options = [name \in DOMAIN options |-> options[name]]
  BY DEF Granted
<1>2. /\ DOMAIN options \subseteq DOMAIN requested
      /\ \A name \in DOMAIN options : options[name] =
           CASE name = "blksize" -> Clamp(config, requested.blksize)
             [] name = "tsize" /\ size # None -> size
             [] OTHER -> requested[name]
  BY DEF Granted, GrantsWindow
<1> HIDE DEF options
<1>3. ASSUME NEW name \in DOMAIN options
      PROVE  Valid(name, options[name])
  <2>1. name \in DOMAIN requested /\ Valid(name, requested[name])
    BY <1>2 DEF OptionSet
  <2>2. CASE name = "blksize"
    <3>1. config.max_block_size >= MinBlockSize
      BY <2>1, <2>2, NegotiationAssumption DEF ClampPanics
    <3>2. Valid("blksize", Clamp(config, requested.blksize))
      BY <2>1, <2>2, <3>1, ClampValid
    <3> QED
      BY <1>2, <2>2, <3>2
  <2>3. CASE name = "tsize" /\ size # None
    <3>1. options[name] = size /\ size \in 0 .. MaxU64
      BY <1>2, <2>3
    <3> QED
      BY <2>3, <3>1 DEF Valid
  <2>4. CASE name # "blksize" /\ ~(name = "tsize" /\ size # None)
    BY <1>2, <2>1, <2>4
  <2> QED
    BY <2>2, <2>3, <2>4
<1> QED
  BY <1>1, <1>2, <1>3 DEF OptionSet, options

\* The parameters that a client takes from the OACK, or from there being none,
\* are those that the server has taken from the request.
THEOREM OackTellsAll ==
  ASSUME NEW config, config.max_block_size \in Nat, NEW requested, OptionSet(requested),
         ~ClampPanics(config, requested), NEW size \in (0 .. MaxU64) \cup {None}
  PROVE  MergeOack(Defaults, FromPairs(ToPairs(Granted(config, requested, size))))
           = Negotiated(config, requested)
PROOF
<1> DEFINE options == Granted(config, requested, size)
<1>1. FromPairs(ToPairs(options)) = options
  BY GrantedOptionSet, DecodeEncode
<1>2. /\ \A name \in {"blksize", "timeout"} : name \in DOMAIN options <=> name \in DOMAIN requested
      /\ "windowsize" \in DOMAIN options <=> GrantsWindow(config, requested)
  BY DEF Granted, GrantsWindow
<1>3. /\ "blksize" \in DOMAIN options => options.blksize = Clamp(config, requested.blksize)
      /\ "timeout" \in DOMAIN options => options.timeout = requested.timeout
      /\ "windowsize" \in DOMAIN options => options.windowsize = requested.windowsize
  BY DEF Granted
<1> HIDE DEF options
<1>4. MergeOack(Defaults, options) = Negotiated(config, requested)
  BY <1>2, <1>3 DEF MergeOack, Negotiated, OrElse, Defaults
<1> QED
  BY <1>1, <1>4 DEF options

\* The parameters of a server lie within the limits of the options.
LEMMA NegotiatedValid ==
  ASSUME NEW config, config.max_block_size \in Nat, NEW requested, OptionSet(requested),
         ~ClampPanics(config, requested)
  PROVE  Negotiated(config, requested) \in
           [blksize : MinBlockSize .. MaxBlockSize, timeout : 1 .. MaxU8,
            windowsize : 1 .. MaxU16]
PROOF
<1> DEFINE neg == Negotiated(config, requested)
<1>1. neg.blksize \in MinBlockSize .. MaxBlockSize
  <2>1. CASE "blksize" \in DOMAIN requested
    <3>1. config.max_block_size >= MinBlockSize
      BY <2>1, NegotiationAssumption DEF ClampPanics
    <3>2. Valid("blksize", Clamp(config, requested.blksize))
      BY <2>1, <3>1, ClampValid DEF OptionSet
    <3> QED
      BY <2>1, <3>2 DEF Valid, Negotiated
  <2>2. CASE "blksize" \notin DOMAIN requested
    BY <2>2, NegotiationAssumption DEF Negotiated
  <2> QED
    BY <2>1, <2>2
<1>2. neg.timeout \in 1 .. MaxU8
  BY NegotiationAssumption DEF Negotiated, OrElse, OptionSet, Valid
<1>3. neg.windowsize \in 1 .. MaxU16
  BY NegotiationAssumption DEF Negotiated, GrantsWindow, OptionSet, Valid
<1> QED
  BY <1>1, <1>2, <1>3 DEF Negotiated
=============================================================================
