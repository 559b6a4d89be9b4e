--------------------------- MODULE SessionProofs ----------------------------
(***************************************************************************)
(* Proofs about what an end reads from its peer and what comes of it:      *)
(* sessions, for every set of ends, of offers and of descriptions, and     *)
(* RTCP packets, for every content, every buffer and every datagram.       *)
(*                                                                         *)
(* What a parser leaves is found by induction, over the lines of a         *)
(* description and over the bits of a request.  The provers do not         *)
(* instantiate the library's induction theorems, which take a predicate;   *)
(* that every set of naturals has a least element they do, and a predicate *)
(* is the set of numbers it holds of.                                      *)
(***************************************************************************)
EXTENDS Session, MCRtcp, SeqArithProofs, TLAPS, SequenceTheorems,
        FiniteSetTheorems, WellFoundedInduction

(* Every set of naturals that is not empty has a least element.            *)
LEMMA LeastNatural ==
  ASSUME NEW T \in SUBSET Nat, T # {}
  PROVE  \E n \in T : \A m \in T : n <= m
<1> DEFINE Less == {pair \in Nat \X Nat : pair[1] < pair[2]}
<1>1. OpToRel(<, Nat) = Less
  BY Zenon DEF OpToRel
<1>2. IsWellFoundedOn(Less, Nat)
  BY <1>1, NatLessThanWellFounded, Zenon
<1>3. ASSUME NEW m \in Nat, NEW n \in Nat, m < n
      PROVE  <<m, n>> \in Less
  BY <1>3
<1> HIDE DEF Less
<1>4. PICK n \in T : \A m \in T : <<m, n>> \notin Less
  BY <1>2, WFMin, Zenon
<1>5. ASSUME NEW m \in T  PROVE n <= m
  <2>1. m \in Nat /\ n \in Nat
    OBVIOUS
  <2>2. ~ (m < n)
    BY <1>3, <1>4, <2>1
  <2> QED  BY <2>1, <2>2
<1> QED  BY <1>5

(* A set with zero and every successor of its elements has all naturals.   *)
LEMMA SetInduction ==
  ASSUME NEW T \in SUBSET Nat, 0 \in T, \A n \in T : n + 1 \in T
  PROVE  \A n \in Nat : n \in T
<1>1. SUFFICES ASSUME Nat \ T # {}  PROVE FALSE
  OBVIOUS
<1>2. PICK n \in Nat \ T : \A m \in Nat \ T : n <= m
  BY <1>1, LeastNatural
<1>3. n \in Nat /\ n # 0
  BY <1>2
<1>4. n - 1 \in Nat /\ ~ (n <= n - 1) /\ (n - 1) + 1 = n
  BY <1>3
<1>5. n - 1 \in T
  BY <1>2, <1>4
<1> QED  BY <1>2, <1>4, <1>5

-----------------------------------------------------------------------------
(* What the parser keeps from line to line.                                *)
ParserStates ==
  [audio : SdpMedia, video : SdpMedia,
   section : Kinds \cup {"none"}, failed : BOOLEAN]

LEMMA ParseLineType ==
  ASSUME NEW sdp \in ParserStates, NEW line \in Lines
  PROVE  ParseLine(sdp, line) \in ParserStates
<1>1. CASE sdp.failed
  BY <1>1 DEF ParseLine
<1>2. CASE ~ sdp.failed /\ line.type = "m"
  <2>1. ParseLine(sdp, line) = BeginSection(sdp, line.kind)
    BY <1>2 DEF ParseLine
  <2>2. CASE line.kind = "audio"
    <3> DEFINE inside == [sdp EXCEPT !.section = "audio"]
    <3>1. inside \in ParserStates /\ inside.audio \in SdpMedia
      BY DEF ParserStates, Kinds
    <3>2. ParseLine(sdp, line) =
            [inside EXCEPT !.audio = [inside.audio EXCEPT !.present = TRUE]]
      BY <2>1, <2>2, Zenon DEF BeginSection, Kinds
    <3> HIDE DEF inside
    <3>3. [inside.audio EXCEPT !.present = TRUE] \in SdpMedia
      BY <3>1 DEF SdpMedia
    <3> QED  BY <3>1, <3>2, <3>3 DEF ParserStates
  <2>3. CASE line.kind = "video"
    <3> DEFINE inside == [sdp EXCEPT !.section = "video"]
    <3>1. inside \in ParserStates /\ inside.video \in SdpMedia
      BY DEF ParserStates, Kinds
    <3>2. ParseLine(sdp, line) =
            [inside EXCEPT !.video = [inside.video EXCEPT !.present = TRUE]]
      BY <2>1, <2>3, Zenon DEF BeginSection, Kinds
    <3> HIDE DEF inside
    <3>3. [inside.video EXCEPT !.present = TRUE] \in SdpMedia
      BY <3>1 DEF SdpMedia
    <3> QED  BY <3>1, <3>2, <3>3 DEF ParserStates
  <2>4. CASE line.kind \notin Kinds
    BY <2>1, <2>4 DEF BeginSection, ParserStates
  <2> QED  BY <2>2, <2>3, <2>4 DEF Kinds
<1>3. CASE ~ sdp.failed /\ line.type = "rtpmap"
  <2>1. /\ ParseLine(sdp, line) = MapCodec(sdp, line)
        /\ line.pt \in Types /\ line.codec \in Codecs
    BY <1>3 DEF ParseLine, Lines
  <2>2. CASE sdp.section = "audio"
    BY <2>1, <2>2 DEF MapCodec, ParserStates, Kinds, SdpMedia
  <2>3. CASE sdp.section = "video"
    BY <2>1, <2>3 DEF MapCodec, ParserStates, Kinds, SdpMedia
  <2>4. CASE sdp.section \notin Kinds
    BY <2>1, <2>4 DEF MapCodec, ParserStates
  <2> QED  BY <2>2, <2>3, <2>4 DEF Kinds
<1>4. CASE ~ sdp.failed /\ line.type = "bad"
  <2>1. ParseLine(sdp, line) = [sdp EXCEPT !.failed = TRUE]
    BY <1>4 DEF ParseLine
  <2> QED  BY <2>1 DEF ParserStates
<1> QED  BY <1>1, <1>2, <1>3, <1>4 DEF Lines

(* After n lines, for every n: the function that mezia_sdp_parse computes  *)
(* line by line exists, and all its values are states of the parser.       *)
LEMMA ParseType ==
  ASSUME NEW text \in Seq(Lines)
  PROVE  Parse(text) \in ParserStates
<1> DEFINE Line(g, i) == ParseLine(g[i - 1], text[i])
           Run(g, n) == g = [i \in 0 .. n |-> IF i = 0 THEN EmptySdp
                                              ELSE Line(g, i)]
           T == {n \in Nat : \E g : Run(g, n)}
<1>1. 0 \in T
  <2>1. Run([i \in 0 .. 0 |-> EmptySdp], 0)
    OBVIOUS
  <2> QED  BY <2>1
<1>2. ASSUME NEW n \in T  PROVE n + 1 \in T
  <2>1. n \in Nat
    OBVIOUS
  <2>2. PICK g : Run(g, n)
    OBVIOUS
  <2> DEFINE h == [i \in 0 .. n + 1 |-> IF i = n + 1 THEN Line(g, n + 1)
                                        ELSE g[i]]
  <2>3. ASSUME NEW i \in 0 .. n + 1
        PROVE  h[i] = IF i = 0 THEN EmptySdp ELSE Line(h, i)
    <3>1. CASE i = n + 1
      <4>1. h[i] = ParseLine(g[n], text[n + 1])
        BY <2>1, <3>1
      <4>2. h[n] = g[n] /\ i # 0 /\ i - 1 = n
        BY <2>1, <3>1
      <4> QED  BY <3>1, <4>1, <4>2
    <3>2. CASE i # n + 1
      <4>1. i \in 0 .. n /\ h[i] = g[i]
        BY <2>1, <3>2
      <4>2. g[i] = IF i = 0 THEN EmptySdp ELSE ParseLine(g[i - 1], text[i])
        BY <2>2, <4>1, Zenon
      <4>3. i # 0 => h[i - 1] = g[i - 1]
        BY <2>1, <4>1
      <4> QED  BY <4>1, <4>2, <4>3
    <3> QED  BY <3>1, <3>2
  <2>4. Run(h, n + 1)
    <3>1. h = [i \in 0 .. n + 1 |-> h[i]]
      OBVIOUS
    <3> HIDE DEF h
    <3> QED  BY <2>3, <3>1
  <2>5. \E k : Run(k, n + 1)
    BY <2>4
  <2> QED  BY <2>1, <2>5
<1>3. Len(text) \in T
  <2>1. T \in SUBSET Nat
    OBVIOUS
  <2>2. Len(text) \in Nat
    BY LenProperties
  <2> HIDE DEF T
  <2> QED  BY <1>1, <1>2, <2>1, <2>2, SetInduction
<1>4. PICK after : Run(after, Len(text)) /\ Parse(text) = after[Len(text)]
  <2>1. \E g : Run(g, Len(text))
    BY <1>3
  <2> DEFINE f == CHOOSE g : Run(g, Len(text))
  <2>2. Run(f, Len(text))
    BY <2>1, Zenon
  <2>3. Parse(text) = f[Len(text)]
    BY Zenon DEF Parse
  <2> QED  BY <2>2, <2>3
<1> DEFINE U == {n \in Nat : n <= Len(text) => after[n] \in ParserStates}
<1>5. Len(text) \in Nat
  BY LenProperties
<1>6. 0 \in U
  <2>1. after[0] = EmptySdp
    BY <1>4, <1>5
  <2>2. EmptySdp \in ParserStates
    BY DEF EmptySdp, Blank, ParserStates, SdpMedia, Types
  <2> QED  BY <2>1, <2>2
<1>7. ASSUME NEW n \in U  PROVE n + 1 \in U
  <2>1. n \in Nat /\ n + 1 \in Nat /\ n + 1 # 0 /\ (n + 1) - 1 = n
    OBVIOUS
  <2>2. CASE n + 1 <= Len(text)
    <3>1. n + 1 \in 0 .. Len(text) /\ n + 1 \in 1 .. Len(text)
          /\ n <= Len(text)
      BY <1>5, <2>1, <2>2
    <3>2. after[n + 1] = ParseLine(after[(n + 1) - 1], text[n + 1])
      BY <1>4, <2>1, <3>1, Zenon
    <3>3. text[n + 1] \in Lines /\ after[n] \in ParserStates
      BY <3>1, ElementOfSeq
    <3> QED  BY <2>1, <3>2, <3>3, ParseLineType
  <2> QED  BY <2>1, <2>2
<1>8. Len(text) \in U
  <2>1. U \in SUBSET Nat
    OBVIOUS
  <2> HIDE DEF U
  <2> QED  BY <1>5, <1>6, <1>7, <2>1, SetInduction
<1> QED  BY <1>4, <1>5, <1>8

(* What a description that may be given leaves in the session.             *)
LEMMA DescriptionType ==
  ASSUME NEW text \in Texts
  PROVE  /\ Description(Parse(text)) \in Sdp
         /\ Accepted(Parse(text)) \in BOOLEAN
<1>1. Parse(text) \in ParserStates
  BY SessionAssumption, ParseType
<1> DEFINE sdp == Parse(text)
<1> HIDE DEF sdp
<1>2. ASSUME sdp \in ParserStates
      PROVE  Description(sdp) \in Sdp /\ Accepted(sdp) \in BOOLEAN
  <2>1. sdp["audio"] \in SdpMedia /\ sdp["video"] \in SdpMedia
    BY <1>2 DEF ParserStates
  <2>2. Description(sdp) \in Sdp
    BY <2>1 DEF Description, Sdp, Kinds
  <2>3. Accepted(sdp) \in BOOLEAN
    BY DEF Accepted
  <2> QED  BY <2>2, <2>3
<1> QED  BY <1>1, <1>2 DEF sdp

-----------------------------------------------------------------------------
(* An engine has the types its session negotiates, which do not change as  *)
(* long as the engine exists, and two kinds never share one.               *)
EngineAsNegotiated ==
  \A e \in Ends :
    media[e] # None => /\ media[e] = Negotiated(e)
                       /\ media[e].audio # media[e].video

(* Start ends with the session started or with its engine destroyed.       *)
StartingIsNotStarted == \A e \in Ends : ~ (starting[e] /\ started[e])

SessionIInv == SessionTypeOK /\ EngineAsNegotiated /\ StartingIsNotStarted

LEMMA NegotiatedType ==
  ASSUME SessionTypeOK, NEW e \in Ends
  PROVE  Negotiated(e) \in [Kinds -> Types] /\ Negotiated(e) # None
<1>1. ASSUME NEW kind \in Kinds  PROVE NegotiatedPt(e, kind) \in Types
  <2>1. /\ local[e][kind].payload_type \in Types
        /\ remote[e][kind].payload_type \in Types
    BY DEF SessionTypeOK, Sdp, SdpMedia
  <2>2. Default[kind] \in Types
    BY DEF Default, Types, Kinds
  <2> QED  BY <2>1, <2>2 DEF NegotiatedPt
<1>2. 0 \in Types
  BY DEF Types
<1> QED  BY <1>1, <1>2, SessionAssumption DEF Negotiated

LEMMA SessionInitial == SessionInit => SessionIInv
<1> SUFFICES ASSUME SessionInit  PROVE SessionIInv
  OBVIOUS
<1>1. Description(EmptySdp) \in Sdp
  <2>1. Blank \in SdpMedia
    BY DEF Blank, SdpMedia, Types
  <2>2. EmptySdp["audio"] = Blank /\ EmptySdp["video"] = Blank
    BY DEF EmptySdp
  <2>3. \A kind \in Kinds : EmptySdp[kind] \in SdpMedia
    BY <2>1, <2>2 DEF Kinds
  <2> QED  BY <2>3 DEF Description, Sdp
<1>2. \A e \in Ends : media[e] = None /\ ~ starting[e] /\ ~ started[e]
  BY DEF SessionInit
<1>3. SessionTypeOK
  BY <1>1 DEF SessionInit, SessionTypeOK
<1> QED  BY <1>2, <1>3 DEF SessionIInv, EngineAsNegotiated,
                           StartingIsNotStarted

(* A description is given only while there is no engine.                   *)
LEMMA SetKeeps ==
  ASSUME SessionIInv, NEW e \in Ends, SetLocal(e) \/ SetRemote(e)
  PROVE  SessionIInv'
<1>1. PICK text \in Texts :
        /\ Idle(e) /\ ~ started[e]
        /\ UNCHANGED <<open, media, starting, started>>
        /\ \/ /\ local' = [local EXCEPT ![e] = Description(Parse(text))]
              /\ have_local' =
                   [have_local EXCEPT ![e] = @ \/ Accepted(Parse(text))]
              /\ UNCHANGED <<remote, have_remote>>
           \/ /\ remote' = [remote EXCEPT ![e] = Description(Parse(text))]
              /\ have_remote' =
                   [have_remote EXCEPT ![e] = @ \/ Accepted(Parse(text))]
              /\ UNCHANGED <<local, have_local>>
  BY Zenon DEF SetLocal, SetRemote
<1>2. /\ Description(Parse(text)) \in Sdp
      /\ Accepted(Parse(text)) \in BOOLEAN
  BY DescriptionType
<1>3. media[e] = None
  BY <1>1 DEF Idle, SessionIInv, SessionTypeOK
<1>4. local' \in [Ends -> Sdp] /\ remote' \in [Ends -> Sdp]
  BY <1>1, <1>2 DEF SessionIInv, SessionTypeOK
<1>5. have_local' \in [Ends -> BOOLEAN] /\ have_remote' \in [Ends -> BOOLEAN]
  BY <1>1, <1>2 DEF SessionIInv, SessionTypeOK
<1>6. SessionTypeOK'
  BY <1>1, <1>4, <1>5 DEF SessionIInv, SessionTypeOK
<1>7. ASSUME NEW o \in Ends, media'[o] # None
      PROVE  /\ media'[o] = Negotiated(o)'
             /\ media'[o].audio # media'[o].video
  <2>1. o # e /\ media'[o] = media[o]
    BY <1>1, <1>3, <1>7
  <2>2. local'[o] = local[o] /\ remote'[o] = remote[o]
    BY <1>1, <2>1 DEF SessionIInv, SessionTypeOK
  <2>3. Negotiated(o)' = Negotiated(o)
    BY <2>2 DEF Negotiated, Wanted, NegotiatedPt
  <2> QED  BY <1>7, <2>1, <2>3 DEF SessionIInv, EngineAsNegotiated
<1>8. StartingIsNotStarted'
  BY <1>1 DEF SessionIInv, StartingIsNotStarted
<1> QED  BY <1>6, <1>7, <1>8 DEF SessionIInv, EngineAsNegotiated

LEMMA SessionStep ==
  ASSUME SessionIInv, [SessionNext]_sessionVars
  PROVE  SessionIInv'
<1>1. ASSUME UNCHANGED descriptions
      PROVE  \A e : Negotiated(e)' = Negotiated(e)
  BY <1>1 DEF descriptions, Negotiated, Wanted, NegotiatedPt
<1>2. ASSUME NEW e \in Ends, CreateMedia(e)  PROVE SessionIInv'
  <2>1. /\ open[e] /\ ~ starting[e] /\ ~ started[e]
        /\ Negotiated(e).audio # Negotiated(e).video
        /\ media' = [media EXCEPT ![e] = Negotiated(e)]
        /\ starting' = [starting EXCEPT ![e] = TRUE]
        /\ UNCHANGED <<open, descriptions, started>>
    BY <1>2 DEF CreateMedia, Idle
  <2>2. Negotiated(e) \in [Kinds -> Types] /\ Negotiated(e) # None
    BY NegotiatedType DEF SessionIInv
  <2>3. \A o : Negotiated(o)' = Negotiated(o)
    BY <1>1, <2>1
  <2>4. SessionTypeOK'
    BY <2>1, <2>2 DEF SessionIInv, SessionTypeOK, descriptions
  <2>5. EngineAsNegotiated'
    BY <2>1, <2>3 DEF SessionIInv, SessionTypeOK, EngineAsNegotiated
  <2>6. StartingIsNotStarted'
    BY <2>1 DEF SessionIInv, SessionTypeOK, StartingIsNotStarted
  <2> QED  BY <2>4, <2>5, <2>6 DEF SessionIInv
<1>3. ASSUME NEW e \in Ends, StartMedia(e)  PROVE SessionIInv'
  <2>1. /\ starting[e] /\ UNCHANGED <<open, descriptions>>
        /\ ~ started[e]
        /\ starting' = [starting EXCEPT ![e] = FALSE]
        /\ \/ started' = [started EXCEPT ![e] = TRUE] /\ media' = media
           \/ media' = [media EXCEPT ![e] = None] /\ started' = started
    BY <1>3 DEF StartMedia, MediaStarts, MediaFails, SessionIInv,
                StartingIsNotStarted
  <2>2. \A o : Negotiated(o)' = Negotiated(o)
    BY <1>1, <2>1
  <2>3. EngineAsNegotiated'
    BY <2>1, <2>2 DEF SessionIInv, SessionTypeOK, EngineAsNegotiated
  <2>4. CASE started' = [started EXCEPT ![e] = TRUE] /\ media' = media
    <3>1. media[e] # None /\ open[e]
      BY <2>1 DEF SessionIInv, SessionTypeOK
    <3>2. SessionTypeOK'
      BY <2>1, <2>4, <3>1 DEF SessionIInv, SessionTypeOK, descriptions
    <3>3. StartingIsNotStarted'
      BY <2>1, <2>4 DEF SessionIInv, SessionTypeOK, StartingIsNotStarted
    <3> QED  BY <2>3, <3>2, <3>3 DEF SessionIInv
  <2>5. CASE media' = [media EXCEPT ![e] = None] /\ started' = started
    <3>1. SessionTypeOK'
      BY <2>1, <2>5 DEF SessionIInv, SessionTypeOK, descriptions
    <3>2. StartingIsNotStarted'
      BY <2>1, <2>5 DEF SessionIInv, SessionTypeOK, StartingIsNotStarted
    <3> QED  BY <2>3, <3>1, <3>2 DEF SessionIInv
  <2> QED  BY <2>1, <2>4, <2>5
<1>4. ASSUME NEW e \in Ends, Close(e)  PROVE SessionIInv'
  <2>1. /\ open[e] /\ ~ starting[e]
        /\ UNCHANGED <<descriptions, starting>>
        /\ open' = [open EXCEPT ![e] = FALSE]
        /\ media' = [media EXCEPT ![e] = None]
        /\ started' = [started EXCEPT ![e] = FALSE]
    BY <1>4 DEF Close, Idle
  <2>2. SessionTypeOK'
    BY <2>1 DEF SessionIInv, SessionTypeOK, descriptions
  <2>3. \A o : Negotiated(o)' = Negotiated(o)
    BY <1>1, <2>1
  <2>4. EngineAsNegotiated'
    BY <2>1, <2>3 DEF SessionIInv, SessionTypeOK, EngineAsNegotiated
  <2>5. StartingIsNotStarted'
    BY <2>1 DEF SessionIInv, SessionTypeOK, StartingIsNotStarted
  <2> QED  BY <2>2, <2>4, <2>5 DEF SessionIInv
<1>5. CASE UNCHANGED sessionVars
  <2>1. /\ UNCHANGED <<open, descriptions, media, starting, started>>
        /\ \A o : Negotiated(o)' = Negotiated(o)
    BY <1>1, <1>5 DEF sessionVars
  <2> QED  BY <2>1 DEF SessionIInv, SessionTypeOK, EngineAsNegotiated,
                       StartingIsNotStarted, descriptions
<1> QED  BY <1>2, <1>3, <1>4, <1>5, SetKeeps DEF SessionNext

(* Every variable has its type, whatever descriptions are given, and       *)
(* exactly a session that starts or runs has an engine.                    *)
THEOREM SessionTypes == SessionSpec => []SessionTypeOK
<1>1. SessionIInv /\ [SessionNext]_sessionVars => SessionIInv'
  BY SessionStep
<1>2. SessionIInv => SessionTypeOK
  BY DEF SessionIInv
<1> QED  BY SessionInitial, <1>1, <1>2, PTL DEF SessionSpec

(* Ends that exchanged their descriptions negotiate the same type.         *)
LEMMA SameNegotiated ==
  ASSUME SessionTypeOK, NEW e \in Ends, NEW o \in Ends, NEW kind \in Kinds,
         Exchanged(e, o), SameType(e, kind)
  PROVE  NegotiatedPt(e, kind) = NegotiatedPt(o, kind)
BY DEF SessionTypeOK, Sdp, SdpMedia, Exchanged, SameType, NegotiatedPt

LEMMA IInvImpliesHear == SessionIInv => EndsHear
<1> SUFFICES ASSUME SessionIInv,
                    NEW e \in Ends, NEW o \in Ends,
                    started[e], started[o], Exchanged(e, o),
                    NEW kind \in Kinds, Audible(e, o, kind)
             PROVE  Dispatch(media[o], media[e][kind]) = kind
  BY DEF EndsHear
<1>1. /\ media[e] = Negotiated(e) /\ media[o] = Negotiated(o)
      /\ media[o].audio # media[o].video
  BY DEF SessionIInv, SessionTypeOK, EngineAsNegotiated
<1>2. /\ Offers[e][kind] /\ Offers[o][kind] /\ SameType(e, kind)
      /\ media[e][kind] # 0 /\ media[e][kind] # CONTROL
  BY DEF Audible
<1>3. /\ Wanted(e, kind)
      /\ media[e][kind] = NegotiatedPt(e, kind)
  BY <1>1, <1>2 DEF Negotiated
<1>4. Wanted(o, kind)
  BY <1>2, <1>3 DEF Wanted, Exchanged
<1>5. media[o][kind] = media[e][kind]
  <2>1. NegotiatedPt(e, kind) = NegotiatedPt(o, kind)
    BY <1>2, SameNegotiated DEF SessionIInv
  <2> QED  BY <1>1, <1>3, <1>4, <2>1 DEF Negotiated
<1> QED  BY <1>1, <1>2, <1>5 DEF Dispatch, Kinds

(* Ends that were each given what the other was hear each other, for every *)
(* set of descriptions that agree on a type or leave it out.               *)
THEOREM SessionEndsHear == SessionSpec => []EndsHear
<1>1. SessionIInv /\ [SessionNext]_sessionVars => SessionIInv'
  BY SessionStep
<1> QED  BY SessionInitial, <1>1, IInvImpliesHear, PTL DEF SessionSpec

-----------------------------------------------------------------------------
(* A word and an offset in it, as a place in the sequence of all offsets.  *)
Index(p) == OFFSETS * (p[1] - 1) + p[2]

PlacesBelow(words, n) == {p \in Places(words) : Index(p) < n}

(* Places are numbered in the order in which they are read.                *)
LEMMA PlaceOrder ==
  ASSUME NEW words, Len(words) \in Nat,
         NEW p \in Places(words),
         NEW q, q \in (1 .. Len(words)) \X (0 .. OFFSETS - 1)
  PROVE  /\ Index(p) \in Nat /\ Index(p) < OFFSETS * Len(words)
         /\ PlaceBefore(p, q) <=> Index(p) < Index(q)
         /\ Index(p) = Index(q) => p = q
<1> DEFINE w == p[1]
           o == p[2]
           v == q[1]
           u == q[2]
<1>1. /\ w \in 1 .. Len(words) /\ o \in 0 .. 16 /\ p = <<w, o>>
      /\ v \in 1 .. Len(words) /\ u \in 0 .. 16 /\ q = <<v, u>>
  BY DEF Places, OFFSETS
<1>2. /\ Index(p) = 17 * (w - 1) + o /\ Index(q) = 17 * (v - 1) + u
      /\ PlaceBefore(p, q) <=> w < v \/ (w = v /\ o < u)
  BY DEF Index, OFFSETS, PlaceBefore
<1> HIDE DEF w, o, v, u
<1>3. /\ 17 * (w - 1) + o \in Nat
      /\ 17 * (w - 1) + o < 17 * Len(words)
  BY <1>1
<1>4. (w < v \/ (w = v /\ o < u)) <=> 17 * (w - 1) + o < 17 * (v - 1) + u
  BY <1>1
<1>5. 17 * (w - 1) + o = 17 * (v - 1) + u => w = v /\ o = u
  BY <1>1
<1> QED  BY <1>1, <1>2, <1>3, <1>4, <1>5 DEF OFFSETS

(* The places before one are those with a lower index.                     *)
LEMMA PlacesBefore ==
  ASSUME NEW words, Len(words) \in Nat, NEW p \in Places(words)
  PROVE  /\ Rank(words, p) = Cardinality(PlacesBelow(words, Index(p)))
         /\ \A n \in Nat : p \in PlacesBelow(words, n) <=> Index(p) < n
<1>1. {q \in Places(words) : PlaceBefore(q, p)} =
      PlacesBelow(words, Index(p))
  <2>1. \A q \in Places(words) : PlaceBefore(q, p) <=> Index(q) < Index(p)
    BY PlaceOrder DEF Places
  <2> QED  BY <2>1, Zenon DEF PlacesBelow
<1> QED  BY <1>1, Zenon DEF Rank, PlacesBelow

(* The word and the offset that are looked at next.                        *)
LEMMA PlaceAt ==
  ASSUME NEW words, Len(words) \in Nat,
         NEW n \in Nat, n < OFFSETS * Len(words)
  PROVE  LET q == <<(n \div OFFSETS) + 1, n % OFFSETS>> IN
         /\ q[1] \in 1 .. Len(words) /\ q[2] \in 0 .. OFFSETS - 1
         /\ Index(q) = n
         /\ q \in Places(words) <=> Asks(words[q[1]], q[2])
<1> DEFINE d == n \div 17
           o == n % 17
<1>1. d \in Nat /\ o \in 0 .. 16 /\ n = 17 * d + o
  OBVIOUS
<1> HIDE DEF d, o
<1>2. n < 17 * Len(words)
  BY DEF OFFSETS
<1>3. d + 1 \in 1 .. Len(words) /\ 17 * ((d + 1) - 1) + o = n
  BY <1>1, <1>2
<1> DEFINE q == <<d + 1, o>>
<1>4. q[1] = d + 1 /\ q[2] = o
  OBVIOUS
<1>5. Index(q) = n
  BY <1>3, <1>4 DEF Index, OFFSETS
<1>6. OFFSETS = 17 /\ 0 .. OFFSETS - 1 = 0 .. 16
  BY DEF OFFSETS
<1>7. q \in Places(words) <=> Asks(words[q[1]], q[2])
  <2>1. q \in (1 .. Len(words)) \X (0 .. OFFSETS - 1)
    BY <1>1, <1>3, <1>6
  <2> HIDE DEF q
  <2> QED  BY <2>1, Zenon DEF Places
<1>8. d = n \div OFFSETS /\ o = n % OFFSETS
  BY <1>6 DEF d, o
<1> HIDE DEF q
<1>9. /\ q[1] \in 1 .. Len(words) /\ q[2] \in 0 .. OFFSETS - 1
  BY <1>1, <1>3, <1>4, <1>6, Zenon
<1> QED  BY <1>5, <1>7, <1>8, <1>9, Zenon DEF q

(* One place more is below the next index, if that place is asked for.     *)
LEMMA PlacesGrow ==
  ASSUME NEW words, Len(words) \in Nat, NEW n \in Nat, NEW q,
         Index(q) = n
  PROVE  /\ q \in Places(words) =>
              PlacesBelow(words, n + 1) = PlacesBelow(words, n) \cup {q}
         /\ q \notin PlacesBelow(words, n)
         /\ (\A p \in Places(words) : Index(p) # n) =>
              PlacesBelow(words, n + 1) = PlacesBelow(words, n)
<1>1. \A p \in Places(words) :
        /\ Index(p) \in Nat
        /\ Index(p) < n + 1 <=> Index(p) < n \/ Index(p) = n
  BY PlaceOrder DEF Places
<1>2. q \in Places(words) => \A p \in Places(words) : Index(p) = n => p = q
  BY PlaceOrder DEF Places
<1>3. Index(q) < n + 1 /\ ~ (Index(q) < n)
  OBVIOUS
<1> QED  BY <1>1, <1>2, <1>3, Zenon DEF PlacesBelow

-----------------------------------------------------------------------------
(* What has been read when all places below n have been looked at.         *)
ReadTo(seqs, words, n) ==
  LET below == PlacesBelow(words, n)
      all == Cardinality(below)
  IN
  /\ seqs \in Seq(Seq16)
  /\ IsFiniteSet(below)
  /\ Len(seqs) = IF all < MAX_NACK_SEQS THEN all ELSE MAX_NACK_SEQS
  /\ \A p \in below :
       /\ Rank(words, p) \in Nat /\ Rank(words, p) < all
       /\ Rank(words, p) < MAX_NACK_SEQS =>
            seqs[Rank(words, p) + 1] = Number(words[p[1]], p[2])
  /\ \A k \in 1 .. Len(seqs) : \E p \in below :
       Rank(words, p) = k - 1 /\ seqs[k] = Number(words[p[1]], p[2])

(* A number that a word asks for is a sequence number.                     *)
LEMMA NumberType ==
  ASSUME NEW words \in Seq(Words), NEW j \in 1 .. Len(words),
         NEW o \in 0 .. OFFSETS - 1
  PROVE  /\ Number(words[j], o) \in Seq16
         /\ Number(words[j], o) = Numbered(words[j].pid, o)
<1>1. words[j] \in Words
  BY ElementOfSeq
<1>2. words[j].pid \in Seq16 /\ o \in Nat
  BY <1>1 DEF Words, OFFSETS
<1>3. Number(words[j], o) = Numbered(words[j].pid, o)
  BY Zenon DEF Number, Numbered
<1> QED  BY <1>2, <1>3, NumberedNext

(* Looking at one place more keeps what was read and adds what is there.   *)
LEMMA VisitReads ==
  ASSUME NEW words \in Seq(Words), NEW seqs, NEW n \in Nat,
         n < OFFSETS * Len(words), ReadTo(seqs, words, n)
  PROVE  ReadTo(Visit(seqs, words[(n \div OFFSETS) + 1], n % OFFSETS),
                words, n + 1)
<1> DEFINE q == <<(n \div OFFSETS) + 1, n % OFFSETS>>
           fci == words[(n \div OFFSETS) + 1]
           below == PlacesBelow(words, n)
           all == Cardinality(below)
           after == PlacesBelow(words, n + 1)
           then == Visit(seqs, fci, n % OFFSETS)
<1>1. Len(words) \in Nat
  BY LenProperties
<1>2. /\ q[1] \in 1 .. Len(words) /\ q[2] \in 0 .. OFFSETS - 1
      /\ Index(q) = n
      /\ q \in Places(words) <=> Asks(fci, q[2])
      /\ words[q[1]] = fci /\ q[2] = n % OFFSETS
  BY <1>1, PlaceAt
<1>3. then = IF Len(seqs) < MAX_NACK_SEQS /\ q \in Places(words)
             THEN Append(seqs, Number(words[q[1]], q[2])) ELSE seqs
  BY <1>2 DEF Visit, HasRoom
<1>4. Number(words[q[1]], q[2]) \in Seq16
  BY <1>2, NumberType
<1>5. /\ seqs \in Seq(Seq16) /\ IsFiniteSet(below) /\ all \in Nat
      /\ Len(seqs) = IF all < MAX_NACK_SEQS THEN all ELSE MAX_NACK_SEQS
  BY FS_CardinalityType DEF ReadTo
<1>6. \A p \in below :
        /\ Rank(words, p) \in Nat /\ Rank(words, p) < all
        /\ Rank(words, p) < MAX_NACK_SEQS =>
             seqs[Rank(words, p) + 1] = Number(words[p[1]], p[2])
  BY DEF ReadTo
<1>7. \A k \in 1 .. Len(seqs) : \E p \in below :
        Rank(words, p) = k - 1 /\ seqs[k] = Number(words[p[1]], p[2])
  BY DEF ReadTo
<1>8. /\ q \notin below
      /\ (\A p \in Places(words) : Index(p) # n) => after = below
  BY <1>1, <1>2, PlacesGrow
<1> HIDE DEF q, fci, below, then
<1>9. MAX_NACK_SEQS = 64
  BY DEF MAX_NACK_SEQS
<1>10. CASE q \in Places(words)
  <2>1. after = below \cup {q}
    BY <1>1, <1>2, <1>10, PlacesGrow DEF below
  <2>2. IsFiniteSet(after) /\ Cardinality(after) = all + 1
    BY <1>5, <1>8, <2>1, FS_AddElement
  <2>3. Rank(words, q) = all
    BY <1>1, <1>2, <1>10, PlacesBefore DEF below
  <2> HIDE DEF all, after
  <2>4. CASE Len(seqs) < MAX_NACK_SEQS
    <3>1. /\ then = Append(seqs, Number(words[q[1]], q[2]))
          /\ Len(seqs) = all /\ all < MAX_NACK_SEQS
      BY <1>3, <1>5, <1>9, <1>10, <2>4
    <3>2. /\ then \in Seq(Seq16) /\ Len(then) = all + 1
          /\ then[all + 1] = Number(words[q[1]], q[2])
          /\ \A k \in 1 .. all : then[k] = seqs[k]
      BY <1>4, <1>5, <3>1, AppendProperties
    <3>3. ASSUME NEW p \in after
          PROVE  /\ Rank(words, p) \in Nat /\ Rank(words, p) < all + 1
                 /\ Rank(words, p) < MAX_NACK_SEQS =>
                      then[Rank(words, p) + 1] = Number(words[p[1]], p[2])
      <4>1. CASE p = q
        BY <1>5, <2>3, <3>2, <4>1
      <4>2. CASE p \in below
        <5>1. /\ Rank(words, p) \in Nat /\ Rank(words, p) < all
              /\ seqs[Rank(words, p) + 1] = Number(words[p[1]], p[2])
          BY <1>5, <1>6, <1>9, <3>1, <4>2
        <5>2. Rank(words, p) + 1 \in 1 .. all
          BY <1>5, <5>1
        <5> QED  BY <1>5, <3>2, <5>1, <5>2
      <4> QED  BY <2>1, <4>1, <4>2
    <3>4. ASSUME NEW k \in 1 .. Len(then)
          PROVE  \E p \in after : /\ Rank(words, p) = k - 1
                                  /\ then[k] = Number(words[p[1]], p[2])
      <4>1. CASE k = all + 1
        <5>1. k - 1 = all
          BY <1>5, <4>1
        <5> QED  BY <2>1, <2>3, <3>2, <4>1, <5>1
      <4>2. CASE k # all + 1
        <5>1. k \in 1 .. all
          BY <1>5, <3>2, <4>2
        <5>2. \E p \in below : /\ Rank(words, p) = k - 1
                               /\ seqs[k] = Number(words[p[1]], p[2])
          BY <1>7, <3>1, <5>1
        <5> QED  BY <2>1, <3>2, <5>1, <5>2
      <4> QED  BY <4>1, <4>2
    <3>5. Len(then) = IF all + 1 < MAX_NACK_SEQS THEN all + 1
                      ELSE MAX_NACK_SEQS
      BY <1>5, <1>9, <3>1, <3>2
    <3> QED  BY <2>2, <3>2, <3>3, <3>4, <3>5, Zenon
             DEF ReadTo, after, then, fci
  <2>5. CASE ~ (Len(seqs) < MAX_NACK_SEQS)
    <3>1. then = seqs
      BY <1>3, <2>5
    <3>2. Len(seqs) = MAX_NACK_SEQS /\ ~ (all < MAX_NACK_SEQS)
      BY <1>5, <1>9, <2>5
    <3>3. ASSUME NEW p \in after
          PROVE  /\ Rank(words, p) \in Nat /\ Rank(words, p) < all + 1
                 /\ Rank(words, p) < MAX_NACK_SEQS =>
                      then[Rank(words, p) + 1] = Number(words[p[1]], p[2])
      <4>1. CASE p = q
        BY <1>5, <1>9, <2>3, <3>2, <4>1
      <4>2. CASE p \in below
        BY <1>5, <1>6, <3>1, <4>2
      <4> QED  BY <2>1, <4>1, <4>2
    <3>4. \A k \in 1 .. Len(then) : \E p \in after :
            Rank(words, p) = k - 1 /\ then[k] = Number(words[p[1]], p[2])
      BY <1>7, <2>1, <3>1
    <3>5. Len(then) = IF all + 1 < MAX_NACK_SEQS THEN all + 1
                      ELSE MAX_NACK_SEQS
      BY <1>5, <1>9, <3>1, <3>2
    <3>6. then \in Seq(Seq16)
      BY <1>5, <3>1
    <3> QED  BY <2>2, <3>3, <3>4, <3>5, <3>6, Zenon
             DEF ReadTo, after, then, fci
  <2> QED  BY <2>4, <2>5
<1>11. CASE q \notin Places(words)
  <2>1. ASSUME NEW p \in Places(words)  PROVE Index(p) # n
    BY <1>1, <1>2, <1>11, PlaceOrder DEF q
  <2>2. after = below
    BY <1>8, <2>1
  <2>3. then = seqs
    BY <1>3, <1>11
  <2> QED  BY <2>2, <2>3 DEF ReadTo, then, fci, below
<1> QED  BY <1>10, <1>11

(* The function that parse_nack_fci computes place by place exists, and it *)
(* has read what the words ask for, whatever they are and however many.    *)
LEMMA ParseNackFciReads ==
  ASSUME NEW words \in Seq(Words)
  PROVE  ReadTo(ParseNackFci(words), words, OFFSETS * Len(words))
<1> DEFINE end == OFFSETS * Len(words)
           Look(g, i) == Visit(g[i - 1], words[((i - 1) \div OFFSETS) + 1],
                               (i - 1) % OFFSETS)
           Run(g, n) == g = [i \in 0 .. n |-> IF i = 0 THEN <<>>
                                              ELSE Look(g, i)]
           T == {n \in Nat : \E g : Run(g, n)}
<1>1. Len(words) \in Nat /\ end \in Nat
  <2>1. Len(words) \in Nat
    BY LenProperties
  <2> QED  BY <2>1 DEF OFFSETS
<1> HIDE DEF end
<1>2. 0 \in T
  <2>1. Run([i \in 0 .. 0 |-> <<>>], 0)
    OBVIOUS
  <2> QED  BY <2>1
<1>3. ASSUME NEW n \in T  PROVE n + 1 \in T
  <2>1. n \in Nat
    OBVIOUS
  <2>2. PICK g : Run(g, n)
    OBVIOUS
  <2> DEFINE h == [i \in 0 .. n + 1 |-> IF i = n + 1 THEN Look(g, n + 1)
                                        ELSE g[i]]
  <2>3. ASSUME NEW i \in 0 .. n + 1
        PROVE  h[i] = IF i = 0 THEN <<>> ELSE Look(h, i)
    <3>1. i # 0 => h[i - 1] = g[i - 1]
      <4>1. SUFFICES ASSUME i # 0  PROVE h[i - 1] = g[i - 1]
        OBVIOUS
      <4>2. i - 1 \in 0 .. n + 1 /\ i - 1 # n + 1
        BY <2>1, <4>1
      <4> QED  BY <4>2
    <3>2. CASE i = n + 1
      <4>1. h[i] = Look(g, i) /\ i # 0
        BY <2>1, <3>2
      <4> HIDE DEF h
      <4> QED  BY <3>1, <4>1
    <3>3. CASE i # n + 1
      <4>1. i \in 0 .. n /\ h[i] = g[i]
        BY <2>1, <3>3
      <4>2. g[i] = IF i = 0 THEN <<>> ELSE Look(g, i)
        BY <2>2, <4>1, Zenon
      <4> HIDE DEF h
      <4> QED  BY <3>1, <4>1, <4>2
    <3> QED  BY <3>2, <3>3
  <2>4. Run(h, n + 1)
    <3>1. h = [i \in 0 .. n + 1 |-> h[i]]
      OBVIOUS
    <3> HIDE DEF h, Look
    <3> QED  BY <2>3, <3>1
  <2>5. \E k : Run(k, n + 1)
    BY <2>4
  <2> QED  BY <2>1, <2>5
<1>4. end \in T
  <2>1. T \in SUBSET Nat
    OBVIOUS
  <2> HIDE DEF T
  <2> QED  BY <1>1, <1>2, <1>3, <2>1, SetInduction
<1>5. PICK after : Run(after, end) /\ ParseNackFci(words) = after[end]
  <2>1. \E g : Run(g, end)
    BY <1>4
  <2> DEFINE f == CHOOSE g : Run(g, end)
  <2>2. Run(f, end)
    BY <2>1, Zenon
  <2>3. ParseNackFci(words) = f[end]
    BY Zenon DEF ParseNackFci, end
  <2> QED  BY <2>2, <2>3
<1> DEFINE U == {n \in Nat : n <= end => ReadTo(after[n], words, n)}
<1>6. 0 \in U
  <2>1. after[0] = <<>>
    BY <1>1, <1>5
  <2>2. PlacesBelow(words, 0) = {}
    <3>1. \A p \in Places(words) : Index(p) \in Nat
      BY <1>1, PlaceOrder DEF Places
    <3> QED  BY <3>1 DEF PlacesBelow
  <2>3. ReadTo(<<>>, words, 0)
    <3>1. IsFiniteSet({}) /\ Cardinality({}) = 0
      BY FS_EmptySet
    <3>2. <<>> \in Seq(Seq16) /\ Len(<<>>) = 0 /\ 1 .. Len(<<>>) = {}
      OBVIOUS
    <3>3. Len(<<>>) = IF 0 < MAX_NACK_SEQS THEN 0 ELSE MAX_NACK_SEQS
      BY DEF MAX_NACK_SEQS
    <3> QED  BY <2>2, <3>1, <3>2, <3>3, Zenon DEF ReadTo
  <2> QED  BY <2>1, <2>3
<1>7. ASSUME NEW n \in U  PROVE n + 1 \in U
  <2>1. n \in Nat /\ n + 1 \in Nat /\ n + 1 # 0 /\ (n + 1) - 1 = n
    OBVIOUS
  <2>2. CASE n + 1 <= end
    <3>1. n + 1 \in 0 .. end /\ n <= end /\ n < end
      BY <1>1, <2>1, <2>2
    <3>2. after[n + 1] = Look(after, n + 1)
      BY <1>5, <2>1, <3>1, Zenon
    <3>3. ReadTo(after[n], words, n)
      BY <3>1
    <3> QED  BY <2>1, <3>1, <3>2, <3>3, VisitReads DEF end
  <2> QED  BY <2>1, <2>2
<1>8. end \in U
  <2>1. U \in SUBSET Nat
    OBVIOUS
  <2> HIDE DEF U
  <2> QED  BY <1>1, <1>6, <1>7, <2>1, SetInduction
<1> QED  BY <1>1, <1>5, <1>8 DEF end

(* All places are below the end.                                           *)
LEMMA PlacesBelowEnd ==
  ASSUME NEW words \in Seq(Words)
  PROVE  PlacesBelow(words, OFFSETS * Len(words)) = Places(words)
<1>1. Len(words) \in Nat
  BY LenProperties
<1>2. \A p \in Places(words) : Index(p) < OFFSETS * Len(words)
  BY <1>1, PlaceOrder DEF Places
<1> QED  BY <1>2 DEF PlacesBelow

(* What is read are the first 64 numbers that the words ask for.           *)
LEMMA ParseNackFciFront ==
  ASSUME NEW words \in Seq(Words)
  PROVE  IsFrontOf(ParseNackFci(words), words)
<1>1. ReadTo(ParseNackFci(words), words, OFFSETS * Len(words))
  BY ParseNackFciReads
<1> QED  BY <1>1, PlacesBelowEnd DEF ReadTo, IsFrontOf

-----------------------------------------------------------------------------
(* A datagram has the header of its packet, and its words if it is long    *)
(* enough for them: it is refused if it is not.                            *)
Carries(d, fmt, pt, body) ==
  LET whole == 4 * (Len(body) + 1) IN
  /\ d.version = 2 /\ d.fmt = fmt /\ d.pt = pt
  /\ d.words = Len(body) /\ PacketLen(d) = whole
  /\ d.len >= whole =>
       /\ ~ (d.len < 8) /\ HeaderSound(d)
       /\ \A k \in 1 .. Len(body) : d.body[k] = body[k]
  /\ ~ (d.len >= whole) => ParseRtcp(d) = Refused("malformed")

LEMMA DatagramCarries ==
  ASSUME NEW fmt, NEW pt, NEW body, Len(body) \in Nat \ {0}, NEW len \in Nat
  PROVE  /\ PacketLen(Packet(fmt, pt, body)) = 4 * (Len(body) + 1)
         /\ Datagram(Packet(fmt, pt, body), len).len = len
         /\ Carries(Datagram(Packet(fmt, pt, body), len), fmt, pt, body)
<1> DEFINE held == IF len < 4 THEN 0 ELSE (len - 4) \div 4
           whole == 4 * (Len(body) + 1)
           p == Packet(fmt, pt, body)
           d == Datagram(p, len)
<1>1. /\ p.version = 2 /\ p.fmt = fmt /\ p.pt = pt
      /\ p.words = Len(body) /\ p.body = body
  BY DEF Packet
<1> HIDE DEF p
<1>2. /\ d.version = p.version /\ d.fmt = p.fmt /\ d.pt = p.pt
      /\ d.len = len /\ d.words = p.words
      /\ d.body = [k \in 1 .. held |->
                     IF k <= Len(p.body) THEN p.body[k] ELSE 9]
  BY DEF Datagram
<1> HIDE DEF d
<1>3. PacketLen(p) = whole /\ PacketLen(d) = whole
  BY <1>1, <1>2 DEF PacketLen
<1>4. ASSUME len >= whole
      PROVE  \A k \in 1 .. Len(body) : k \in 1 .. held /\ k <= Len(body)
  <2>1. (len - 4) \div 4 >= Len(body)
    BY <1>4
  <2> QED  BY <1>4, <2>1
<1>5. ASSUME len >= whole
      PROVE  \A k \in 1 .. Len(body) : d.body[k] = body[k]
  BY <1>1, <1>2, <1>4, <1>5, Zenon
<1>6. d.len >= whole <=> HeaderSound(d)
  BY <1>2, <1>3 DEF HeaderSound
<1>7. d.len >= whole => ~ (d.len < 8)
  BY <1>2
<1>8. ~ (d.len >= whole) => ParseRtcp(d) = Refused("malformed")
  BY <1>1, <1>2, <1>6, Zenon DEF ParseRtcp
<1>9. Carries(d, fmt, pt, body)
  <2>1. d.len = len /\ (len >= whole <=> d.len >= whole)
    BY <1>2
  <2> HIDE DEF whole
  <2> QED  BY <1>1, <1>2, <1>3, <1>5, <1>6, <1>7, <1>8, <2>1, Zenon
           DEF Carries, whole
<1> QED  BY <1>2, <1>3, <1>9 DEF p, d

(* What is written of a report or of a request for a picture is read as it *)
(* is from a datagram that holds all of it, and refused from any other.    *)
LEMMA SrReads ==
  ASSUME NEW sr \in Srs, NEW capacity \in Capacities, NEW len \in Lengths,
         NEW result, result = WriteSr(sr, capacity), result.status = "ok"
  PROVE  ParseRtcp(Datagram(result.packet, len)) =
           IF len >= PacketLen(result.packet) THEN Parsed("sr", sr)
           ELSE Refused("malformed")
<1> DEFINE body == << sr.sender_ssrc, sr.ntp_msw, sr.ntp_lsw,
                      sr.rtp_timestamp, sr.packet_count, sr.octet_count >>
           p == result.packet
           d == Datagram(p, len)
<1>1. p = Packet(0, SR, body)
  BY DEF WriteSr, Written, Refused
<1>2. Len(body) = 6 /\ Len(body) \in Nat \ {0} /\ len \in Nat
  BY RtcpAssumption
<1>3. sr = [sender_ssrc |-> body[1], ntp_msw |-> body[2],
            ntp_lsw |-> body[3], rtp_timestamp |-> body[4],
            packet_count |-> body[5], octet_count |-> body[6]]
  BY RtcpAssumption
<1> HIDE DEF body, p
<1>4. /\ PacketLen(p) = 4 * (Len(body) + 1) /\ d.len = len
      /\ Carries(d, 0, SR, body)
  <2>1. /\ PacketLen(Packet(0, SR, body)) = 4 * (Len(body) + 1)
        /\ Datagram(Packet(0, SR, body), len).len = len
        /\ Carries(Datagram(Packet(0, SR, body), len), 0, SR, body)
    BY <1>2, DatagramCarries
  <2> QED  BY <1>1, <2>1
<1> HIDE DEF d
<1>5. CASE len >= PacketLen(p)
  <2>1. /\ ~ (d.len < 8) /\ HeaderSound(d) /\ d.version = 2 /\ d.pt = SR
        /\ PacketLen(d) >= 28
        /\ \A k \in 1 .. 6 : d.body[k] = body[k]
    BY <1>2, <1>4, <1>5 DEF Carries
  <2>2. ReadSr(d.body) = sr
    BY <1>3, <2>1 DEF ReadSr
  <2>3. ParseRtcp(d) = Parsed("sr", ReadSr(d.body))
    BY <2>1, Zenon DEF ParseRtcp
  <2> QED  BY <1>5, <2>2, <2>3 DEF d, p
<1>6. CASE ~ (len >= PacketLen(p))
  BY <1>2, <1>4, <1>6 DEF Carries, d, p
<1> QED  BY <1>5, <1>6

LEMMA RrReads ==
  ASSUME NEW rr \in Rrs, NEW capacity \in Capacities, NEW len \in Lengths,
         NEW result, result = WriteRr(rr, capacity), result.status = "ok"
  PROVE  ParseRtcp(Datagram(result.packet, len)) =
           IF len >= PacketLen(result.packet)
           THEN Parsed("rr", [rr EXCEPT !.cumulative_lost = @ % 2^24])
           ELSE Refused("malformed")
<1> DEFINE lost == rr.cumulative_lost % 2^24
           body == << rr.sender_ssrc, rr.media_ssrc,
                      [fraction |-> rr.fraction_lost, cumulative |-> lost],
                      rr.extended_seq, rr.jitter, rr.last_sr,
                      rr.delay_since_last_sr >>
           p == result.packet
           d == Datagram(p, len)
<1>1. p = Packet(1, RR, body)
  BY DEF WriteRr, Written, Refused
<1> HIDE DEF lost
<1>2. Len(body) = 7 /\ Len(body) \in Nat \ {0} /\ len \in Nat
  BY RtcpAssumption
<1>3. [rr EXCEPT !.cumulative_lost = lost] =
        [sender_ssrc |-> body[1], media_ssrc |-> body[2],
         fraction_lost |-> body[3].fraction,
         cumulative_lost |-> body[3].cumulative,
         extended_seq |-> body[4], jitter |-> body[5], last_sr |-> body[6],
         delay_since_last_sr |-> body[7]]
  BY RtcpAssumption
<1> HIDE DEF body, p
<1>4. /\ PacketLen(p) = 4 * (Len(body) + 1) /\ d.len = len
      /\ Carries(d, 1, RR, body)
  <2>1. /\ PacketLen(Packet(1, RR, body)) = 4 * (Len(body) + 1)
        /\ Datagram(Packet(1, RR, body), len).len = len
        /\ Carries(Datagram(Packet(1, RR, body), len), 1, RR, body)
    BY <1>2, DatagramCarries
  <2> QED  BY <1>1, <2>1
<1> HIDE DEF d
<1>5. CASE len >= PacketLen(p)
  <2>1. /\ ~ (d.len < 8) /\ HeaderSound(d) /\ d.version = 2 /\ d.pt = RR
        /\ PacketLen(d) >= 32 /\ RR # SR
        /\ \A k \in 1 .. 7 : d.body[k] = body[k]
    BY <1>2, <1>4, <1>5 DEF Carries, RR, SR
  <2>2. ReadRr(d.body) = [rr EXCEPT !.cumulative_lost = lost]
    BY <1>3, <2>1 DEF ReadRr
  <2>3. ParseRtcp(d) = Parsed("rr", ReadRr(d.body))
    BY <2>1, Zenon DEF ParseRtcp
  <2> QED  BY <1>5, <2>2, <2>3 DEF d, p, lost
<1>6. CASE ~ (len >= PacketLen(p))
  BY <1>2, <1>4, <1>6 DEF Carries, d, p
<1> QED  BY <1>5, <1>6

LEMMA PliReads ==
  ASSUME NEW pli \in Plis, NEW capacity \in Capacities, NEW len \in Lengths,
         NEW result, result = WritePli(pli, capacity), result.status = "ok"
  PROVE  ParseRtcp(Datagram(result.packet, len)) =
           IF len >= PacketLen(result.packet) THEN Parsed("pli", pli)
           ELSE Refused("malformed")
<1> DEFINE body == <<pli.sender_ssrc, pli.media_ssrc>>
           p == result.packet
           d == Datagram(p, len)
<1>1. p = Packet(FMT_PLI, PSFB, body)
  BY DEF WritePli, Written, Refused
<1>2. Len(body) = 2 /\ Len(body) \in Nat \ {0} /\ len \in Nat
  BY RtcpAssumption
<1>3. pli = [sender_ssrc |-> body[1], media_ssrc |-> body[2]]
  BY RtcpAssumption
<1> HIDE DEF body, p
<1>4. /\ PacketLen(p) = 4 * (Len(body) + 1) /\ d.len = len
      /\ Carries(d, FMT_PLI, PSFB, body)
  <2>1. /\ PacketLen(Packet(FMT_PLI, PSFB, body)) = 4 * (Len(body) + 1)
        /\ Datagram(Packet(FMT_PLI, PSFB, body), len).len = len
        /\ Carries(Datagram(Packet(FMT_PLI, PSFB, body), len),
                   FMT_PLI, PSFB, body)
    BY <1>2, DatagramCarries
  <2> QED  BY <1>1, <2>1
<1> HIDE DEF d
<1>5. CASE len >= PacketLen(p)
  <2>1. /\ ~ (d.len < 8) /\ HeaderSound(d) /\ d.version = 2
        /\ d.pt = PSFB /\ d.fmt = FMT_PLI /\ PacketLen(d) >= 12
        /\ PSFB # SR /\ PSFB # RR /\ PSFB # RTPFB
        /\ d.body[1] = body[1] /\ d.body[2] = body[2]
    BY <1>2, <1>4, <1>5 DEF Carries, RR, SR, RTPFB, PSFB
  <2>2. ParseRtcp(d) = Parsed("pli", [sender_ssrc |-> d.body[1],
                                      media_ssrc |-> d.body[2]])
    BY <2>1, Zenon DEF ParseRtcp
  <2> QED  BY <1>3, <1>5, <2>1, <2>2 DEF d, p
<1>6. CASE ~ (len >= PacketLen(p))
  BY <1>2, <1>4, <1>6 DEF Carries, d, p
<1> QED  BY <1>5, <1>6

(* A request that a datagram holds is read as what its words ask for.      *)
LEMMA NackReads ==
  ASSUME NEW d, NEW ssrc, NEW media_ssrc,
         NEW words \in Seq(Words), words # <<>>,
         Carries(d, FMT_NACK, RTPFB, <<ssrc, media_ssrc>> \o words),
         d.len = PacketLen(d)
  PROVE  ParseRtcp(d) =
           Parsed("nack", [sender_ssrc |-> ssrc, media_ssrc |-> media_ssrc,
                           seqs |-> ParseNackFci(words)])
<1> DEFINE body == <<ssrc, media_ssrc>> \o words
<1>1. Len(words) \in Nat /\ Len(words) >= 1
  BY EmptySeq, LenProperties
<1>2. /\ Len(body) = Len(words) + 2
      /\ body[1] = ssrc /\ body[2] = media_ssrc
      /\ \A k \in 1 .. Len(words) : body[k + 2] = words[k]
  BY <1>1
<1> HIDE DEF body
<1>3. /\ ~ (d.len < 8) /\ HeaderSound(d) /\ d.version = 2
      /\ d.pt = RTPFB /\ d.fmt = FMT_NACK /\ PacketLen(d) >= 16
      /\ RTPFB # SR /\ RTPFB # RR
      /\ d.words = Len(words) + 2
      /\ \A k \in 1 .. Len(words) + 2 : d.body[k] = body[k]
  BY <1>1, <1>2 DEF Carries, SR, RR, RTPFB, body
<1>4. SubSeq(d.body, 3, d.words) = words
  <2>1. SubSeq(d.body, 3, d.words) =
          [k \in 1 .. Len(words) |-> d.body[k + 2]]
    BY <1>1, <1>3
  <2>2. \A k \in 1 .. Len(words) : d.body[k + 2] = words[k]
    BY <1>1, <1>2, <1>3
  <2>3. words = [k \in 1 .. Len(words) |-> words[k]]
    OBVIOUS
  <2> QED  BY <2>1, <2>2, <2>3
<1>5. d.body[1] = ssrc /\ d.body[2] = media_ssrc
  BY <1>1, <1>2, <1>3
<1>6. ParseRtcp(d) =
        Parsed("nack", [sender_ssrc |-> d.body[1], media_ssrc |-> d.body[2],
                        seqs |-> ParseNackFci(SubSeq(d.body, 3, d.words))])
  BY <1>3, Zenon DEF ParseRtcp
<1> QED  BY <1>4, <1>5, <1>6

(* So is one that fills its datagram.                                      *)
LEMMA RequestReads ==
  ASSUME NEW ssrc, NEW media_ssrc, NEW words \in Seq(Words), words # <<>>,
         NEW p, p = Packet(FMT_NACK, RTPFB, <<ssrc, media_ssrc>> \o words)
  PROVE  ParseRtcp(Datagram(p, PacketLen(p))) =
           Parsed("nack", [sender_ssrc |-> ssrc, media_ssrc |-> media_ssrc,
                           seqs |-> ParseNackFci(words)])
<1> DEFINE body == <<ssrc, media_ssrc>> \o words
           d == Datagram(p, PacketLen(p))
<1>1. Len(body) \in Nat \ {0}
  BY LenProperties
<1> HIDE DEF body
<1>2. PacketLen(p) = 4 * (Len(body) + 1)
  BY <1>1, DatagramCarries DEF body
<1>3. \A len \in Nat : /\ Carries(Datagram(p, len), FMT_NACK, RTPFB, body)
                       /\ Datagram(p, len).len = len
  <2>1. p = Packet(FMT_NACK, RTPFB, body)
    BY DEF body
  <2> QED  BY <1>1, <2>1, DatagramCarries
<1>4. PacketLen(p) \in Nat
  BY <1>1, <1>2
<1>5. Carries(d, FMT_NACK, RTPFB, body) /\ d.len = PacketLen(p)
  BY <1>3, <1>4, Zenon
<1> HIDE DEF d
<1>6. d.len = PacketLen(d)
  BY <1>2, <1>5 DEF Carries
<1>7. Carries(d, FMT_NACK, RTPFB, <<ssrc, media_ssrc>> \o words)
  BY <1>5 DEF body
<1>8. ParseRtcp(d) =
        Parsed("nack", [sender_ssrc |-> ssrc, media_ssrc |-> media_ssrc,
                        seqs |-> ParseNackFci(words)])
  BY <1>6, <1>7, NackReads, Zenon
<1> QED  BY <1>8 DEF d

-----------------------------------------------------------------------------
(* An exchange is one of what there is to say, and what the code wrote.    *)
NackSpoken ==
  \E nack \in Nacks, capacity \in Capacities :
    exchange = Exchange("nack", nack, capacity, WriteNack(nack, capacity))

SrSpoken ==
  \E sr \in Srs, capacity \in Capacities :
    exchange = Exchange("sr", sr, capacity, WriteSr(sr, capacity))

RrSpoken ==
  \E rr \in Rrs, capacity \in Capacities :
    exchange = Exchange("rr", rr, capacity, WriteRr(rr, capacity))

PliSpoken ==
  \E pli \in Plis, capacity \in Capacities :
    exchange = Exchange("pli", pli, capacity, WritePli(pli, capacity))

ForeignSpoken ==
  \E words \in Foreign :
    exchange = Exchange("foreign", words, 0,
      [status |-> "ok", packet |-> Packet(FMT_NACK, RTPFB, <<1, 2>> \o words)])

SpokenOrNone ==
  exchange # <<>> =>
    NackSpoken \/ SrSpoken \/ RrSpoken \/ PliSpoken \/ ForeignSpoken

LEMMA SpokenStep == RtcpSpec => []SpokenOrNone
<1>1. RtcpInit => SpokenOrNone
  BY DEF RtcpInit, SpokenOrNone
<1>2. SpokenOrNone /\ [Say \/ Done]_exchange => SpokenOrNone'
  <2>1. /\ SayNack => NackSpoken'
        /\ SaySr => SrSpoken'
        /\ SayRr => RrSpoken'
        /\ SayPli => PliSpoken'
        /\ SayForeign => ForeignSpoken'
    BY Zenon DEF SayNack, SaySr, SayRr, SayPli, SayForeign, NackSpoken,
                 SrSpoken, RrSpoken, PliSpoken, ForeignSpoken
  <2>2. Say => SpokenOrNone'
    BY <2>1, Zenon DEF Say, SpokenOrNone
  <2>3. Done => SpokenOrNone'
    BY DEF Done, SpokenOrNone
  <2>4. SpokenOrNone /\ UNCHANGED exchange => SpokenOrNone'
    BY DEF SpokenOrNone, NackSpoken, SrSpoken, RrSpoken, PliSpoken,
           ForeignSpoken
  <2> QED  BY <2>2, <2>3, <2>4
<1> QED  BY <1>1, <1>2, PTL DEF RtcpSpec

(* The kind of an exchange tells what was said.                            *)
LEMMA SpokenForms ==
  ASSUME SpokenOrNone, exchange # <<>>
  PROVE  /\ exchange.kind = "nack" => NackSpoken
         /\ exchange.kind = "sr" => SrSpoken
         /\ exchange.kind = "rr" => RrSpoken
         /\ exchange.kind = "pli" => PliSpoken
         /\ exchange.kind = "foreign" => ForeignSpoken
<1>1. \A kind, content, capacity, result :
        Exchange(kind, content, capacity, result).kind = kind
  BY DEF Exchange
<1>2. NackSpoken => exchange.kind = "nack"
  BY <1>1 DEF NackSpoken
<1>3. SrSpoken => exchange.kind = "sr"
  BY <1>1 DEF SrSpoken
<1>4. RrSpoken => exchange.kind = "rr"
  BY <1>1 DEF RrSpoken
<1>5. PliSpoken => exchange.kind = "pli"
  BY <1>1 DEF PliSpoken
<1>6. ForeignSpoken => exchange.kind = "foreign"
  BY <1>1 DEF ForeignSpoken
<1> QED  BY <1>2, <1>3, <1>4, <1>5, <1>6 DEF SpokenOrNone

(* What is sent is read by the peer as what it holds, for every content,   *)
(* every buffer, every datagram and any number of words.                   *)
LEMMA SpokenReads == SpokenOrNone => ReadsWhatItHolds
<1> SUFFICES ASSUME SpokenOrNone  PROVE ReadsWhatItHolds
  OBVIOUS
<1>1. \A kind, content, capacity, result :
        LET e == Exchange(kind, content, capacity, result) IN
        e.kind = kind /\ e.content = content /\ e.result = result
  BY DEF Exchange
<1>2. ASSUME WasWritten({"sr", "rr", "pli"}), NEW len \in Lengths
      PROVE  Received(len) =
               IF len >= WholeLength
               THEN Parsed(exchange.kind, AsRead(exchange.content))
               ELSE Refused("malformed")
  <2>1. /\ exchange # <<>> /\ exchange.result.status = "ok"
        /\ exchange.kind \in {"sr", "rr", "pli"}
    BY <1>2 DEF WasWritten, Said
  <2>2. CASE exchange.kind = "sr"
    <3>1. PICK sr \in Srs, capacity \in Capacities :
            exchange = Exchange("sr", sr, capacity, WriteSr(sr, capacity))
      BY <2>1, <2>2, SpokenForms DEF SrSpoken
    <3>2. exchange.content = sr /\ exchange.result = WriteSr(sr, capacity)
      BY <1>1, <3>1
    <3>3. AsRead(exchange.content) = sr
      BY <2>2, <3>2 DEF AsRead
    <3> QED  BY <2>1, <2>2, <3>2, <3>3, SrReads DEF Received, WholeLength
  <2>3. CASE exchange.kind = "rr"
    <3>1. PICK rr \in Rrs, capacity \in Capacities :
            exchange = Exchange("rr", rr, capacity, WriteRr(rr, capacity))
      BY <2>1, <2>3, SpokenForms DEF RrSpoken
    <3>2. exchange.content = rr /\ exchange.result = WriteRr(rr, capacity)
      BY <1>1, <3>1
    <3>3. AsRead(exchange.content) =
            [rr EXCEPT !.cumulative_lost = @ % 2^24]
      BY <2>3, <3>2, Zenon DEF AsRead
    <3> QED  BY <2>1, <2>3, <3>2, <3>3, RrReads DEF Received, WholeLength
  <2>4. CASE exchange.kind = "pli"
    <3>1. PICK pli \in Plis, capacity \in Capacities :
            exchange = Exchange("pli", pli, capacity, WritePli(pli, capacity))
      BY <2>1, <2>4, SpokenForms DEF PliSpoken
    <3>2. exchange.content = pli /\ exchange.result = WritePli(pli, capacity)
      BY <1>1, <3>1
    <3>3. AsRead(exchange.content) = pli
      BY <2>4, <3>2 DEF AsRead
    <3> QED  BY <2>1, <2>4, <3>2, <3>3, PliReads DEF Received, WholeLength
  <2> QED  BY <2>1, <2>2, <2>3, <2>4
<1>3. ASSUME WasWritten({"foreign"})
      PROVE  IsFrontOf(Received(WholeLength).content.seqs, exchange.content)
  <2>1. exchange # <<>> /\ exchange.kind = "foreign"
    BY <1>3 DEF WasWritten, Said
  <2>2. PICK words \in Foreign :
          exchange = Exchange("foreign", words, 0,
            [status |-> "ok",
             packet |-> Packet(FMT_NACK, RTPFB, <<1, 2>> \o words)])
    BY <2>1, SpokenForms DEF ForeignSpoken
  <2> DEFINE p == Packet(FMT_NACK, RTPFB, <<1, 2>> \o words)
  <2>3. exchange.content = words /\ exchange.result.packet = p
    BY <1>1, <2>2
  <2>4. words \in Seq(Words) /\ words # <<>>
    BY RtcpAssumption
  <2>5. ParseRtcp(Datagram(p, PacketLen(p))) =
          Parsed("nack", [sender_ssrc |-> 1, media_ssrc |-> 2,
                          seqs |-> ParseNackFci(words)])
    BY <2>4, RequestReads
  <2> HIDE DEF p
  <2>6. Received(WholeLength).content.seqs = ParseNackFci(words)
    BY <2>3, <2>5 DEF Received, WholeLength, Parsed
  <2> QED  BY <2>3, <2>4, <2>6, ParseNackFciFront
<1> QED  BY <1>2, <1>3 DEF ReadsWhatItHolds

(* A datagram is read as what its packet says if it holds all of it and is *)
(* refused if it does not, and no request fills more than 64 places: for   *)
(* every report, every length and any number of words.                     *)
THEOREM RtcpReads == RtcpSpec => []ReadsWhatItHolds
BY SpokenStep, SpokenReads, PTL

-----------------------------------------------------------------------------
(* The numbers that the word of a request stands for: offset 0 is the      *)
(* first, and the others are those at the distances that the mask holds.   *)
LEMMA WordStandsFor ==
  ASSUME NEW seqs \in Seq(Seq16), Len(seqs) >= 1, InReach(seqs),
         NEW w, w = [pid |-> seqs[1], blp |-> Mask(seqs)]
  PROVE  /\ w \in Words
         /\ \A o \in 0 .. 16 :
              Asks(w, o) => Numbered(seqs[1], o) \in ToSet(seqs)
         /\ \A b \in ToSet(seqs) :
              /\ b \in Seq16
              /\ \E o \in 0 .. 16 : Asks(w, o) /\ Numbered(seqs[1], o) = b
<1> DEFINE s == seqs[1]
<1>1. /\ Len(seqs) \in Nat /\ s \in Seq16
      /\ \A i \in 1 .. Len(seqs) : seqs[i] \in Seq16
      /\ \A b : b \in ToSet(seqs) <=> \E i \in 1 .. Len(seqs) : b = seqs[i]
  BY DEF ToSet
<1>2. w.pid = s /\ w.blp = Mask(seqs)
  OBVIOUS
<1> HIDE DEF s
<1>3. \A i \in 2 .. Len(seqs) :
        /\ i \in 1 .. Len(seqs)
        /\ Distance(s, seqs[i]) \in 1 .. 16
  BY <1>1 DEF InReach, s
<1>4. ASSUME NEW o \in 1 .. 16
      PROVE  Asks(w, o) <=>
               \E i \in 2 .. Len(seqs) : Numbered(s, o) = seqs[i]
  <2>1. o \in 0 .. 63 /\ o # 0 /\ o \in Int
    OBVIOUS
  <2>2. \A i \in 2 .. Len(seqs) :
          Distance(s, seqs[i]) - 1 = o - 1 <=> Numbered(s, o) = seqs[i]
    <3>1. ASSUME NEW i \in 2 .. Len(seqs)
          PROVE  Numbered(s, o) = seqs[i] <=> Distance(s, seqs[i]) = o
      BY <1>1, <1>3, <2>1, NumberedAtDistance
    <3>2. ASSUME NEW d \in 1 .. 16  PROVE d - 1 = o - 1 <=> d = o
      OBVIOUS
    <3> QED  BY <1>3, <3>1, <3>2
  <2>3. o - 1 \in w.blp <=>
          \E i \in 2 .. Len(seqs) : Distance(s, seqs[i]) - 1 = o - 1
    BY <1>2, Zenon DEF Mask, s
  <2> QED  BY <2>1, <2>2, <2>3, Zenon DEF Asks
<1>5. Numbered(s, 0) = s /\ Asks(w, 0)
  BY <1>1, NumberedNext DEF Asks
<1>6. w \in Words
  <2>1. \A d \in 1 .. 16 : d - 1 \in 0 .. 15
    OBVIOUS
  <2>2. Mask(seqs) \subseteq 0 .. 15
    BY <1>3, <2>1, Zenon DEF Mask, s
  <2> QED  BY <1>1, <2>2 DEF Words, s
<1>7. ASSUME NEW o \in 0 .. 16, Asks(w, o)
      PROVE  Numbered(s, o) \in ToSet(seqs)
  <2>1. CASE o = 0
    <3>1. 1 \in 1 .. Len(seqs)
      BY <1>1
    <3> QED  BY <1>1, <1>5, <2>1, <3>1 DEF s
  <2>2. CASE o # 0
    <3>1. o \in 1 .. 16
      BY <2>2
    <3> QED  BY <1>1, <1>3, <1>4, <1>7, <3>1, Zenon
  <2> QED  BY <2>1, <2>2
<1>8. ASSUME NEW b \in ToSet(seqs)
      PROVE  /\ b \in Seq16
             /\ \E o \in 0 .. 16 : Asks(w, o) /\ Numbered(s, o) = b
  <2>1. PICK i \in 1 .. Len(seqs) : b = seqs[i]
    BY <1>1
  <2>2. CASE i = 1
    BY <1>1, <1>5, <2>1, <2>2 DEF s
  <2>3. CASE i # 1
    <3>1. i \in 2 .. Len(seqs)
      BY <1>1, <2>3
    <3> DEFINE o == Distance(s, seqs[i])
    <3>2. o \in 1 .. 16 /\ o \in 0 .. 63 /\ o \in 0 .. 16
      BY <1>3, <3>1
    <3>3. Numbered(s, o) = seqs[i]
      BY <1>1, <3>2, NumberedAtDistance
    <3>4. Asks(w, o)
      BY <1>4, <3>1, <3>2, <3>3
    <3> QED  BY <1>1, <2>1, <3>2, <3>3, <3>4
  <2> QED  BY <2>2, <2>3
<1> QED  BY <1>6, <1>7, <1>8 DEF s

(* A request of one word is read as the numbers it stands for, each once   *)
(* and the first one first.                                                *)
LEMMA OneWordReads ==
  ASSUME NEW seqs \in Seq(Seq16), Len(seqs) >= 1, InReach(seqs),
         NEW w, w = [pid |-> seqs[1], blp |-> Mask(seqs)],
         NEW got, got = ParseNackFci(<<w>>)
  PROVE  /\ Head(got) = Head(seqs)
         /\ ToSet(got) = ToSet(seqs)
         /\ Len(got) = Cardinality(ToSet(seqs))
<1> DEFINE words == <<w>>
           s == seqs[1]
           places == Places(words)
<1>1. /\ w \in Words /\ w.pid = s
      /\ \A o \in 0 .. 16 : Asks(w, o) => Numbered(s, o) \in ToSet(seqs)
      /\ \A b \in ToSet(seqs) :
           \E o \in 0 .. 16 : Asks(w, o) /\ Numbered(s, o) = b
  BY WordStandsFor
<1>2. words \in Seq(Words) /\ Len(words) = 1 /\ words[1] = w /\ s \in Seq16
  BY <1>1
<1> HIDE DEF words, s
<1>3. /\ \A p \in places : /\ p = <<1, p[2]>> /\ p[1] = 1 /\ p[2] \in 0 .. 16
                          /\ Asks(w, p[2])
      /\ \A o \in 0 .. 16 : Asks(w, o) => <<1, o>> \in places
  BY <1>2 DEF Places, OFFSETS
<1>4. \A p \in places : Number(words[p[1]], p[2]) = Numbered(s, p[2])
  BY <1>1, <1>2, <1>3, Zenon DEF Number, Numbered
<1> HIDE DEF places
<1> DEFINE number == [p \in places |-> Numbered(s, p[2])]
<1>5. /\ IsFiniteSet(places)
      /\ got \in Seq(Seq16)
      /\ Len(got) = IF Cardinality(places) < MAX_NACK_SEQS
                    THEN Cardinality(places) ELSE MAX_NACK_SEQS
      /\ \A p \in places :
           /\ Rank(words, p) \in Nat /\ Rank(words, p) < Cardinality(places)
           /\ Rank(words, p) < MAX_NACK_SEQS =>
                got[Rank(words, p) + 1] = Numbered(s, p[2])
      /\ \A k \in 1 .. Len(got) : \E p \in places : got[k] = Numbered(s, p[2])
  <2>1. ReadTo(got, words, OFFSETS * Len(words))
    BY <1>2, ParseNackFciReads DEF words
  <2>2. PlacesBelow(words, OFFSETS * Len(words)) = places
    BY <1>2, PlacesBelowEnd DEF places
  <2> QED  BY <1>4, <2>1, <2>2, Zenon DEF ReadTo
<1>6. number \in Bijection(places, ToSet(seqs))
  <2>1. number \in [places -> ToSet(seqs)]
    BY <1>1, <1>3
  <2>2. ASSUME NEW p \in places, NEW q \in places, number[p] = number[q]
        PROVE  p = q
    <3>1. /\ p[2] \in 0 .. 16 /\ q[2] \in 0 .. 16
          /\ Numbered(s, p[2]) = Numbered(s, q[2])
      BY <1>3, <2>2
    <3>2. \A m, n \in 0 .. 16 : Numbered(s, m) = Numbered(s, n) => m = n
      <4>1. SUFFICES ASSUME NEW m \in 0 .. 16, NEW n \in 0 .. 16,
                            Numbered(s, m) = Numbered(s, n)
                     PROVE  m = n
        OBVIOUS
      <4>2. m \in 0 .. 63 /\ n \in 0 .. 63 /\ n \in Nat
        OBVIOUS
      <4>3. Numbered(s, n) \in Seq16
        BY <1>2, <4>2, NumberedNext
      <4>4. Distance(s, Numbered(s, n)) = m /\ Distance(s, Numbered(s, n)) = n
        BY <1>2, <4>1, <4>2, <4>3, NumberedAtDistance
      <4> QED  BY <4>4
    <3> QED  BY <1>3, <3>1, <3>2, Zenon
  <2>3. ASSUME NEW b \in ToSet(seqs)  PROVE \E p \in places : number[p] = b
    <3>1. PICK o \in 0 .. 16 : Asks(w, o) /\ Numbered(s, o) = b
      BY <1>1
    <3>2. <<1, o>> \in places /\ number[<<1, o>>] = b
      BY <1>3, <3>1
    <3> QED  BY <3>2
  <2> HIDE DEF number
  <2> QED  BY <2>1, <2>2, <2>3
           DEF Bijection, Injection, Surjection, IsInjective
<1>7. Cardinality(ToSet(seqs)) = Cardinality(places)
  <2>1. ExistsBijection(places, ToSet(seqs))
    BY <1>6 DEF ExistsBijection
  <2> QED  BY <1>5, <2>1, FS_Bijection
<1>8. Cardinality(places) \in Nat /\ Cardinality(places) <= 17
  <2> DEFINE offset == [p \in places |-> p[2]]
  <2>1. offset \in Injection(places, 0 .. 16)
    <3>1. offset \in [places -> 0 .. 16]
      BY <1>3
    <3>2. ASSUME NEW p \in places, NEW q \in places, offset[p] = offset[q]
          PROVE  p = q
      BY <1>3, <3>2
    <3> HIDE DEF offset
    <3> QED  BY <3>1, <3>2 DEF Injection, IsInjective
  <2>2. IsFiniteSet(0 .. 16) /\ Cardinality(0 .. 16) = 17
    <3>1. 0 \in Int /\ 16 \in Int /\ ~ (0 > 16) /\ 16 - 0 + 1 = 17
      OBVIOUS
    <3>2. /\ IsFiniteSet(0 .. 16)
          /\ Cardinality(0 .. 16) = IF 0 > 16 THEN 0 ELSE 16 - 0 + 1
      BY <3>1, FS_Interval, Zenon
    <3> QED  BY <3>1, <3>2, Zenon
  <2> HIDE DEF offset
  <2>3. Cardinality(places) <= Cardinality(0 .. 16)
    BY <2>1, <2>2, FS_Injection
  <2> QED  BY <1>5, <2>2, <2>3, FS_CardinalityType
<1>9. /\ Len(got) = Cardinality(places)
      /\ \A p \in places : /\ Rank(words, p) + 1 \in 1 .. Len(got)
                          /\ got[Rank(words, p) + 1] = Numbered(s, p[2])
  <2>1. Cardinality(places) < MAX_NACK_SEQS /\ MAX_NACK_SEQS \in Nat
    BY <1>8 DEF MAX_NACK_SEQS
  <2>2. Len(got) = Cardinality(places)
    BY <1>5, <2>1
  <2>3. ASSUME NEW p \in places
        PROVE  /\ Rank(words, p) + 1 \in 1 .. Len(got)
               /\ got[Rank(words, p) + 1] = Numbered(s, p[2])
    <3>1. Rank(words, p) \in Nat /\ Rank(words, p) < Cardinality(places)
      BY <1>5
    <3>2. Rank(words, p) < MAX_NACK_SEQS
      BY <1>8, <2>1, <3>1
    <3>3. got[Rank(words, p) + 1] = Numbered(s, p[2])
      BY <1>5, <3>2
    <3> QED  BY <1>8, <2>2, <3>1, <3>3
  <2> QED  BY <2>2, <2>3
<1>10. Head(got) = Head(seqs)
  <2> DEFINE first == <<1, 0>>
  <2>1. first \in places /\ first[2] = 0
    BY <1>3 DEF Asks
  <2>2. \A q \in places : ~ PlaceBefore(q, first)
    <3>1. SUFFICES ASSUME NEW q \in places  PROVE ~ PlaceBefore(q, first)
      OBVIOUS
    <3>2. q[1] = 1 /\ q[2] \in 0 .. 16 /\ first[1] = 1 /\ first[2] = 0
      BY <1>3
    <3> HIDE DEF first
    <3> QED  BY <3>2 DEF PlaceBefore
  <2> HIDE DEF first
  <2>3. Rank(words, first) = 0
    <3>1. {q \in places : PlaceBefore(q, first)} = {}
      BY <2>2
    <3> QED  BY <3>1, FS_EmptySet DEF Rank, places
  <2>4. got[1] = s /\ Len(got) >= 1
    <3>1. Numbered(s, 0) = s
      BY <1>2, NumberedNext
    <3> QED  BY <1>5, <1>9, <2>1, <2>3, <3>1
  <2>5. Head(got) = got[1] /\ Head(seqs) = seqs[1]
    <3>1. \A r \in Seq(Seq16) : Len(r) >= 1 => Head(r) = r[1]
      OBVIOUS
    <3> QED  BY <1>5, <2>4, <3>1
  <2> QED  BY <2>4, <2>5 DEF s
<1>11. ToSet(got) = ToSet(seqs)
  <2>1. \A b : b \in ToSet(got) <=> \E k \in 1 .. Len(got) : b = got[k]
    <3>1. got \in Seq(Seq16)
      BY <1>5
    <3>2. DOMAIN got = 1 .. Len(got)
      BY <3>1
    <3> QED  BY <3>2, Zenon DEF ToSet
  <2>2. ASSUME NEW b \in ToSet(got)  PROVE b \in ToSet(seqs)
    <3>1. PICK p \in places : b = Numbered(s, p[2])
      BY <1>5, <2>1
    <3> QED  BY <1>1, <1>3, <3>1
  <2>3. ASSUME NEW b \in ToSet(seqs)  PROVE b \in ToSet(got)
    <3>1. PICK o \in 0 .. 16 : Asks(w, o) /\ Numbered(s, o) = b
      BY <1>1
    <3>2. <<1, o>> \in places /\ <<1, o>>[2] = o
      BY <1>3, <3>1
    <3> QED  BY <1>9, <2>1, <3>1, <3>2
  <2> QED  BY <2>2, <2>3
<1> QED  BY <1>7, <1>9, <1>10, <1>11

(* When a request is written, and what.                                    *)
LEMMA NackWritten ==
  ASSUME NEW nack \in Nacks, NEW capacity \in Capacities,
         NEW result, result = WriteNack(nack, capacity)
  PROVE  /\ result.status = "ok" <=>
              /\ Len(nack.seqs) \in 1 .. MAX_NACK_SEQS
              /\ InReach(nack.seqs)
              /\ capacity >= 16
         /\ result.status = "ok" =>
              result.packet =
                Packet(FMT_NACK, RTPFB,
                  << nack.sender_ssrc, nack.media_ssrc,
                     [pid |-> nack.seqs[1], blp |-> Mask(nack.seqs)] >>)
<1> DEFINE seqs == nack.seqs
           p == Packet(FMT_NACK, RTPFB,
                  << nack.sender_ssrc, nack.media_ssrc,
                     [pid |-> seqs[1], blp |-> Mask(seqs)] >>)
<1>1. seqs \in Seq(Seq16) /\ capacity \in Nat
  BY RtcpAssumption
<1>2. p.words = 3
  BY DEF Packet
<1>3. WriteNack(nack, capacity) =
        IF Len(seqs) \notin 1 .. MAX_NACK_SEQS THEN Refused("invalid_arg")
        ELSE IF capacity >= 16 /\ ~ Mask(seqs) \subseteq 0 .. 15
             THEN Refused("unsupported")
        ELSE Written(capacity, p)
  BY DEF WriteNack
<1> HIDE DEF p
<1>4. Written(capacity, p) = IF capacity < 16 THEN Refused("too_small")
                             ELSE [status |-> "ok", packet |-> p]
  BY <1>2 DEF Written
<1>5. ASSUME Len(seqs) \in 1 .. MAX_NACK_SEQS
      PROVE  Mask(seqs) \subseteq 0 .. 15 <=> InReach(seqs)
  <2>1. \A i \in 2 .. Len(seqs) : seqs[i] \in Seq16 /\ seqs[1] \in Seq16
    BY <1>1, <1>5
  <2>2. \A i \in 2 .. Len(seqs) :
          Distance(seqs[1], seqs[i]) - 1 \in 0 .. 15 <=>
            Distance(seqs[1], seqs[i]) \in 1 .. 16
    <3>1. \A d \in Nat : d - 1 \in 0 .. 15 <=> d \in 1 .. 16
      OBVIOUS
    <3> QED  BY <2>1, <3>1, DistanceType
  <2>3. Mask(seqs) \subseteq 0 .. 15 <=>
          \A i \in 2 .. Len(seqs) : Distance(seqs[1], seqs[i]) - 1 \in 0 .. 15
    BY Zenon DEF Mask
  <2> QED  BY <2>2, <2>3, Zenon DEF InReach
<1>6. capacity < 16 <=> ~ (capacity >= 16)
  BY <1>1
<1>7. /\ Refused("invalid_arg").status # "ok"
      /\ Refused("unsupported").status # "ok"
      /\ Refused("too_small").status # "ok"
      /\ [status |-> "ok", packet |-> p].status = "ok"
      /\ [status |-> "ok", packet |-> p].packet = p
  BY DEF Refused
<1> HIDE DEF seqs
<1>8. CASE /\ Len(seqs) \in 1 .. MAX_NACK_SEQS
           /\ Mask(seqs) \subseteq 0 .. 15
           /\ capacity >= 16
  <2>1. result = [status |-> "ok", packet |-> p]
    BY <1>3, <1>4, <1>6, <1>8, Zenon
  <2> QED  BY <1>5, <1>7, <1>8, <2>1 DEF p, seqs
<1>9. CASE ~ /\ Len(seqs) \in 1 .. MAX_NACK_SEQS
             /\ Mask(seqs) \subseteq 0 .. 15
             /\ capacity >= 16
  <2>1. result.status # "ok"
    BY <1>3, <1>4, <1>6, <1>7, <1>9, Zenon
  <2> QED  BY <1>5, <1>9, <2>1 DEF seqs
<1> QED  BY <1>8, <1>9

(* A request is written exactly if one packet can carry it and there is    *)
(* room, and asks the peer for exactly the packets that were lost: for     *)
(* every list of numbers and every buffer.                                 *)
LEMMA SpokenSurvives == SpokenOrNone => RequestSurvives
<1> SUFFICES ASSUME SpokenOrNone, Said({"nack"})  PROVE RequestSurvives
  BY DEF RequestSurvives, WasWritten
<1>1. exchange # <<>> /\ exchange.kind = "nack"
  BY DEF Said
<1>2. PICK nack \in Nacks, capacity \in Capacities :
        exchange = Exchange("nack", nack, capacity, WriteNack(nack, capacity))
  BY <1>1, SpokenForms DEF NackSpoken
<1> DEFINE asked == nack.seqs
           word == [pid |-> asked[1], blp |-> Mask(asked)]
           body == <<nack.sender_ssrc, nack.media_ssrc, word>>
           result == exchange.result
<1>3. /\ exchange.content = nack /\ exchange.capacity = capacity
      /\ result = WriteNack(nack, capacity)
  BY <1>2 DEF Exchange
<1>4. /\ result.status = "ok" <=>
           /\ Len(asked) \in 1 .. MAX_NACK_SEQS
           /\ InReach(asked)
           /\ capacity >= 16
      /\ result.status = "ok" => result.packet = Packet(FMT_NACK, RTPFB, body)
  BY <1>3, NackWritten
<1>5. asked \in Seq(Seq16)
  BY RtcpAssumption
<1> HIDE DEF asked, result
<1>6. ASSUME result.status = "ok"
      PROVE  LET got == Received(WholeLength) IN
             /\ got.status = "ok" /\ got.kind = "nack"
             /\ Head(got.content.seqs) = Head(asked)
             /\ ToSet(got.content.seqs) = ToSet(asked)
             /\ Len(got.content.seqs) = Cardinality(ToSet(asked))
  <2>1. /\ InReach(asked) /\ Len(asked) >= 1
        /\ result.packet = Packet(FMT_NACK, RTPFB, body)
    BY <1>4, <1>5, <1>6
  <2>2. word \in Words
    BY <1>5, <2>1, WordStandsFor
  <2> HIDE DEF word
  <2>3. /\ <<word>> \in Seq(Words) /\ <<word>> # <<>>
        /\ body = <<nack.sender_ssrc, nack.media_ssrc>> \o <<word>>
    BY <2>2
  <2> HIDE DEF body
  <2>4. ParseRtcp(Datagram(result.packet, PacketLen(result.packet))) =
          Parsed("nack", [sender_ssrc |-> nack.sender_ssrc,
                          media_ssrc |-> nack.media_ssrc,
                          seqs |-> ParseNackFci(<<word>>)])
    BY <2>1, <2>3, RequestReads
  <2>5. /\ Received(WholeLength).status = "ok"
        /\ Received(WholeLength).kind = "nack"
        /\ Received(WholeLength).content.seqs = ParseNackFci(<<word>>)
    BY <2>4 DEF Received, WholeLength, Parsed, result
  <2>6. /\ Head(ParseNackFci(<<word>>)) = Head(asked)
        /\ ToSet(ParseNackFci(<<word>>)) = ToSet(asked)
        /\ Len(ParseNackFci(<<word>>)) = Cardinality(ToSet(asked))
    BY <1>5, <2>1, OneWordReads DEF word
  <2> QED  BY <2>5, <2>6, Zenon
<1>7. WasWritten({"nack"}) <=> result.status = "ok"
  BY DEF WasWritten, result
<1>8. exchange.content.seqs = asked
  BY <1>3 DEF asked
<1> QED  BY <1>3, <1>4, <1>6, <1>7, <1>8, Zenon DEF RequestSurvives

THEOREM RtcpRequestSurvives == RtcpSpec => []RequestSurvives
BY SpokenStep, SpokenSurvives, PTL
=============================================================================
