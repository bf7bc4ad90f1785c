--------------------------- MODULE StateCacheProofs ---------------------------
(***************************************************************************)
(* Proofs about StateCache: for any number of callers and tipsets,         *)
(* TipSetState answers right, and computes a tipset once unless a          *)
(* computation fails.                                                      *)
(***************************************************************************)
EXTENDS StateCache, SequenceTheorems, TLAPS

\* the time limit of the SMT solver covers the preparation of the next obligations
USE SMTT(60)

Frame == [pc : {"enter", "wait", "compute", "rest", "vested", "msigs", "msigsErr", "deferred", "close"},
          key : Keys, ch : Nat, st : {Undef} \cup {StateOf(k) : k \in Keys}]

\* all the calls of TipSetState under way, outer ones included
Frames == UNION {Range(calls[c]) : c \in Callers}

\* What a call under way knows.  As long as no computation failed, one that is past
\* its computation has the state, and a wait that is over was for a state now cached.
FrameOK(f) ==
    /\ f.st \in {Undef, StateOf(f.key)} /\ f.ch <= channels
    /\ f.pc = "wait" => f.ch > 0
    /\ ~ failed =>
           /\ f.pc = "deferred" => f.st = StateOf(f.key)
           /\ f.pc = "close" => f.key \in DOMAIN stCache
           /\ f.pc = "wait" /\ f.ch \in closed => f.key \in DOMAIN stCache

\* A channel is for one key.
ChannelsOK ==
    /\ channels \in Nat /\ closed \subseteq 0 .. channels
    /\ \A k \in DOMAIN compWait : compWait[k] \in 1 .. channels
    /\ \A j, k \in DOMAIN compWait : compWait[j] = compWait[k] => j = k
    /\ \A f \in Frames, k \in DOMAIN compWait : f.ch = compWait[k] => f.key = k
    /\ \A f, g \in Frames : f.ch = g.ch /\ f.ch > 0 => f.key = g.key

\* A key is cached or computed, not both.  As long as no computation failed, the channel
\* of a computation is open, and a key whose computation started is one or the other.
CachedOK ==
    /\ \A k \in DOMAIN stCache : stCache[k] = StateOf(k) /\ k \notin DOMAIN compWait
    /\ ~ failed => \A k \in DOMAIN compWait : compWait[k] \notin closed
    /\ ~ failed => \A k \in Keys : computed[k] = 1 => k \in DOMAIN stCache \cup DOMAIN compWait

CacheInv ==
    /\ calls \in [Callers -> Seq(Frame)] /\ failed \in BOOLEAN /\ computed \in [Keys -> Nat]
    /\ \A f \in Frames : FrameOK(f)
    /\ ChannelsOK /\ CachedOK /\ AnswersRight

\* The calls under way are frames, and the innermost of each caller is one of them.
LEMMA TopFrame ==
    ASSUME calls \in [Callers -> Seq(Frame)], NEW c \in Callers, calls[c] # <<>>
    PROVE  /\ Len(calls[c]) \in 1 .. Len(calls[c]) /\ Len(calls[c]) \in Nat
           /\ top(c) \in Frames /\ top(c) \in Frame /\ Frames \subseteq Frame
<1>1. calls[c] \in Seq(Frame)
  OBVIOUS
<1>2. Len(calls[c]) \in 1 .. Len(calls[c]) /\ DOMAIN calls[c] = 1 .. Len(calls[c]) /\ Len(calls[c]) \in Nat
  BY <1>1, EmptySeq, LenProperties
<1>3. top(c) \in Range(calls[c])
  BY <1>2 DEF top, Range
<1>4. \A d \in Callers : Range(calls[d]) \subseteq Frame
  <2> TAKE d \in Callers
  <2>1. calls[d] \in Seq(Frame)
    OBVIOUS
  <2> QED  BY <2>1, RangeOfSeq
<1> QED  BY <1>2, <1>3, <1>4 DEF Frames

\* setCall changes the innermost call of c and no other.
LEMMA SetCall ==
    ASSUME calls \in [Callers -> Seq(Frame)], NEW c \in Callers, calls[c] # <<>>,
           NEW f \in Frame, setCall(c, f)
    PROVE  calls' \in [Callers -> Seq(Frame)] /\ Frames' \subseteq Frames \cup {f}
<1> DEFINE s == calls[c]
           t == [s EXCEPT ![Len(s)] = f]
<1>1. s \in Seq(Frame) /\ Len(s) \in 1 .. Len(s)
  BY TopFrame
<1>2. calls' = [calls EXCEPT ![c] = t]
  BY DEF setCall
<1>3. t \in Seq(Frame) /\ Len(t) = Len(s) /\ \A j \in 1 .. Len(s) : t[j] = IF j = Len(s) THEN f ELSE s[j]
  <2> HIDE DEF s
  <2> QED  BY <1>1, ExceptSeq
<1>4. Range(t) \subseteq Range(s) \cup {f}
  <2> HIDE DEF s, t
  <2>1. DOMAIN t = 1 .. Len(s) /\ DOMAIN s = 1 .. Len(s)
    BY <1>1, <1>3, LenProperties
  <2> QED  BY <1>3, <2>1, ZenonT(60) DEF Range
<1> HIDE DEF t
<1>5. calls' \in [Callers -> Seq(Frame)]
  BY <1>2, <1>3
<1>6. \A d \in Callers : Range(calls'[d]) \subseteq Range(calls[d]) \cup {f}
  BY <1>2, <1>4
<1>7. Frames' \subseteq Frames \cup {f}
  BY <1>6 DEF Frames
<1> QED  BY <1>5, <1>7

\* When a call returns, the one around it, if any, goes on; no other call changes.
LEMMA Returns ==
    ASSUME calls \in [Callers -> Seq(Frame)], NEW c \in Callers, calls[c] # <<>>,
           NEW st, NEW err, returns(c, st, err)
    PROVE  /\ calls' \in [Callers -> Seq(Frame)]
           /\ \A f \in Frames' : f \in Frames \/ \E g \in Frames, p \in {"msigs", "msigsErr"} :
                  f = [g EXCEPT !.pc = p]
<1> DEFINE s == calls[c]
           outer == SubSeq(s, 1, Len(s) - 1)
           n == Len(outer)
           next == IF err THEN "msigsErr" ELSE "msigs"
           t == IF outer = <<>> THEN <<>> ELSE [outer EXCEPT ![n].pc = next]
<1>1. s \in Seq(Frame) /\ Len(s) \in 1 .. Len(s) /\ Len(s) \in Nat /\ Frames \subseteq Frame
  BY TopFrame
<1>2. calls' = [calls EXCEPT ![c] = t]
  BY DEF returns
<1>3. \A i \in 1 .. Len(s) - 1 : s[i] \in Frame
  BY <1>1
<1>4. /\ outer \in Seq(Frame) /\ n = Len(s) - 1
      /\ \A i \in 1 .. Len(s) - 1 : outer[i] = s[i]
  <2>1. \A i \in 1 .. Len(s) - 1 : s[i] \in Frame
    BY <1>3
  <2>2. /\ outer \in Seq(Frame) /\ n = IF 1 <= Len(s) - 1 THEN (Len(s) - 1) - 1 + 1 ELSE 0
        /\ \A i \in 1 .. (Len(s) - 1) - 1 + 1 : outer[i] = s[1 + i - 1]
    <3> HIDE DEF s
    <3> QED  BY <1>1, <2>1, SubSeqProperties
  <2> HIDE DEF s, outer
  <2>3. n = Len(s) - 1
    <3>1. Len(s) \in Nat /\ Len(s) >= 1
      BY <1>1
    <3>2. 1 <= Len(s) - 1 => n = (Len(s) - 1) - 1 + 1
      BY <2>2
    <3>3. ~ (1 <= Len(s) - 1) => n = 0
      BY <2>2
    <3> QED  BY <3>1, <3>2, <3>3
  <2>4. ASSUME NEW i \in 1 .. Len(s) - 1 PROVE outer[i] = s[i]
    <3>1. i \in 1 .. (Len(s) - 1) - 1 + 1 /\ 1 + i - 1 = i
      BY <1>1
    <3> QED  BY <2>2, <3>1
  <2> QED  BY <2>2, <2>3, <2>4
<1> HIDE DEF outer, next
<1>5. CASE outer = <<>>
  <2>1. t = <<>> /\ t \in Seq(Frame) /\ Range(t) = {}
    BY <1>5, EmptySeq DEF Range
  <2> HIDE DEF t
  <2>2. \A d \in Callers : Range(calls'[d]) \subseteq Range(calls[d])
    BY <1>2, <2>1
  <2>3. Frames' \subseteq Frames
    BY <2>2 DEF Frames
  <2> QED  BY <1>2, <2>1, <2>3
<1>6. CASE outer # <<>>
  <2> DEFINE g == outer[n]
             f == [g EXCEPT !.pc = next]
  <2>1. n \in 1 .. n /\ n \in 1 .. Len(s) - 1 /\ n \in 1 .. Len(s)
    <3> HIDE DEF s
    <3> QED  BY <1>1, <1>4, <1>6, EmptySeq
  <2>2. g \in Frame /\ f \in Frame
    <3>1. g \in Frame
      BY <1>4, <2>1
    <3> HIDE DEF g
    <3> QED  BY <3>1 DEF Frame, next
  <2>3. g \in Range(s)
    <3>1. g = s[n] /\ DOMAIN s = 1 .. Len(s)
      BY <1>1, <1>4, <2>1
    <3> QED  BY <2>1, <3>1 DEF Range
  <2>4. g \in Frames
    BY <2>3 DEF Frames
  <2>5. t = [outer EXCEPT ![n] = f]
    BY <1>6
  <2> HIDE DEF s, g, f, t
  <2>6. t \in Seq(Frame) /\ Len(t) = n /\ \A i \in 1 .. n : t[i] = IF i = n THEN f ELSE outer[i]
    BY <1>4, <2>1, <2>2, <2>5, ExceptSeq
  <2>7. Range(t) \subseteq Range(s) \cup {f}
    <3>1. DOMAIN t = 1 .. n /\ DOMAIN s = 1 .. Len(s)
      BY <1>1, <2>6, LenProperties
    <3>2. \A i \in 1 .. n : i \in 1 .. Len(s) - 1 /\ i \in 1 .. Len(s)
      BY <1>1, <1>4
    <3> QED  BY <1>4, <2>6, <3>1, <3>2, ZenonT(60) DEF Range
  <2>8. \A d \in Callers : Range(calls'[d]) \subseteq Range(calls[d]) \cup {f}
    BY <1>2, <2>7 DEF s
  <2>9. Frames' \subseteq Frames \cup {f}
    BY <2>8 DEF Frames
  <2>10. f = [g EXCEPT !.pc = next] /\ next \in {"msigs", "msigsErr"}
    BY DEF f, next
  <2> QED  BY <1>2, <2>4, <2>6, <2>9, <2>10
<1> QED  BY <1>5, <1>6

Right(a) == \A p \in a : p[2] = StateOf(p[1])

\* ch is no channel, or already the one of a call or a computation for key
Known(ch, key) ==
    ch = 0 \/ (\E g \in Frames : g.ch = ch /\ g.key = key) \/ (key \in DOMAIN compWait /\ ch = compWait[key])

\* A step that changes only calls, none of which has a new channel, and closes only
\* channels of computations that are over, keeps the invariant.
LEMMA Keeps ==
    ASSUME CacheInv, UNCHANGED <<stCache, compWait, channels, computed>>,
           closed' \subseteq 0 .. channels, ~ failed => \A k \in DOMAIN compWait : compWait[k] \notin closed',
           failed' \in BOOLEAN, failed => failed', Right(answers'), calls' \in [Callers -> Seq(Frame)],
           Frames' \subseteq Frame,
           \A f \in Frames' : FrameOK(f)' /\ Known(f.ch, f.key)
    PROVE  CacheInv'
<1>1. ASSUME NEW ch \in Nat, ch # 0, NEW j, NEW k, Known(ch, j), Known(ch, k) PROVE j = k
  <2>1. ASSUME NEW g \in Frames, g.ch = ch, g.key = j PROVE j = k
    BY <1>1, <2>1 DEF CacheInv, ChannelsOK, Known
  <2>2. ASSUME j \in DOMAIN compWait, ch = compWait[j] PROVE j = k
    BY <1>1, <2>2 DEF CacheInv, ChannelsOK, Known
  <2> QED  BY <1>1, <2>1, <2>2, ZenonT(60) DEF Known
<1>2. ChannelsOK'
  <2>1. ASSUME NEW f \in Frames', NEW k \in DOMAIN compWait, f.ch = compWait[k] PROVE f.key = k
    <3>1. f.ch \in Nat /\ f.ch # 0 /\ Known(f.ch, k)
      BY <2>1 DEF CacheInv, ChannelsOK, Known
    <3> QED  BY <1>1, <3>1
  <2>2. ASSUME NEW f \in Frames', NEW g \in Frames', f.ch = g.ch, f.ch > 0 PROVE f.key = g.key
    <3>1. f.ch \in Nat /\ f.ch # 0
      BY <2>2 DEF Frame
    <3> QED  BY <1>1, <2>2, <3>1
  <2> QED  BY <2>1, <2>2 DEF CacheInv, ChannelsOK
<1>3. CachedOK'
  BY DEF CacheInv, CachedOK
<1>4. AnswersRight'
  BY DEF CacheInv, AnswersRight, Right
<1> QED  BY <1>2, <1>3, <1>4 DEF CacheInv

\* A call that returns a right answer, or an error, keeps the invariant.
LEMMA ReturnsKeeps ==
    ASSUME CacheInv, NEW c \in Callers, calls[c] # <<>>, NEW st, NEW err \in BOOLEAN, returns(c, st, err),
           err \/ st = StateOf(top(c).key),
           closed' \subseteq 0 .. channels, ~ failed => \A k \in DOMAIN compWait : compWait[k] \notin closed',
           \A f \in Frames : FrameOK(f)',
           UNCHANGED <<stCache, compWait, channels, computed, failed>>
    PROVE  CacheInv'
<1>1. /\ calls' \in [Callers -> Seq(Frame)]
      /\ \A f \in Frames' : f \in Frames \/ \E g \in Frames, p \in {"msigs", "msigsErr"} : f = [g EXCEPT !.pc = p]
  BY Returns DEF CacheInv
<1>2. Frames \subseteq Frame
  BY TopFrame DEF CacheInv
<1>3. ASSUME NEW g \in Frames, NEW p \in {"msigs", "msigsErr"}, NEW f, f = [g EXCEPT !.pc = p]
      PROVE  f \in Frame /\ f.ch = g.ch /\ f.key = g.key /\ FrameOK(f)'
  <2>1. g \in Frame /\ FrameOK(g)'
    BY <1>2
  <2>2. f \in Frame /\ f.ch = g.ch /\ f.key = g.key /\ f.st = g.st /\ f.pc = p
    BY <1>3, <2>1 DEF Frame
  <2> QED  BY <2>1, <2>2 DEF FrameOK
<1>4. Frames' \subseteq Frame
  BY <1>1, <1>2, <1>3
<1>5. \A f \in Frames' : FrameOK(f)' /\ Known(f.ch, f.key)
  BY <1>1, <1>3 DEF Known
<1>6. Right(answers')
  <2>1. Right(answers)
    BY DEF CacheInv, AnswersRight, Right
  <2>2. answers' = IF err THEN answers ELSE answers \cup {<<top(c).key, st>>}
    BY DEF returns
  <2> QED  BY <2>1, <2>2 DEF Right
<1>7. failed' \in BOOLEAN /\ (failed => failed')
  BY DEF CacheInv
<1> QED  BY <1>1, <1>4, <1>5, <1>6, <1>7, Keeps

\* A call that goes on to another point with no new channel keeps the invariant.
LEMMA SetCallKeeps ==
    ASSUME CacheInv, NEW c \in Callers, calls[c] # <<>>, NEW f \in Frame, setCall(c, f),
           FrameOK(f)', Known(f.ch, f.key),
           UNCHANGED <<stCache, compWait, closed, channels, computed, answers>>,
           failed' \in BOOLEAN, failed => failed'
    PROVE  CacheInv'
<1>1. calls' \in [Callers -> Seq(Frame)] /\ Frames' \subseteq Frames \cup {f}
  BY SetCall DEF CacheInv
<1>2. Frames \subseteq Frame
  BY TopFrame DEF CacheInv
<1>3. Right(answers')
  BY DEF CacheInv, AnswersRight, Right
<1>4. \A g \in Frames : FrameOK(g)' /\ Known(g.ch, g.key)
  BY DEF CacheInv, FrameOK, Known
<1>5. closed' \subseteq 0 .. channels /\ (~ failed => \A k \in DOMAIN compWait : compWait[k] \notin closed')
  BY DEF CacheInv, ChannelsOK, CachedOK
<1>6. Frames' \subseteq Frame /\ \A g \in Frames' : FrameOK(g)' /\ Known(g.ch, g.key)
  BY <1>1, <1>2, <1>4
<1> QED  BY <1>1, <1>3, <1>5, <1>6, Keeps

\* The answer of a cached state keeps the invariant.
LEMMA CachedKeeps ==
    ASSUME CacheInv, NEW c \in Callers, calls[c] # <<>>, top(c).key \in DOMAIN stCache, claim(c),
           UNCHANGED <<stCache, closed, failed>>
    PROVE  CacheInv'
<1>1. returns(c, stCache[top(c).key], FALSE) /\ UNCHANGED <<compWait, computed, channels>>
  BY ZenonT(60) DEF claim
<1>2. stCache[top(c).key] = StateOf(top(c).key)
  BY DEF CacheInv, CachedOK
<1>3. \A f \in Frames : FrameOK(f)'
  BY <1>1 DEF CacheInv, FrameOK
<1>4. closed' \subseteq 0 .. channels /\ (~ failed => \A k \in DOMAIN compWait : compWait[k] \notin closed')
  BY DEF CacheInv, ChannelsOK, CachedOK
<1> QED  BY <1>1, <1>2, <1>3, <1>4, ReturnsKeeps, ZenonT(60)

\* A claim of a key that is not cached starts the computation with a channel nobody
\* has; without failures it is the first for this key.
LEMMA StartKeeps ==
    ASSUME CacheInv, NEW c \in Callers, calls[c] # <<>>, top(c).key \notin DOMAIN stCache, claim(c),
           ~ failed => top(c).key \notin DOMAIN compWait,
           UNCHANGED <<stCache, closed, failed>>
    PROVE  CacheInv'
<1> DEFINE key == top(c).key
           n == channels + 1
<1>f. PICK f : f = [top(c) EXCEPT !.pc = "compute", !.ch = n]
  OBVIOUS
<1>1. /\ channels' = n /\ compWait' = put(compWait, key, n) /\ setCall(c, f)
      /\ computed' = [computed EXCEPT ![key] = @ + 1] /\ UNCHANGED answers
  BY <1>f DEF claim
<1>2. /\ top(c) \in Frame /\ top(c) \in Frames /\ Frames \subseteq Frame /\ channels \in Nat
      /\ FrameOK(top(c)) /\ \A g \in Frames : g.ch <= channels
  BY TopFrame DEF CacheInv, ChannelsOK, FrameOK
<1>3. f \in Frame /\ f.pc = "compute" /\ f.ch = n /\ f.key = key /\ f.st = top(c).st /\ key \in Keys
  <2> DEFINE t == top(c)
  <2>1. t \in Frame /\ n \in Nat /\ f = [t EXCEPT !.pc = "compute", !.ch = n]
    BY <1>f, <1>2
  <2> HIDE DEF t, n
  <2>2. f \in Frame /\ f.pc = "compute" /\ f.ch = n /\ f.key = t.key /\ f.st = t.st /\ t.key \in Keys
    BY <2>1, ZenonT(60) DEF Frame
  <2> QED  BY <2>2 DEF t
<1>4. calls' \in [Callers -> Seq(Frame)] /\ Frames' \subseteq Frames \cup {f}
  BY <1>1, <1>3, SetCall DEF CacheInv
<1>5. \A g \in Frames' : FrameOK(g)'
  <2>1. FrameOK(f)'
    BY <1>1, <1>2, <1>3 DEF FrameOK
  <2>2. ASSUME NEW g \in Frames PROVE FrameOK(g)'
    <3>1. FrameOK(g) /\ g.ch \in Nat
      BY <1>2 DEF CacheInv, Frame
    <3> QED  BY <1>1, <1>2, <3>1 DEF FrameOK
  <2> QED  BY <1>4, <2>1, <2>2
<1>6. DOMAIN compWait' = DOMAIN compWait \cup {key} /\ compWait'[key] = n
      /\ \A k \in DOMAIN compWait : k # key => compWait'[k] = compWait[k]
  BY <1>1 DEF put
<1>7. ChannelsOK'
  <2>1. channels' \in Nat /\ closed' \subseteq 0 .. channels'
    BY <1>1, <1>2 DEF CacheInv, ChannelsOK
  <2>2. \A k \in DOMAIN compWait' : compWait'[k] \in 1 .. channels'
    BY <1>1, <1>2, <1>6 DEF CacheInv, ChannelsOK
  <2>3. \A j, k \in DOMAIN compWait' : compWait'[j] = compWait'[k] => j = k
    BY <1>2, <1>6 DEF CacheInv, ChannelsOK
  <2>4. ASSUME NEW g \in Frames', NEW k \in DOMAIN compWait', g.ch = compWait'[k] PROVE g.key = k
    <3>1. CASE g = f
      BY <1>2, <1>3, <1>6, <2>4, <3>1 DEF CacheInv, ChannelsOK
    <3>2. CASE g \in Frames
      <4>1. g.ch <= channels /\ g.ch \in Nat
        BY <1>2, <3>2 DEF Frame
      <4>2. k # key
        BY <1>2, <1>6, <2>4, <4>1
      <4> QED  BY <1>6, <2>4, <3>2, <4>2 DEF CacheInv, ChannelsOK
    <3> QED  BY <1>4, <3>1, <3>2
  <2>5. ASSUME NEW g \in Frames', NEW h \in Frames', g.ch = h.ch, g.ch > 0 PROVE g.key = h.key
    <3>1. \A x \in Frames : x.ch # n
      BY <1>2 DEF Frame
    <3>2. CASE g = f \/ h = f
      BY <1>3, <1>4, <2>5, <3>1, <3>2
    <3>3. CASE g \in Frames /\ h \in Frames
      BY <2>5, <3>3 DEF CacheInv, ChannelsOK
    <3> QED  BY <1>4, <3>2, <3>3
  <2> QED  BY <2>1, <2>2, <2>3, <2>4, <2>5 DEF ChannelsOK
<1>8. CachedOK'
  <2>1. \A k \in DOMAIN stCache : stCache[k] = StateOf(k) /\ k \notin DOMAIN compWait'
    BY <1>6 DEF CacheInv, CachedOK
  <2>2. n \notin closed
    BY <1>2 DEF CacheInv, ChannelsOK
  <2>3. ~ failed => \A k \in DOMAIN compWait' : compWait'[k] \notin closed
    BY <1>6, <2>2 DEF CacheInv, CachedOK
  <2>4. ASSUME ~ failed, NEW k \in Keys, computed'[k] = 1 PROVE k \in DOMAIN stCache \cup DOMAIN compWait'
    <3>1. k # key => computed'[k] = computed[k]
      BY <1>1 DEF CacheInv
    <3> QED  BY <1>6, <2>4, <3>1 DEF CacheInv, CachedOK
  <2> QED  BY <2>1, <2>3, <2>4 DEF CachedOK
<1>9. computed' \in [Keys -> Nat] /\ AnswersRight'
  <2>1. computed' \in [Keys -> Nat]
    BY <1>1, <1>3 DEF CacheInv
  <2>2. ASSUME ~ failed, NEW k \in Keys PROVE computed'[k] <= 1
    <3>1. computed[k] \in Nat /\ computed[k] <= 1
      BY <2>2 DEF CacheInv, AnswersRight
    <3>2. CASE k = key
      <4>1. computed[k] # 1
        BY <2>2, <3>2 DEF CacheInv, CachedOK
      <4>2. computed'[k] = computed[k] + 1
        BY <1>1, <1>3, <3>2 DEF CacheInv
      <4> QED  BY <3>1, <4>1, <4>2
    <3>3. CASE k # key
      BY <1>1, <3>1, <3>3 DEF CacheInv
    <3> QED  BY <3>2, <3>3
  <2>3. \A p \in answers : p[2] = StateOf(p[1])
    BY DEF CacheInv, AnswersRight
  <2> QED  BY <1>1, <2>1, <2>2, <2>3 DEF AnswersRight
<1> QED  BY <1>4, <1>5, <1>7, <1>8, <1>9 DEF CacheInv

\* The deferred function caches what was computed, and gives up the computation.
LEMMA DeferredKeeps ==
    ASSUME CacheInv, NEW c \in Callers, deferred(c)
    PROVE  CacheInv'
<1> DEFINE t == top(c)
           key == t.key
<1>1. calls[c] # <<>> /\ t.pc = "deferred"
  BY DEF deferred, at
<1>2. t \in Frame /\ t \in Frames /\ Frames \subseteq Frame /\ FrameOK(t) /\ channels \in Nat
  BY <1>1, TopFrame DEF CacheInv, ChannelsOK
<1>3. PICK f : f = [t EXCEPT !.pc = "close"]
  BY ZenonT(60)
<1>4. f \in Frame /\ f.pc = "close" /\ f.ch = t.ch /\ f.key = key /\ f.st = t.st /\ key \in Keys
  <2> HIDE DEF t
  <2> QED  BY <1>2, <1>3 DEF Frame
<1>5. /\ compWait' = [k \in DOMAIN compWait \ {key} |-> compWait[k]]
      /\ stCache' = store(key, t.st) /\ setCall(c, f)
      /\ UNCHANGED <<closed, answers, computed, failed, channels>>
  BY <1>3 DEF deferred
<1>6. calls' \in [Callers -> Seq(Frame)] /\ Frames' \subseteq Frames \cup {f}
  BY <1>1, <1>4, <1>5, SetCall DEF CacheInv
<1>7. /\ DOMAIN stCache \subseteq DOMAIN stCache' /\ DOMAIN stCache' \subseteq DOMAIN stCache \cup {key}
      /\ \A k \in DOMAIN stCache' : stCache'[k] = StateOf(k)
      /\ ~ failed => key \in DOMAIN stCache'
  <2>1. t.st = Undef \/ t.st = StateOf(key)
    BY <1>2 DEF FrameOK
  <2>2. CASE t.st = Undef
    <3>1. failed
      BY <1>1, <1>2, <1>4, <2>2, KeysAssumption DEF FrameOK, CacheInv
    <3> QED  BY <1>5, <2>2, <3>1 DEF store, CacheInv, CachedOK
  <2>3. CASE t.st # Undef
    <3>1. stCache' = put(stCache, key, StateOf(key))
      BY <1>5, <2>1, <2>3 DEF store
    <3> QED  BY <3>1 DEF put, CacheInv, CachedOK
  <2> QED  BY <2>2, <2>3
<1>8. \A g \in Frames' : FrameOK(g)'
  <2>1. FrameOK(f)'
    BY <1>2, <1>4, <1>5, <1>7 DEF FrameOK
  <2>2. ASSUME NEW g \in Frames PROVE FrameOK(g)'
    BY <1>5, <1>7 DEF FrameOK, CacheInv
  <2> QED  BY <1>6, <2>1, <2>2
<1>9. ChannelsOK'
  <2>1. \A g \in Frames' : \E h \in Frames : h.ch = g.ch /\ h.key = g.key
    BY <1>2, <1>4, <1>6
  <2>2. DOMAIN compWait' \subseteq DOMAIN compWait /\ \A k \in DOMAIN compWait' : compWait'[k] = compWait[k]
    BY <1>5
  <2>3. ASSUME NEW g \in Frames', NEW k \in DOMAIN compWait', g.ch = compWait'[k] PROVE g.key = k
    BY <2>1, <2>2, <2>3 DEF CacheInv, ChannelsOK
  <2>4. ASSUME NEW g \in Frames', NEW h \in Frames', g.ch = h.ch, g.ch > 0 PROVE g.key = h.key
    BY <2>1, <2>4 DEF CacheInv, ChannelsOK
  <2> QED  BY <1>5, <2>2, <2>3, <2>4, ZenonT(60) DEF CacheInv, ChannelsOK
<1>10. CachedOK'
  <2>1. \A k \in DOMAIN stCache' : k \notin DOMAIN compWait'
    BY <1>5, <1>7 DEF CacheInv, CachedOK
  <2>2. ~ failed => \A k \in DOMAIN compWait' : compWait'[k] \notin closed
    BY <1>5 DEF CacheInv, CachedOK
  <2>3. ~ failed => \A k \in Keys : computed[k] = 1 => k \in DOMAIN stCache' \cup DOMAIN compWait'
    BY <1>5, <1>7 DEF CacheInv, CachedOK
  <2> QED  BY <1>5, <1>7, <2>1, <2>2, <2>3, ZenonT(60) DEF CachedOK
<1> QED  BY <1>5, <1>6, <1>8, <1>9, <1>10 DEF CacheInv, AnswersRight

\* Closing the channel wakes only those who wait for this key, which is cached by then
\* unless a computation failed.
LEMMA CloseKeeps ==
    ASSUME CacheInv, NEW c \in Callers, close(c)
    PROVE  CacheInv'
<1> DEFINE t == top(c)
<1>1. /\ calls[c] # <<>> /\ t.pc = "close" /\ closed' = closed \cup {t.ch} /\ returns(c, t.st, t.st = Undef)
      /\ UNCHANGED <<stCache, compWait, computed, failed, channels>>
  BY DEF close, at, nowClosed
<1>2. t \in Frame /\ t \in Frames /\ Frames \subseteq Frame /\ FrameOK(t)
  BY <1>1, TopFrame DEF CacheInv
<1>3. t.ch \in Nat /\ t.ch <= channels /\ (t.st # Undef => t.st = StateOf(t.key))
      /\ (~ failed => t.key \in DOMAIN stCache)
  <2> HIDE DEF t
  <2>1. t.ch \in Nat
    BY <1>2 DEF Frame
  <2> QED  BY <1>1, <1>2, <2>1 DEF FrameOK
<1>4. closed' \subseteq 0 .. channels
  <2> HIDE DEF t
  <2>1. channels \in Nat /\ closed \subseteq 0 .. channels
    BY DEF CacheInv, ChannelsOK
  <2>2. t.ch \in 0 .. channels
    BY <1>3, <2>1
  <2> QED  BY <1>1, <2>1, <2>2, ZenonT(60)
<1>5. ASSUME ~ failed, NEW k \in DOMAIN compWait PROVE compWait[k] \notin closed'
  <2>1. compWait[k] \notin closed /\ t.key \notin DOMAIN compWait
    BY <1>3, <1>5 DEF CacheInv, CachedOK
  <2>2. compWait[k] # t.ch
    BY <1>2, <2>1 DEF CacheInv, ChannelsOK
  <2> QED  BY <1>1, <2>1, <2>2
<1>6. ASSUME NEW f \in Frames PROVE FrameOK(f)'
  <2>1. FrameOK(f) /\ f.ch \in Nat
    BY <1>2 DEF CacheInv, Frame
  <2>2. ASSUME ~ failed, f.pc = "wait", f.ch \in closed' PROVE f.key \in DOMAIN stCache
    <3>1. CASE f.ch \in closed
      BY <2>1, <2>2, <3>1 DEF FrameOK
    <3>2. CASE f.ch = t.ch
      <4>1. f.key = t.key
        BY <1>2, <2>1, <2>2, <3>2 DEF CacheInv, ChannelsOK, FrameOK
      <4> QED  BY <1>3, <2>2, <4>1
    <3> QED  BY <1>1, <2>2, <3>1, <3>2
  <2> QED  BY <1>1, <2>1, <2>2 DEF FrameOK
<1>7. UNCHANGED <<stCache, compWait, channels, computed, failed>>
  BY <1>1
<1>8. \A f \in Frames : FrameOK(f)'
  BY <1>6
<1>9. ~ failed => \A k \in DOMAIN compWait : compWait[k] \notin closed'
  BY <1>5
<1>10. CASE t.st = Undef
  <2>1. returns(c, t.st, TRUE)
    BY <1>1, <1>10 DEF returns
  <2> QED  BY <1>1, <1>4, <1>7, <1>8, <1>9, <2>1, ReturnsKeeps, ZenonT(60)
<1>11. CASE t.st # Undef
  <2>1. returns(c, t.st, FALSE)
    BY <1>1, <1>11, ZenonT(60) DEF returns
  <2>2. t.st = StateOf(top(c).key)
    BY <1>3, <1>11
  <2> QED  BY <1>1, <1>4, <1>7, <1>8, <1>9, <2>1, <2>2, ReturnsKeeps, ZenonT(60)
<1> QED  BY <1>10, <1>11

\* A call that goes on with what it has keeps the invariant.
LEMMA GoesOnKeeps ==
    ASSUME CacheInv, NEW c \in Callers, calls[c] # <<>>,
           NEW pc \in {"rest", "vested", "deferred"}, setCall(c, [top(c) EXCEPT !.pc = pc]),
           pc = "deferred" => failed',
           UNCHANGED <<stCache, compWait, closed, channels, computed, answers>>,
           failed' \in BOOLEAN, failed => failed'
    PROVE  CacheInv'
<1> DEFINE t == top(c)
<1>1. t \in Frame /\ t \in Frames /\ FrameOK(t)
  BY TopFrame DEF CacheInv
<1>2. PICK f : f = [t EXCEPT !.pc = pc]
  OBVIOUS
<1>3. f \in Frame /\ f.pc = pc /\ f.ch = t.ch /\ f.key = t.key /\ f.st = t.st
  <2> HIDE DEF t
  <2> QED  BY <1>1, <1>2 DEF Frame
<1>4. FrameOK(f)' /\ Known(f.ch, f.key)
  BY <1>1, <1>3 DEF FrameOK, Known
<1>5. setCall(c, f)
  BY <1>2
<1> QED  BY <1>3, <1>4, <1>5, SetCallKeeps

\* A successful computation keeps the invariant.
LEMMA ComputedKeeps ==
    ASSUME CacheInv, NEW c \in Callers, calls[c] # <<>>,
           setCall(c, [top(c) EXCEPT !.pc = "deferred", !.st = StateOf(top(c).key)]),
           UNCHANGED <<stCache, compWait, closed, channels, computed, answers, failed>>
    PROVE  CacheInv'
<1> DEFINE t == top(c)
<1>1. t \in Frame /\ t \in Frames /\ FrameOK(t)
  BY TopFrame DEF CacheInv
<1>2. PICK f : f = [t EXCEPT !.pc = "deferred", !.st = StateOf(t.key)]
  OBVIOUS
<1>3. f \in Frame /\ f.pc = "deferred" /\ f.ch = t.ch /\ f.key = t.key /\ f.st = StateOf(t.key)
  <2> HIDE DEF t
  <2>1. t.key \in Keys
    BY <1>1 DEF Frame
  <2>2. PICK s : s = StateOf(t.key)
    OBVIOUS
  <2>3. s \in {Undef} \cup {StateOf(k) : k \in Keys}
    BY <2>1, <2>2
  <2>4. f = [t EXCEPT !.pc = "deferred", !.st = s]
    BY <1>2, <2>2
  <2>5. f \in Frame /\ f.pc = "deferred" /\ f.ch = t.ch /\ f.key = t.key /\ f.st = s
    BY <1>1, <2>3, <2>4, ZenonT(60) DEF Frame
  <2> QED  BY <2>2, <2>5
<1>4. FrameOK(f)' /\ Known(f.ch, f.key)
  BY <1>1, <1>3 DEF FrameOK, Known
<1>5. setCall(c, f) /\ failed' \in BOOLEAN /\ (failed => failed')
  BY <1>2 DEF CacheInv
<1> QED  BY <1>3, <1>4, <1>5, SetCallKeeps

\* Waiting for a computation under way keeps the invariant.
LEMMA WaitsKeeps ==
    ASSUME CacheInv, NEW c \in Callers, calls[c] # <<>>, top(c).key \in DOMAIN compWait,
           setCall(c, [top(c) EXCEPT !.pc = "wait", !.ch = compWait[top(c).key]]),
           UNCHANGED <<stCache, compWait, closed, channels, computed, answers, failed>>
    PROVE  CacheInv'
<1> DEFINE t == top(c)
<1>1. t \in Frame /\ t \in Frames /\ FrameOK(t)
  BY TopFrame DEF CacheInv
<1>2. PICK n : n = compWait[t.key]
  OBVIOUS
<1>3. n \in 1 .. channels /\ channels \in Nat /\ (~ failed => n \notin closed)
  BY <1>2 DEF CacheInv, ChannelsOK, CachedOK
<1>4. PICK f : f = [t EXCEPT !.pc = "wait", !.ch = n]
  OBVIOUS
<1>5. f \in Frame /\ f.pc = "wait" /\ f.ch = n /\ f.key = t.key /\ f.st = t.st
  <2>1. n \in Nat
    BY <1>3
  <2> HIDE DEF t
  <2> QED  BY <1>1, <1>4, <2>1, ZenonT(60) DEF Frame
<1>6. FrameOK(f)'
  BY <1>1, <1>3, <1>5 DEF FrameOK
<1>7. Known(f.ch, f.key)
  BY <1>2, <1>5 DEF Known
<1>8. setCall(c, f) /\ failed' \in BOOLEAN /\ (failed => failed')
  BY <1>2, <1>4 DEF CacheInv
<1> QED  BY <1>5, <1>6, <1>7, <1>8, SetCallKeeps

\* A call that is made, from outside or by setupGenesisMsigs, keeps the invariant.
LEMMA CallKeeps ==
    ASSUME CacheInv, NEW c \in Callers, NEW key \in Keys,
           calls' = [calls EXCEPT ![c] = Append(@, call("enter", key))],
           UNCHANGED <<stCache, compWait, closed, channels, computed, answers, failed>>
    PROVE  CacheInv'
<1>1. PICK f : f = call("enter", key)
  OBVIOUS
<1>2. f \in Frame /\ f.pc = "enter" /\ f.ch = 0 /\ f.key = key /\ f.st = Undef
  BY <1>1 DEF call, Frame
<1>3. PICK s : s = Append(calls[c], f)
  BY ZenonT(60)
<1>4. calls[c] \in Seq(Frame) /\ calls' = [calls EXCEPT ![c] = s]
  BY <1>1, <1>3 DEF CacheInv
<1>5. /\ s \in Seq(Frame) /\ DOMAIN s = 1 .. Len(calls[c]) + 1 /\ DOMAIN calls[c] = 1 .. Len(calls[c])
      /\ \A i \in DOMAIN calls[c] : s[i] = calls[c][i]
      /\ s[Len(calls[c]) + 1] = f
  BY <1>2, <1>3, <1>4
<1>6. Range(s) \subseteq Range(calls[c]) \cup {f}
  BY <1>4, <1>5 DEF Range
<1>7. calls' \in [Callers -> Seq(Frame)]
  BY <1>4, <1>5 DEF CacheInv
<1>8. \A d \in Callers : Range(calls'[d]) \subseteq Range(calls[d]) \cup {f}
  BY <1>4, <1>6, ZenonT(60) DEF CacheInv
<1>9. Frames' \subseteq Frames \cup {f}
  BY <1>8 DEF Frames
<1>10. Frames \subseteq Frame
  <2>1. \A d \in Callers : Range(calls[d]) \subseteq Frame
    <3> TAKE d \in Callers
    <3>1. calls[d] \in Seq(Frame)
      BY DEF CacheInv
    <3> QED  BY <3>1, RangeOfSeq
  <2> QED  BY <2>1 DEF Frames
<1>11. FrameOK(f)' /\ Known(f.ch, f.key)
  BY <1>2 DEF FrameOK, Known, CacheInv, ChannelsOK
<1>12. \A g \in Frames : FrameOK(g)' /\ Known(g.ch, g.key)
  BY DEF CacheInv, FrameOK, Known
<1>13. /\ closed' \subseteq 0 .. channels /\ (~ failed => \A k \in DOMAIN compWait : compWait[k] \notin closed')
       /\ Right(answers') /\ failed' \in BOOLEAN /\ (failed => failed')
  BY DEF CacheInv, ChannelsOK, CachedOK, AnswersRight, Right
<1>14. Frames' \subseteq Frame /\ \A g \in Frames' : FrameOK(g)' /\ Known(g.ch, g.key)
  BY <1>2, <1>9, <1>10, <1>11, <1>12
<1> QED  BY <1>7, <1>13, <1>14, Keeps

\* Nothing is computed or cached at first.
LEMMA CacheStarts ==
    ASSUME CacheInit
    PROVE  CacheInv
<1>1. calls \in [Callers -> Seq(Frame)] /\ \A c \in Callers : calls[c] = <<>>
  BY DEF CacheInit
<1>2. Frames = {}
  <2>1. \A c \in Callers : DOMAIN calls[c] = {}
    BY <1>1
  <2>2. \A c \in Callers : Range(calls[c]) = {}
    BY <2>1 DEF Range
  <2> QED  BY <2>2 DEF Frames
<1>3. DOMAIN stCache = {} /\ DOMAIN compWait = {}
  BY DEF CacheInit
<1>4. ChannelsOK
  BY <1>2, <1>3 DEF CacheInit, ChannelsOK
<1>5. CachedOK
  BY <1>3 DEF CacheInit, CachedOK
<1>6. AnswersRight /\ computed \in [Keys -> Nat] /\ failed \in BOOLEAN
  <2>1. computed \in [Keys -> Nat] /\ \A k \in Keys : computed[k] <= 1
    <3>1. computed = [k \in Keys |-> 0]
      BY DEF CacheInit
    <3> QED  BY <3>1
  <2>2. answers = {} /\ failed = FALSE
    BY DEF CacheInit
  <2> QED  BY <2>1, <2>2, ZenonT(60) DEF AnswersRight
<1> QED  BY <1>1, <1>2, <1>4, <1>5, <1>6 DEF CacheInv

\* Every step of a call keeps the invariant.
LEMMA CallSteps ==
    ASSUME CacheInv, NEW c \in Callers, callStep(c)
    PROVE  CacheInv'
<1>1. CASE enter(c)
  <2>1. calls[c] # <<>> /\ UNCHANGED <<stCache, closed, failed>>
    BY <1>1 DEF enter, at
  <2>2. CASE top(c).key \in DOMAIN compWait
    <3>1. /\ setCall(c, [top(c) EXCEPT !.pc = "wait", !.ch = compWait[top(c).key]])
          /\ UNCHANGED <<stCache, compWait, closed, channels, computed, answers, failed>>
      BY <1>1, <2>2 DEF enter
    <3> QED  BY <2>1, <2>2, <3>1, WaitsKeeps, ZenonT(60)
  <2>3. CASE top(c).key \notin DOMAIN compWait
    <3>1. claim(c)
      BY <1>1, <2>3 DEF enter
    <3>2. CASE top(c).key \in DOMAIN stCache
      BY <2>1, <3>1, <3>2, CachedKeeps
    <3>3. CASE top(c).key \notin DOMAIN stCache
      BY <2>1, <2>3, <3>1, <3>3, StartKeeps
    <3> QED  BY <3>2, <3>3
  <2> QED  BY <2>2, <2>3
<1>2. CASE woken(c)
  <2>1. /\ calls[c] # <<>> /\ top(c).pc = "wait" /\ top(c).ch \in closed /\ claim(c)
        /\ UNCHANGED <<stCache, closed, failed>>
    BY <1>2 DEF woken, at
  <2>2. CASE top(c).key \in DOMAIN stCache
    BY <2>1, <2>2, CachedKeeps
  <2>3. CASE top(c).key \notin DOMAIN stCache
    <3>1. top(c) \in Frames
      BY <2>1, TopFrame DEF CacheInv
    <3>2. failed
      BY <2>1, <2>3, <3>1 DEF CacheInv, FrameOK
    <3> QED  BY <2>1, <2>3, <3>2, StartKeeps
  <2> QED  BY <2>2, <2>3
<1>3. CASE waitCancelled(c)
  <2>1. /\ calls[c] # <<>> /\ returns(c, Undef, TRUE)
        /\ UNCHANGED <<stCache, compWait, closed, channels, computed, failed>>
    BY <1>3, ZenonT(60) DEF waitCancelled, at
  <2>2. \A f \in Frames : FrameOK(f)'
    BY <2>1 DEF CacheInv, FrameOK
  <2>3. closed' \subseteq 0 .. channels /\ (~ failed => \A k \in DOMAIN compWait : compWait[k] \notin closed')
    BY <2>1 DEF CacheInv, ChannelsOK, CachedOK
  <2>4. UNCHANGED <<stCache, compWait, channels, computed, failed>>
    BY <2>1
  <2> QED  BY <2>1, <2>2, <2>3, <2>4, ReturnsKeeps, ZenonT(60)
<1>4. CASE compute(c)
  <2>1. calls[c] # <<>> /\ UNCHANGED <<stCache, compWait, closed, channels, computed, answers>>
    BY <1>4 DEF compute, at
  <2>2. CASE setCall(c, [top(c) EXCEPT !.pc = "deferred", !.st = StateOf(top(c).key)]) /\ UNCHANGED failed
    BY <2>1, <2>2, ComputedKeeps, ZenonT(60)
  <2>3. CASE setCall(c, [top(c) EXCEPT !.pc = "deferred"]) /\ failed' = TRUE
    BY <2>1, <2>3, GoesOnKeeps, ZenonT(60)
  <2>4. CASE setCall(c, [top(c) EXCEPT !.pc = "vested"]) /\ UNCHANGED failed
    <3>1. failed' \in BOOLEAN /\ (failed => failed')
      BY <2>4 DEF CacheInv
    <3> QED  BY <2>1, <2>4, <3>1, GoesOnKeeps, ZenonT(60)
  <2> QED  BY <1>4, <2>2, <2>3, <2>4, ZenonT(60) DEF compute
<1>5. CASE GetVestedFunds(c)
  <2>1. /\ calls[c] # <<>> /\ UNCHANGED <<stCache, compWait, closed, channels, computed, answers, failed>>
        /\ failed' \in BOOLEAN /\ (failed => failed')
    BY <1>5 DEF GetVestedFunds, at, CacheInv
  <2>2. CASE setCall(c, [top(c) EXCEPT !.pc = "rest"])
    BY <2>1, <2>2, GoesOnKeeps, ZenonT(60)
  <2>3. CASE calls' = [calls EXCEPT ![c] = Append(@, call("enter", GenesisKey))]
    BY <2>1, <2>3, KeysAssumption, CallKeeps, ZenonT(60)
  <2> QED  BY <1>5, <2>2, <2>3 DEF GetVestedFunds
<1>6. CASE setupGenesisMsigs(c)
  <2>1. calls[c] # <<>> /\ UNCHANGED <<stCache, compWait, closed, channels, computed, answers>>
    BY <1>6 DEF setupGenesisMsigs, at
  <2>2. PICK pc : pc = IF genesisMsigs' THEN "rest" ELSE "deferred"
    OBVIOUS
  <2>3. /\ setCall(c, [top(c) EXCEPT !.pc = pc]) /\ pc \in {"rest", "vested", "deferred"}
        /\ pc = "deferred" => failed'
    BY <1>6, <2>2, ZenonT(60) DEF setupGenesisMsigs
  <2>4. failed' \in BOOLEAN /\ (failed => failed')
    BY <1>6, ZenonT(60) DEF setupGenesisMsigs
  <2> QED  BY <2>1, <2>3, <2>4, GoesOnKeeps, ZenonT(60)
<1> QED  BY <1>1, <1>2, <1>3, <1>4, <1>5, <1>6, DeferredKeeps, CloseKeeps DEF callStep

\* A step that changes nothing the invariant is about keeps it.
LEMMA SameKeeps ==
    ASSUME CacheInv, UNCHANGED <<stCache, compWait, closed, calls, answers, computed, failed, channels>>
    PROVE  CacheInv'
<1>1. Frames' = Frames
  BY DEF Frames
<1>2. \A f \in Frames' : FrameOK(f)'
  BY <1>1 DEF CacheInv, FrameOK
<1>3. ChannelsOK'
  BY <1>1 DEF CacheInv, ChannelsOK
<1>4. CachedOK' /\ AnswersRight'
  BY DEF CacheInv, CachedOK, AnswersRight
<1> QED  BY <1>2, <1>3, <1>4 DEF CacheInv

\* The invariant is inductive.
LEMMA CacheSteps ==
    ASSUME CacheInv, [CacheNext]_cacheVars
    PROVE  CacheInv'
<1>1. CASE UNCHANGED cacheVars
  BY <1>1, SameKeeps DEF cacheVars
<1>2. CASE \E c \in Callers : \E key \in Keys : TipSetState(c, key)
  <2>1. PICK c \in Callers, key \in Keys : TipSetState(c, key)
    BY <1>2
  <2>2. /\ calls[c] = <<>> /\ calls' = [calls EXCEPT ![c] = <<call("enter", key)>>]
        /\ UNCHANGED <<stCache, compWait, closed, channels, computed, answers, failed>>
    BY <2>1 DEF TipSetState
  <2>3. <<call("enter", key)>> = Append(<<>>, call("enter", key))
    OBVIOUS
  <2>4. calls' = [calls EXCEPT ![c] = Append(@, call("enter", key))]
    BY <2>2, <2>3
  <2> QED  BY <2>2, <2>4, CallKeeps, ZenonT(60)
<1>3. CASE \E c \in Callers : callStep(c)
  BY <1>3, CallSteps
<1>4. CASE \E c \in Callers : Cancel(c)
  BY <1>4, SameKeeps DEF Cancel
<1> QED  BY <1>1, <1>2, <1>3, <1>4 DEF CacheNext

\* TipSetState answers with the state of the tipset it was asked for, and computes
\* each tipset once as long as no computation fails (stmgr.go), for any number of
\* callers, tipsets and calls.
THEOREM CacheAnswersRight == CacheSpec => []AnswersRight
<1>1. CacheInv => AnswersRight
  BY DEF CacheInv
<1> QED  BY <1>1, CacheStarts, CacheSteps, PTL DEF CacheSpec
=============================================================================
