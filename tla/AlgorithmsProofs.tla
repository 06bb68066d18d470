-------------------------- MODULE AlgorithmsProofs --------------------------
(***************************************************************************)
(* Theorems about small components that interact with nothing else: the    *)
(* key codes (CpmKeys), the sound library and its example (BlSnd), the     *)
(* segment tables carried in the environment (SegCodec), sprites and       *)
(* palettes (BlSprite), and the loaders of pictures and patterns (BlGrc),  *)
(* for every size of screens, buffers, pictures and patterns.              *)
(***************************************************************************)
EXTENDS SegCodec, BlSnd, CpmKeys, BlSprite, BlGrc, Integers, SequenceTheorems, FiniteSetTheorems, TLAPS

(***************************************************************************)
(* Key codes                                                               *)
(***************************************************************************)

LEMMA CtlAdds ==
  /\ CtlTbl[33] = 59 /\ CtlTbl[34] = 37 /\ CtlTbl[35] = 38 /\ CtlTbl[36] = 48 /\ CtlTbl[37] = 40
  /\ CtlTbl[38] = 69 /\ CtlTbl[39] = 39 /\ CtlTbl[40] = 65 /\ CtlTbl[45] = 64 /\ CtlTbl[46] = 64
  BY DEF CtlTbl

LEMMA BlockCodes ==
  ASSUME NEW n \in Block, NEW m \in Modifiers
  PROVE  /\ n[1] \in 33..46 /\ n[2] \in Nat
         /\ BlockCode(n[2], n[1], m) \in 0..255
         /\ Translated(BlockCode(n[2], n[1], m)) = Manual(n[1], m)
<1>1. /\ n[1] \in 33..46 /\ n[2] \in Nat
      /\ BlockCode(n[2], n[1], m) \in 0..255
  BY CtlAdds DEF Block, Modifiers, BlockCode
<1>2. CASE n[1] \in {33, 34, 35, 36, 37}
  BY <1>2, CtlAdds DEF Block, Modifiers, BlockCode, Translated, Ctrl, Manual
<1>3. CASE n[1] \in {38, 39, 40, 45, 46}
  BY <1>3, CtlAdds DEF Block, Modifiers, BlockCode, Translated, Ctrl, Manual
<1> QED
  BY <1>1, <1>2, <1>3 DEF Block

LEMMA FunctionCodes ==
  ASSUME NEW n \in Function, NEW m \in Modifiers
  PROVE  /\ n[1] \in 112..123 /\ n[2] \in Nat
         /\ FunctionCode(n[2], n[1], m) \in 0..255
         /\ Translated(FunctionCode(n[2], n[1], m)) = Manual(n[1], m)
<1>1. n[1] \in 112..123 /\ n[2] \in Nat /\ FunctionCode(n[2], n[1], m) \in 0..255
  BY DEF Function, Modifiers, FunctionCode
<1>2. CASE m = "none"
  <2>1. (n[1] \in 112..121 /\ n[2] = n[1] - 53) \/ n = <<122, 87>> \/ n = <<123, 88>>
    BY DEF Function
  <2> QED
    BY <1>2, <2>1 DEF FunctionCode, Translated, Ctrl, Manual
<1>3. CASE m = "shift"
  <2>1. (n[1] \in 112..121 /\ n[2] = n[1] - 53) \/ n = <<122, 87>> \/ n = <<123, 88>>
    BY DEF Function
  <2> QED
    BY <1>3, <2>1 DEF FunctionCode, Translated, Ctrl, Manual
<1>4. CASE m = "ctrl"
  <2>1. (n[1] \in 112..121 /\ n[2] = n[1] - 53) \/ n = <<122, 87>> \/ n = <<123, 88>>
    BY DEF Function
  <2> QED
    BY <1>4, <2>1 DEF FunctionCode, Translated, Ctrl, Manual
<1>5. CASE m = "alt"
  <2>1. (n[1] \in 112..121 /\ n[2] = n[1] - 53) \/ n = <<122, 87>> \/ n = <<123, 88>>
    BY DEF Function
  <2> QED
    BY <1>5, <2>1 DEF FunctionCode, Translated, Ctrl, Manual
<1> QED
  BY <1>1, <1>2, <1>3, <1>4, <1>5 DEF Modifiers

KeyInv ==
  /\ key \in [k : Keyboard, mod : Modifiers]
  /\ keyStage # "second" => keybuf = 0
  /\ keyStage = "second" =>
       key.k.char = 0 /\ keybuf \in 0..255 /\ Translated(keybuf) = Manual(key.k.vk, key.mod)
  /\ keyStage = "done" => c = IF key.k.char # 0 THEN key.k.char ELSE Manual(key.k.vk, key.mod)

LEMMA KeyInitial == KeyInit => KeyInv
  BY DEF KeyInit, KeyInv

LEMMA GetchFirstKeeps ==
  ASSUME KeyInv, GetchFirst PROVE KeyInv'
<1> DEFINE k == key.k
<1>1. k \in Keyboard /\ key.mod \in Modifiers /\ key' = key
  BY DEF KeyInv, GetchFirst
<1>2. CASE k.char # 0 /\ c' = k.char /\ keyStage' = "done" /\ UNCHANGED keybuf
  BY <1>1, <1>2 DEF KeyInv, GetchFirst
<1>3. CASE /\ k.char = 0 /\ k.vk \in 33..46
           /\ keybuf' = BlockCode(k.scan, k.vk, key.mod) /\ keyStage' = "second" /\ c' = 0
  <2>1. PICK n \in Block : k = [vk |-> n[1], scan |-> n[2], char |-> 0]
    BY <1>1, <1>3, FunctionCodes, KeysAssumption DEF Keyboard
  <2>2. keybuf' \in 0..255 /\ Translated(keybuf') = Manual(k.vk, key.mod)
    BY <1>1, <1>3, <2>1, BlockCodes
  <2> QED
    BY <1>1, <1>3, <2>2 DEF KeyInv
<1>4. CASE /\ k.char = 0 /\ k.vk \in 112..123
           /\ keybuf' = FunctionCode(k.scan, k.vk, key.mod) /\ keyStage' = "second" /\ c' = 0
  <2>1. PICK n \in Function : k = [vk |-> n[1], scan |-> n[2], char |-> 0]
    BY <1>1, <1>4, BlockCodes, KeysAssumption DEF Keyboard
  <2>2. keybuf' \in 0..255 /\ Translated(keybuf') = Manual(k.vk, key.mod)
    BY <1>1, <1>4, <2>1, FunctionCodes
  <2> QED
    BY <1>1, <1>4, <2>2 DEF KeyInv
<1>5. CASE keyStage' = "ignored" /\ UNCHANGED <<c, keybuf>>
  BY <1>1, <1>5 DEF KeyInv, GetchFirst
<1> QED
  BY <1>2, <1>3, <1>4, <1>5 DEF GetchFirst

LEMMA GetchSecondKeeps ==
  ASSUME KeyInv, GetchSecond PROVE KeyInv'
<1>1. keybuf % 256 = keybuf /\ keybuf \div 256 = 0
  BY DEF KeyInv, GetchSecond
<1> QED
  BY <1>1 DEF KeyInv, GetchSecond

(* KeysExact: exactly the keys and modifiers of the manual's table give    *)
(* control characters, and no code is left for the next call (getch,       *)
(* cpm_getch).                                                             *)
THEOREM KeyCodesTheorem == KeySpec => []KeysExact
<1>1. KeyInv /\ [KeyNext]_keyVars => KeyInv'
  <2> SUFFICES ASSUME KeyInv, [KeyNext]_keyVars PROVE KeyInv'
    OBVIOUS
  <2>1. CASE UNCHANGED keyVars
    BY <2>1 DEF KeyInv, keyVars
  <2> QED
    BY <2>1, GetchFirstKeeps, GetchSecondKeeps DEF KeyNext
<1>2. KeyInv => KeysExact
  BY DEF KeyInv, KeysExact
<1> QED
  BY KeyInitial, <1>1, <1>2, PTL DEF KeySpec

(***************************************************************************)
(* Sequences                                                               *)
(***************************************************************************)
(* u is s followed by t.                                                   *)
Join(S, s, t, u) ==
  /\ s \in Seq(S) /\ t \in Seq(S) /\ u \in Seq(S) /\ Len(u) = Len(s) + Len(t)
  /\ \A n \in Nat : 1 <= n /\ n <= Len(s) => u[n] = s[n]
  /\ \A n \in Nat : Len(s) < n /\ n <= Len(s) + Len(t) => u[n] = t[n - Len(s)]

LEMMA Joined ==
  ASSUME NEW S, NEW s \in Seq(S), NEW t \in Seq(S), NEW u, u = s \o t PROVE Join(S, s, t, u)
  BY DEF Join

LEMMA JoinedAlone ==
  ASSUME NEW S, NEW s, NEW t, NEW u, Join(S, s, t, u) PROVE s \o t = u
<1> s \in Seq(S) /\ t \in Seq(S)
  BY DEF Join
<1>1. s \o t \in Seq(S) /\ Len(s \o t) = Len(u)
  BY DEF Join
<1>2. ASSUME NEW n \in 1..Len(u) PROVE (s \o t)[n] = u[n]
  <2>1. Join(S, s, t, s \o t)
    BY Joined
  <2> QED
    BY <2>1 DEF Join
<1> QED
  BY <1>1, <1>2, SeqEqual DEF Join


(***************************************************************************)
(* Sound                                                                   *)
(***************************************************************************)

Call == [op : {"init", "enqueue", "play", "shot", "stop", "drums", "deinit"}, ch : SndChannels]

(* s is the calls of a section.                                            *)
SectionOf(q, s) ==
  /\ s \in Seq(Call) /\ Len(s) = Len(q) + 3
  /\ \A n \in Nat : 1 <= n /\ n <= Len(q) => s[n] = Enq(q[n])
  /\ s[Len(q) + 1] = Op("play") /\ s[Len(q) + 2] = Op("shot") /\ s[Len(q) + 3] = Op("stop")

LEMMA Sections ==
  ASSUME NEW q \in Seq(SndChannels) PROVE SectionOf(q, Section(q))
<1> DEFINE p == [n \in 1..Len(q) |-> Enq(q[n])]
           e == <<Op("play"), Op("shot"), Op("stop")>>
<1>1. p \in Seq(Call) /\ Len(p) = Len(q) /\ \A n \in Nat : 1 <= n /\ n <= Len(q) => p[n] = Enq(q[n])
  <2>1. \A n \in 1..Len(q) : Enq(q[n]) \in Call
    BY DEF Enq, Call
  <2> QED
    BY <2>1
<1>2. e \in Seq(Call) /\ Len(e) = 3 /\ e[1] = Op("play") /\ e[2] = Op("shot") /\ e[3] = Op("stop")
  BY DEF Op, Call, SndChannels
<1>3. Section(q) = p \o e
  BY DEF Section
<1> HIDE DEF p, e
<1>4. Join(Call, p, e, Section(q))
  BY <1>1, <1>2, <1>3, Joined
<1> DEFINE s == Section(q)
<1> HIDE DEF s
<1>5. Len(q) \in Nat /\ s \in Seq(Call) /\ Len(s) = Len(q) + 3
  BY <1>1, <1>2, <1>4 DEF Join, s
<1>6. \A n \in Nat : 1 <= n /\ n <= Len(q) => s[n] = Enq(q[n])
  BY <1>1, <1>4 DEF Join, s
<1>7. ASSUME NEW k \in Nat, 1 <= k, k <= 3, NEW n \in Nat, n = Len(q) + k PROVE s[n] = e[k]
  <2>1. Len(q) < n /\ n <= Len(q) + 3 /\ n - Len(q) = k
    BY <1>5, <1>7
  <2>2. \A m \in Nat : Len(p) < m /\ m <= Len(p) + Len(e) => s[m] = e[m - Len(p)]
    BY <1>4 DEF Join, s
  <2>3. s[n] = e[n - Len(q)]
    BY <1>1, <1>2, <2>1, <2>2
  <2> QED
    BY <2>1, <2>3
<1> QED
  BY <1>2, <1>5, <1>6, <1>7 DEF SectionOf, s

LEMMA Calls ==
  /\ Len(SubCalls) = 39
  /\ SubCalls[1] = Op("init") /\ SubCalls[2] = Enq(0) /\ SubCalls[3] = Enq(0) /\ SubCalls[4] = Op("play")
  /\ SubCalls[5] = Op("shot") /\ SubCalls[6] = Op("stop") /\ SubCalls[7] = Enq(3) /\ SubCalls[8] = Enq(3)
  /\ SubCalls[9] = Op("play") /\ SubCalls[10] = Op("shot") /\ SubCalls[11] = Op("stop") /\ SubCalls[12] = Enq(0)
  /\ SubCalls[13] = Enq(1) /\ SubCalls[14] = Enq(0) /\ SubCalls[15] = Enq(1) /\ SubCalls[16] = Op("play")
  /\ SubCalls[17] = Op("shot") /\ SubCalls[18] = Op("stop") /\ SubCalls[19] = Enq(3) /\ SubCalls[20] = Enq(4)
  /\ SubCalls[21] = Enq(5) /\ SubCalls[22] = Enq(3) /\ SubCalls[23] = Enq(4) /\ SubCalls[24] = Enq(5)
  /\ SubCalls[25] = Op("play") /\ SubCalls[26] = Op("shot") /\ SubCalls[27] = Op("stop") /\ SubCalls[28] = Enq(0)
  /\ SubCalls[29] = Enq(1) /\ SubCalls[30] = Enq(2) /\ SubCalls[31] = Op("play") /\ SubCalls[32] = Op("shot")
  /\ SubCalls[33] = Op("stop") /\ SubCalls[34] = Enq(Rth) /\ SubCalls[35] = Enq(Rth) /\ SubCalls[36] = Op("play")
  /\ SubCalls[37] = Op("drums") /\ SubCalls[38] = Op("stop") /\ SubCalls[39] = Op("deinit")
<1> DEFINE A0 == <<Op("init")>>
<1> DEFINE S1 == Section(<<0, 0>>)
<1> DEFINE A1 == A0 \o S1
<1> DEFINE S2 == Section(<<3, 3>>)
<1> DEFINE A2 == A1 \o S2
<1> DEFINE S3 == Section(<<0, 1, 0, 1>>)
<1> DEFINE A3 == A2 \o S3
<1> DEFINE S4 == Section(<<3, 4, 5, 3, 4, 5>>)
<1> DEFINE A4 == A3 \o S4
<1> DEFINE S5 == Section(<<0, 1, 2>>)
<1> DEFINE A5 == A4 \o S5
<1> DEFINE S6 == <<Enq(Rth), Enq(Rth), Op("play"), Op("drums"), Op("stop"), Op("deinit")>>
<1> DEFINE A6 == A5 \o S6
<1>s. A0 \in Seq(Call) /\ S6 \in Seq(Call)
  BY DEF Call, SndChannels, Rth, Op, Enq
<1>0. A0 \in Seq(Call) /\ Len(A0) = 1 /\ A0[1] = Op("init")
  BY <1>s
<1>81. LET q == <<0, 0>> IN q \in Seq(SndChannels) /\ Len(q) = 2 /\ q[1] = 0 /\ q[2] = 0
  BY DEF SndChannels
<1>91. SectionOf(<<0, 0>>, S1)
  BY <1>81, Sections
<1>11. /\ S1 \in Seq(Call) /\ Len(S1) = 5
      /\ S1[1] = Enq(0) /\ S1[2] = Enq(0) /\ S1[3] = Op("play") /\ S1[4] = Op("shot")
      /\ S1[5] = Op("stop")
  BY <1>81, <1>91 DEF SectionOf
<1>82. LET q == <<3, 3>> IN q \in Seq(SndChannels) /\ Len(q) = 2 /\ q[1] = 3 /\ q[2] = 3
  BY DEF SndChannels
<1>92. SectionOf(<<3, 3>>, S2)
  BY <1>82, Sections
<1>12. /\ S2 \in Seq(Call) /\ Len(S2) = 5
      /\ S2[1] = Enq(3) /\ S2[2] = Enq(3) /\ S2[3] = Op("play") /\ S2[4] = Op("shot")
      /\ S2[5] = Op("stop")
  BY <1>82, <1>92 DEF SectionOf
<1>83. LET q == <<0, 1, 0, 1>> IN q \in Seq(SndChannels) /\ Len(q) = 4 /\ q[1] = 0 /\ q[2] = 1 /\ q[3] = 0 /\ q[4] = 1
  BY DEF SndChannels
<1>93. SectionOf(<<0, 1, 0, 1>>, S3)
  BY <1>83, Sections
<1>13. /\ S3 \in Seq(Call) /\ Len(S3) = 7
      /\ S3[1] = Enq(0) /\ S3[2] = Enq(1) /\ S3[3] = Enq(0) /\ S3[4] = Enq(1)
      /\ S3[5] = Op("play") /\ S3[6] = Op("shot") /\ S3[7] = Op("stop")
  BY <1>83, <1>93 DEF SectionOf
<1>84. LET q == <<3, 4, 5, 3, 4, 5>> IN q \in Seq(SndChannels) /\ Len(q) = 6 /\ q[1] = 3 /\ q[2] = 4 /\ q[3] = 5 /\ q[4] = 3 /\ q[5] = 4 /\ q[6] = 5
  BY DEF SndChannels
<1>94. SectionOf(<<3, 4, 5, 3, 4, 5>>, S4)
  BY <1>84, Sections
<1>14. /\ S4 \in Seq(Call) /\ Len(S4) = 9
      /\ S4[1] = Enq(3) /\ S4[2] = Enq(4) /\ S4[3] = Enq(5) /\ S4[4] = Enq(3)
      /\ S4[5] = Enq(4) /\ S4[6] = Enq(5) /\ S4[7] = Op("play") /\ S4[8] = Op("shot")
      /\ S4[9] = Op("stop")
  BY <1>84, <1>94 DEF SectionOf
<1>85. LET q == <<0, 1, 2>> IN q \in Seq(SndChannels) /\ Len(q) = 3 /\ q[1] = 0 /\ q[2] = 1 /\ q[3] = 2
  BY DEF SndChannels
<1>95. SectionOf(<<0, 1, 2>>, S5)
  BY <1>85, Sections
<1>15. /\ S5 \in Seq(Call) /\ Len(S5) = 6
      /\ S5[1] = Enq(0) /\ S5[2] = Enq(1) /\ S5[3] = Enq(2) /\ S5[4] = Op("play")
      /\ S5[5] = Op("shot") /\ S5[6] = Op("stop")
  BY <1>85, <1>95 DEF SectionOf
<1>16. /\ S6 \in Seq(Call) /\ Len(S6) = 6
      /\ S6[1] = Enq(Rth) /\ S6[2] = Enq(Rth) /\ S6[3] = Op("play") /\ S6[4] = Op("drums")
      /\ S6[5] = Op("stop") /\ S6[6] = Op("deinit")
  BY <1>s
<1>21. S1 \in Seq(Call) /\ Len(S1) = 5
  BY <1>11
<1>22. S2 \in Seq(Call) /\ Len(S2) = 5
  BY <1>12
<1>23. S3 \in Seq(Call) /\ Len(S3) = 7
  BY <1>13
<1>24. S4 \in Seq(Call) /\ Len(S4) = 9
  BY <1>14
<1>25. S5 \in Seq(Call) /\ Len(S5) = 6
  BY <1>15
<1>26. S6 \in Seq(Call) /\ Len(S6) = 6
  BY <1>16
<1> HIDE DEF A0, S1, S2, S3, S4, S5, S6
<1>61. A1 = A0 \o S1
  OBVIOUS
<1> HIDE DEF A1
<1>71. Join(Call, A0, S1, A1)
  BY <1>61, <1>0, <1>21, Joined
<1>31. A1 \in Seq(Call) /\ Len(A1) = 6
  BY <1>71, <1>0, <1>21 DEF Join
<1>101. /\ \A m \in Nat : 1 <= m /\ m <= 1 => A1[m] = A0[m]
       /\ \A m \in Nat : 1 < m /\ m <= 6 => A1[m] = S1[m - 1]
  BY <1>71, <1>0, <1>21 DEF Join
<1>62. A2 = A1 \o S2
  OBVIOUS
<1> HIDE DEF A2
<1>72. Join(Call, A1, S2, A2)
  BY <1>62, <1>31, <1>22, Joined
<1>32. A2 \in Seq(Call) /\ Len(A2) = 11
  BY <1>72, <1>31, <1>22 DEF Join
<1>102. /\ \A m \in Nat : 1 <= m /\ m <= 6 => A2[m] = A1[m]
       /\ \A m \in Nat : 6 < m /\ m <= 11 => A2[m] = S2[m - 6]
  BY <1>72, <1>31, <1>22 DEF Join
<1>63. A3 = A2 \o S3
  OBVIOUS
<1> HIDE DEF A3
<1>73. Join(Call, A2, S3, A3)
  BY <1>63, <1>32, <1>23, Joined
<1>33. A3 \in Seq(Call) /\ Len(A3) = 18
  BY <1>73, <1>32, <1>23 DEF Join
<1>103. /\ \A m \in Nat : 1 <= m /\ m <= 11 => A3[m] = A2[m]
       /\ \A m \in Nat : 11 < m /\ m <= 18 => A3[m] = S3[m - 11]
  BY <1>73, <1>32, <1>23 DEF Join
<1>64. A4 = A3 \o S4
  OBVIOUS
<1> HIDE DEF A4
<1>74. Join(Call, A3, S4, A4)
  BY <1>64, <1>33, <1>24, Joined
<1>34. A4 \in Seq(Call) /\ Len(A4) = 27
  BY <1>74, <1>33, <1>24 DEF Join
<1>104. /\ \A m \in Nat : 1 <= m /\ m <= 18 => A4[m] = A3[m]
       /\ \A m \in Nat : 18 < m /\ m <= 27 => A4[m] = S4[m - 18]
  BY <1>74, <1>33, <1>24 DEF Join
<1>65. A5 = A4 \o S5
  OBVIOUS
<1> HIDE DEF A5
<1>75. Join(Call, A4, S5, A5)
  BY <1>65, <1>34, <1>25, Joined
<1>35. A5 \in Seq(Call) /\ Len(A5) = 33
  BY <1>75, <1>34, <1>25 DEF Join
<1>105. /\ \A m \in Nat : 1 <= m /\ m <= 27 => A5[m] = A4[m]
       /\ \A m \in Nat : 27 < m /\ m <= 33 => A5[m] = S5[m - 27]
  BY <1>75, <1>34, <1>25 DEF Join
<1>66. A6 = A5 \o S6
  OBVIOUS
<1> HIDE DEF A6
<1>76. Join(Call, A5, S6, A6)
  BY <1>66, <1>35, <1>26, Joined
<1>36. A6 \in Seq(Call) /\ Len(A6) = 39
  BY <1>76, <1>35, <1>26 DEF Join
<1>106. /\ \A m \in Nat : 1 <= m /\ m <= 33 => A6[m] = A5[m]
       /\ \A m \in Nat : 33 < m /\ m <= 39 => A6[m] = S6[m - 33]
  BY <1>76, <1>35, <1>26 DEF Join
<1>7. SubCalls = A6
  BY DEF SubCalls, A6, A5, A4, A3, A2, A1, A0, S1, S2, S3, S4, S5, S6
<1>40. Len(SubCalls) = 39 /\ SubCalls[1] = Op("init")
  BY <1>7, <1>36, <1>0, <1>101, <1>102, <1>103, <1>104, <1>105, <1>106
<1>41. \A m \in Nat : 1 < m /\ m <= 6 => SubCalls[m] = S1[m - 1]
  BY <1>7, <1>101, <1>102, <1>103, <1>104, <1>105, <1>106
<1>42. \A m \in Nat : 6 < m /\ m <= 11 => SubCalls[m] = S2[m - 6]
  BY <1>7, <1>102, <1>103, <1>104, <1>105, <1>106
<1>43. \A m \in Nat : 11 < m /\ m <= 18 => SubCalls[m] = S3[m - 11]
  BY <1>7, <1>103, <1>104, <1>105, <1>106
<1>44. \A m \in Nat : 18 < m /\ m <= 27 => SubCalls[m] = S4[m - 18]
  BY <1>7, <1>104, <1>105, <1>106
<1>45. \A m \in Nat : 27 < m /\ m <= 33 => SubCalls[m] = S5[m - 27]
  BY <1>7, <1>105, <1>106
<1>46. \A m \in Nat : 33 < m /\ m <= 39 => SubCalls[m] = S6[m - 33]
  BY <1>7, <1>106
<1>51. /\ SubCalls[2] = Enq(0) /\ SubCalls[3] = Enq(0) /\ SubCalls[4] = Op("play") /\ SubCalls[5] = Op("shot")
       /\ SubCalls[6] = Op("stop")
  BY <1>41, <1>11
<1>52. /\ SubCalls[7] = Enq(3) /\ SubCalls[8] = Enq(3) /\ SubCalls[9] = Op("play") /\ SubCalls[10] = Op("shot")
       /\ SubCalls[11] = Op("stop")
  BY <1>42, <1>12
<1>53. /\ SubCalls[12] = Enq(0) /\ SubCalls[13] = Enq(1) /\ SubCalls[14] = Enq(0) /\ SubCalls[15] = Enq(1)
       /\ SubCalls[16] = Op("play") /\ SubCalls[17] = Op("shot") /\ SubCalls[18] = Op("stop")
  BY <1>43, <1>13
<1>54. /\ SubCalls[19] = Enq(3) /\ SubCalls[20] = Enq(4) /\ SubCalls[21] = Enq(5) /\ SubCalls[22] = Enq(3)
       /\ SubCalls[23] = Enq(4) /\ SubCalls[24] = Enq(5) /\ SubCalls[25] = Op("play") /\ SubCalls[26] = Op("shot")
       /\ SubCalls[27] = Op("stop")
  BY <1>44, <1>14
<1>55. /\ SubCalls[28] = Enq(0) /\ SubCalls[29] = Enq(1) /\ SubCalls[30] = Enq(2) /\ SubCalls[31] = Op("play")
       /\ SubCalls[32] = Op("shot") /\ SubCalls[33] = Op("stop")
  BY <1>45, <1>15
<1>56. /\ SubCalls[34] = Enq(Rth) /\ SubCalls[35] = Enq(Rth) /\ SubCalls[36] = Op("play") /\ SubCalls[37] = Op("drums")
       /\ SubCalls[38] = Op("stop") /\ SubCalls[39] = Op("deinit")
  BY <1>46, <1>16
<1> QED
  BY <1>40, <1>51, <1>52, <1>53, <1>54, <1>55, <1>56

(* Where sub() does what.                                                  *)
Firsts == {2, 7, 12, 19, 28, 34}
Others_ == {3, 8, 13, 14, 15, 20, 21, 22, 23, 24, 29, 30, 35}
Plays == {4, 9, 16, 25, 31, 36}
Shots == {5, 10, 17, 26, 32}
Stops == {6, 11, 18, 27, 33, 38}

LEMMA Does ==
  ASSUME NEW n \in Nat, 1 <= n, n <= 39
  PROVE  LET o == SubCalls[n].op IN
         /\ o = "init" => n = 1
         /\ o = "enqueue" => n \in Firsts \cup Others_
         /\ o = "play" => n \in Plays
         /\ o = "shot" => n \in Shots
         /\ o = "drums" => n = 37
         /\ o = "stop" => n \in Stops
         /\ o = "deinit" => n = 39
<1> DEFINE o == SubCalls[n].op
<1>1. n \in {1, 39, 37} \cup Firsts \cup Others_ \cup Plays \cup Shots \cup Stops
  BY DEF Firsts, Others_, Plays, Shots, Stops
<1>2. n \in Firsts \cup Others_ => o = "enqueue"
  BY Calls DEF Firsts, Others_, Enq
<1>3. n \in Plays => o = "play"
  BY Calls DEF Plays, Op
<1>4. n \in Shots => o = "shot"
  BY Calls DEF Shots, Op
<1>5. n \in Stops => o = "stop"
  BY Calls DEF Stops, Op
<1>6. (n = 1 => o = "init") /\ (n = 37 => o = "drums") /\ (n = 39 => o = "deinit")
  BY Calls DEF Op
<1> HIDE DEF o
<1>7. (o = "init" => n = 1) /\ (o = "deinit" => n = 39) /\ (o = "drums" => n = 37)
  BY <1>1, <1>2, <1>3, <1>4, <1>5, <1>6
<1>8. (o = "enqueue" => n \in Firsts \cup Others_) /\ (o = "play" => n \in Plays) /\ (o = "shot" => n \in Shots) /\ (o = "stop" => n \in Stops)
  BY <1>1, <1>2, <1>3, <1>4, <1>5, <1>6
<1> QED
  BY <1>7, <1>8 DEF o

(* The first piece of a section follows something else, the others follow  *)
(* a piece; a queue of the rhythm is filled in the last section only.      *)
LEMMA Pieces ==
  ASSUME NEW n \in Firsts \cup Others_
  PROVE  /\ n \in Firsts <=> SubCalls[n - 1].op # "enqueue"
         /\ SubCalls[n].ch \in SndChannels
         /\ n < 34 => SubCalls[n].ch # Rth
<1>1. n \in Firsts => SubCalls[n - 1].op # "enqueue"
  BY Calls DEF Firsts, Op
<1>2. n \in Others_ => SubCalls[n - 1].op = "enqueue"
  BY Calls DEF Others_, Enq
<1>3. SubCalls[n].ch \in SndChannels /\ (n < 34 => SubCalls[n].ch # Rth)
  BY Calls DEF Firsts, Others_, Enq, SndChannels, Rth
<1> QED
  BY <1>1, <1>2, <1>3 DEF Firsts, Others_

-----------------------------------------------------------------------------
SndTypes ==
  /\ enable \in BOOLEAN
  /\ drv \in [ready : BOOLEAN, state : {"idle", "play", "stop"}, queue : [SndChannels -> Seq(Nat)],
              ovl : [on : BOOLEAN, pieces : Seq(Nat)]]
  /\ irq_ \in [handler : {"none", "bl_bgm_isr"}, on : BOOLEAN, line : BOOLEAN, hblk : BOOLEAN]
  /\ subAt \in Nat /\ 1 <= subAt /\ subAt <= 40 /\ shots \in Nat /\ section \in Nat

(* The library's flag, the driver, and the interrupt: its handler, whether *)
(* it is on, and on the line.                                              *)
Are(flag, ready, handler, on, line) ==
  enable = flag /\ drv.ready = ready /\ (irq_.handler = "bl_bgm_isr") = handler /\ irq_.on = on /\ irq_.line = line

(* What is left of bl_snd_init, and what has been done.                    *)
Starting ==
  \/ Are(FALSE, FALSE, FALSE, FALSE, FALSE) /\ todo = IF irq_.hblk THEN <<"init", "request", "enable", "line", "enabled">>
                                                                   ELSE <<"init", "request", "enable", "enabled">>
  \/ Are(FALSE, TRUE, FALSE, FALSE, FALSE) /\ todo = IF irq_.hblk THEN <<"request", "enable", "line", "enabled">>
                                                                  ELSE <<"request", "enable", "enabled">>
  \/ Are(FALSE, TRUE, TRUE, FALSE, FALSE) /\ todo = IF irq_.hblk THEN <<"enable", "line", "enabled">> ELSE <<"enable", "enabled">>
  \/ Are(FALSE, TRUE, TRUE, TRUE, FALSE) /\ irq_.hblk /\ todo = <<"line", "enabled">>
  \/ Are(FALSE, TRUE, TRUE, TRUE, irq_.hblk) /\ todo = <<"enabled">>

(* What is left of bl_snd_deinit.                                          *)
Ending ==
  \/ Are(TRUE, TRUE, TRUE, TRUE, irq_.hblk) /\ todo = IF irq_.hblk THEN <<"disabled", "noline", "disable", "free", "exit">>
                                                                   ELSE <<"disabled", "disable", "free", "exit">>
  \/ Are(FALSE, TRUE, TRUE, TRUE, TRUE) /\ irq_.hblk /\ todo = <<"noline", "disable", "free", "exit">>
  \/ Are(FALSE, TRUE, TRUE, TRUE, FALSE) /\ todo = <<"disable", "free", "exit">>
  \/ Are(FALSE, TRUE, TRUE, FALSE, FALSE) /\ todo = <<"free", "exit">>
  \/ Are(FALSE, TRUE, FALSE, FALSE, FALSE) /\ todo = <<"exit">>

(* What is left of playing an effect, and what it has found or put.        *)
Overlaying ==
  /\ Are(TRUE, TRUE, TRUE, TRUE, irq_.hblk)
  /\ \/ todo = <<"stop_ovl", "enqueue_ovl", "play_ovl">>
     \/ todo = <<"enqueue_ovl", "play_ovl">> /\ drv.ovl = [on |-> FALSE, pieces |-> <<>>]
     \/ todo = <<"play_ovl">> /\ drv.ovl = [on |-> FALSE, pieces |-> <<shots>>]

Up == 1 < subAt /\ subAt < 40
CallsInv ==
  \/ todo = <<>> /\ Are(Up, Up, Up, Up, Up /\ irq_.hblk) /\ (~Up => drv = Idle)
  \/ subAt = 2 /\ Starting
  \/ subAt = 40 /\ Ending
  \/ subAt \in Shots /\ Overlaying

(* The queues hold the section's pieces, and nothing before its first one; *)
(* the driver plays from the call to play to the call to stop.             *)
QueuesInv ==
  /\ \A ch \in SndChannels : \A k \in DOMAIN drv.queue[ch] : drv.queue[ch][k] = section
  /\ subAt \in Firsts \cup {1, 39, 40} => drv.queue = [ch \in SndChannels |-> <<>>]
  /\ drv.state = "play" => subAt \in Shots \cup Stops \cup {37}
  /\ subAt <= 34 => drv.queue[Rth] = <<>>
  /\ subAt = 35 => Len(drv.queue[Rth]) <= 1
  /\ Len(drv.queue[Rth]) <= DrumRoom
  /\ Len(drv.ovl.pieces) <= 1

SndInv == SndTypes /\ CallsInv /\ QueuesInv

LEMMA SndInitial == SndInit => SndInv
<1> SUFFICES ASSUME SndInit PROVE SndInv
  OBVIOUS
<1>0. /\ irq_ \in [handler : {"none", "bl_bgm_isr"}, on : BOOLEAN, line : BOOLEAN, hblk : BOOLEAN]
      /\ irq_.handler = "none" /\ irq_.on = FALSE /\ irq_.line = FALSE
  BY SndAssumption DEF SndInit
<1>1. SndTypes
  <2>1. drv \in [ready : BOOLEAN, state : {"idle", "play", "stop"}, queue : [SndChannels -> Seq(Nat)],
              ovl : [on : BOOLEAN, pieces : Seq(Nat)]]
    BY DEF SndInit, Idle
  <2>2. enable \in BOOLEAN /\ subAt \in Nat /\ 1 <= subAt /\ subAt <= 40 /\ shots \in Nat /\ section \in Nat
    <3>1. enable = FALSE /\ subAt = 1 /\ shots = 0 /\ section = 0
      BY Zenon DEF SndInit
    <3>2. enable \in BOOLEAN
      BY <3>1, Zenon
    <3> QED
      BY <3>1, <3>2
  <2> QED
    BY <1>0, <2>1, <2>2 DEF SndTypes
<1>2. CallsInv
  <2>1. Up = FALSE /\ todo = <<>> /\ drv = Idle
    BY DEF SndInit, Up
  <2>2. enable = FALSE /\ drv.ready = FALSE
    BY DEF SndInit, Idle
  <2>3. Are(FALSE, FALSE, FALSE, FALSE, FALSE)
    BY <1>0, <2>2 DEF Are
  <2> QED
    BY <2>1, <2>3 DEF CallsInv
<1>3. QueuesInv
  BY SndAssumption DEF SndInit, QueuesInv, Idle, Firsts, Shots, Stops, Rth, SndChannels
<1> QED
  BY <1>1, <1>2, <1>3 DEF SndInv

Steps == {"init", "request", "enable", "line", "enabled", "disabled", "noline", "disable", "free", "exit"}

LEMMA Lists ==
  /\ SndStart = IF enable THEN <<>> ELSE IF irq_.hblk THEN <<"init", "request", "enable", "line", "enabled">>
                                                      ELSE <<"init", "request", "enable", "enabled">>
  /\ SndEnd = IF ~enable THEN <<>> ELSE IF irq_.hblk THEN <<"disabled", "noline", "disable", "free", "exit">>
                                                     ELSE <<"disabled", "disable", "free", "exit">>
<1>1. <<"init", "request", "enable">> \o <<"line">> = <<"init", "request", "enable", "line">>
  <2>1. Join(Steps, <<"init", "request", "enable">>, <<"line">>, <<"init", "request", "enable", "line">>)
    BY DEF Join, Steps
  <2> QED
    BY <2>1, JoinedAlone, Zenon
<1>2. <<"init", "request", "enable", "line">> \o <<"enabled">> = <<"init", "request", "enable", "line", "enabled">>
  <2>1. Join(Steps, <<"init", "request", "enable", "line">>, <<"enabled">>, <<"init", "request", "enable", "line", "enabled">>)
    BY DEF Join, Steps
  <2> QED
    BY <2>1, JoinedAlone, Zenon
<1>3. <<"init", "request", "enable">> \o <<"enabled">> = <<"init", "request", "enable", "enabled">>
  <2>1. Join(Steps, <<"init", "request", "enable">>, <<"enabled">>, <<"init", "request", "enable", "enabled">>)
    BY DEF Join, Steps
  <2> QED
    BY <2>1, JoinedAlone, Zenon
<1>4. <<"disabled">> \o <<"noline">> = <<"disabled", "noline">>
  <2>1. Join(Steps, <<"disabled">>, <<"noline">>, <<"disabled", "noline">>)
    BY DEF Join, Steps
  <2> QED
    BY <2>1, JoinedAlone, Zenon
<1>5. <<"disabled", "noline">> \o <<"disable", "free", "exit">> = <<"disabled", "noline", "disable", "free", "exit">>
  <2>1. Join(Steps, <<"disabled", "noline">>, <<"disable", "free", "exit">>, <<"disabled", "noline", "disable", "free", "exit">>)
    BY DEF Join, Steps
  <2> QED
    BY <2>1, JoinedAlone, Zenon
<1>6. <<"disabled">> \o <<"disable", "free", "exit">> = <<"disabled", "disable", "free", "exit">>
  <2>1. Join(Steps, <<"disabled">>, <<"disable", "free", "exit">>, <<"disabled", "disable", "free", "exit">>)
    BY DEF Join, Steps
  <2> QED
    BY <2>1, JoinedAlone, Zenon
<1>7. <<"init", "request", "enable">> \o <<>> = <<"init", "request", "enable">> /\ <<"disabled">> \o <<>> = <<"disabled">>
  OBVIOUS
<1> QED
  BY <1>1, <1>2, <1>3, <1>4, <1>5, <1>6, <1>7, Zenon DEF SndStart, SndEnd

LEMMA ListsApart ==
  /\ \A x : <<x>> # <<>>
  /\ \A x, sy : <<x, sy>> # <<>>
  /\ \A x, sy, z : <<x, sy, z>> # <<>>
  /\ \A x, sy, z, v : <<x, sy, z, v>> # <<>>
  /\ \A x, sy, z, v, w : <<x, sy, z, v, w>> # <<>>
  OBVIOUS

-----------------------------------------------------------------------------
(* What each step of a call does.                                          *)
LEMMA StepDoes ==
  ASSUME SndTypes, SndStep
  PROVE  LET s == Head(todo) IN
         /\ todo # <<>> /\ todo' = Tail(todo) /\ subAt' = subAt /\ shots' = shots /\ section' = section
         /\ s = "init" => enable' = enable /\ irq_' = irq_ /\ drv' = [Idle EXCEPT !.ready = TRUE]
         /\ s = "request" => enable' = enable /\ irq_' = [irq_ EXCEPT !.handler = "bl_bgm_isr"] /\ drv' = drv
         /\ s = "enable" => enable' = enable /\ irq_' = [irq_ EXCEPT !.on = TRUE] /\ drv' = drv
         /\ s = "line" => enable' = enable /\ irq_' = [irq_ EXCEPT !.line = TRUE] /\ drv' = drv
         /\ s = "enabled" => enable' = TRUE /\ irq_' = irq_ /\ drv' = drv
         /\ s = "disabled" => enable' = FALSE /\ irq_' = irq_ /\ drv' = drv
         /\ s = "noline" => enable' = enable /\ irq_' = [irq_ EXCEPT !.line = FALSE] /\ drv' = drv
         /\ s = "disable" => enable' = enable /\ irq_' = [irq_ EXCEPT !.on = FALSE] /\ drv' = drv
         /\ s = "free" => enable' = enable /\ irq_' = [irq_ EXCEPT !.handler = "none"] /\ drv' = drv
         /\ s = "exit" => enable' = enable /\ irq_' = irq_ /\ drv' = Idle
         /\ s = "stop_ovl" => enable' = enable /\ irq_' = irq_ /\ drv' = [drv EXCEPT !.ovl = [on |-> FALSE, pieces |-> <<>>]]
         /\ s = "enqueue_ovl" => enable' = enable /\ irq_' = irq_ /\ drv' = [drv EXCEPT !.ovl.pieces = Append(@, shots)]
         /\ s = "play_ovl" => enable' = enable /\ irq_' = irq_ /\ drv' = [drv EXCEPT !.ovl.on = TRUE]
<1>1. todo # <<>> /\ todo' = Tail(todo) /\ subAt' = subAt /\ shots' = shots /\ section' = section
  BY Zenon DEF SndStep
<1> DEFINE s == Head(todo)
<1>2. /\ enable' = CASE s = "enabled" -> TRUE [] s = "disabled" -> FALSE [] OTHER -> enable
      /\ irq_' = CASE s = "request" -> [irq_ EXCEPT !.handler = "bl_bgm_isr"]
                   [] s = "enable" -> [irq_ EXCEPT !.on = TRUE]
                   [] s = "line" -> [irq_ EXCEPT !.line = TRUE]
                   [] s = "noline" -> [irq_ EXCEPT !.line = FALSE]
                   [] s = "disable" -> [irq_ EXCEPT !.on = FALSE]
                   [] s = "free" -> [irq_ EXCEPT !.handler = "none"]
                   [] OTHER -> irq_
      /\ drv' = CASE s = "init" -> [Idle EXCEPT !.ready = TRUE]
                  [] s = "exit" -> Idle
                  [] s = "stop_ovl" -> [drv EXCEPT !.ovl = [on |-> FALSE, pieces |-> <<>>]]
                  [] s = "enqueue_ovl" -> [drv EXCEPT !.ovl.pieces = Append(@, shots)]
                  [] s = "play_ovl" -> [drv EXCEPT !.ovl.on = TRUE]
                  [] OTHER -> drv
  BY Zenon DEF SndStep
<1> HIDE DEF s
<1>3. s = "init" => enable' = enable /\ irq_' = irq_ /\ drv' = [Idle EXCEPT !.ready = TRUE]
  BY <1>2
<1>4. s = "request" => enable' = enable /\ irq_' = [irq_ EXCEPT !.handler = "bl_bgm_isr"] /\ drv' = drv
  BY <1>2
<1>5. s = "enable" => enable' = enable /\ irq_' = [irq_ EXCEPT !.on = TRUE] /\ drv' = drv
  BY <1>2
<1>6. s = "line" => enable' = enable /\ irq_' = [irq_ EXCEPT !.line = TRUE] /\ drv' = drv
  BY <1>2
<1>7. s = "enabled" => enable' = TRUE /\ irq_' = irq_ /\ drv' = drv
  BY <1>2
<1>8. s = "disabled" => enable' = FALSE /\ irq_' = irq_ /\ drv' = drv
  BY <1>2
<1>9. s = "noline" => enable' = enable /\ irq_' = [irq_ EXCEPT !.line = FALSE] /\ drv' = drv
  BY <1>2
<1>10. s = "disable" => enable' = enable /\ irq_' = [irq_ EXCEPT !.on = FALSE] /\ drv' = drv
  BY <1>2
<1>11. s = "free" => enable' = enable /\ irq_' = [irq_ EXCEPT !.handler = "none"] /\ drv' = drv
  BY <1>2
<1>12. s = "exit" => enable' = enable /\ irq_' = irq_ /\ drv' = Idle
  BY <1>2
<1>13. s = "stop_ovl" => enable' = enable /\ irq_' = irq_ /\ drv' = [drv EXCEPT !.ovl = [on |-> FALSE, pieces |-> <<>>]]
  BY <1>2
<1>14. s = "enqueue_ovl" => enable' = enable /\ irq_' = irq_ /\ drv' = [drv EXCEPT !.ovl.pieces = Append(@, shots)]
  BY <1>2
<1>15. s = "play_ovl" => enable' = enable /\ irq_' = irq_ /\ drv' = [drv EXCEPT !.ovl.on = TRUE]
  BY <1>2
<1> QED
  BY <1>1, <1>3, <1>4, <1>5, <1>6, <1>7, <1>8, <1>9, <1>10, <1>11, <1>12, <1>13, <1>14, <1>15, Zenon DEF s

LEMMA IdleType ==
  /\ Idle.ready = FALSE /\ Idle.state = "idle" /\ Idle.queue = [ch \in SndChannels |-> <<>>] /\ Idle.ovl.pieces = <<>>
  /\ LET d == [Idle EXCEPT !.ready = TRUE] IN
     d.ready = TRUE /\ d.state = "idle" /\ d.queue = [ch \in SndChannels |-> <<>>] /\ d.ovl.pieces = <<>>
  BY DEF Idle

(* A driver with empty queues.                                             *)
LEMMA QuietQueues ==
  ASSUME SndInv, subAt' = subAt, subAt \in {2, 40}, section' = section,
         drv'.state # "play", drv'.queue = [ch \in SndChannels |-> <<>>], drv'.ovl.pieces = <<>>
  PROVE  QueuesInv'
  BY SndAssumption DEF SndInv, SndTypes, QueuesInv, SndChannels, Rth, Firsts

LEMMA QueuesStay ==
  ASSUME SndInv, subAt' = subAt, section' = section, drv' = drv
  PROVE  QueuesInv'
  BY DEF SndInv, QueuesInv

LEMMA StartKept ==
  ASSUME SndInv, SndStep, subAt = 2, Starting PROVE CallsInv' /\ QueuesInv'
<1> SndTypes
  BY DEF SndInv
<1>0. irq_.hblk \in BOOLEAN /\ subAt' = subAt /\ section' = section /\ todo' = Tail(todo)
  BY StepDoes DEF SndTypes
<1>1. CASE irq_.hblk = TRUE /\ Are(FALSE, FALSE, FALSE, FALSE, FALSE) /\ todo = <<"init", "request", "enable", "line", "enabled">>
  <2>1. Head(todo) = "init" /\ todo' = <<"request", "enable", "line", "enabled">>
    BY <1>0, <1>1
  <2>2. Are(FALSE, TRUE, FALSE, FALSE, FALSE)' /\ irq_'.hblk = TRUE
    BY <2>1, <1>1, StepDoes, IdleType DEF Are, SndTypes
  <2>3. QueuesInv'
    BY <1>0, <2>1, StepDoes, IdleType, QuietQueues
  <2>4. Starting'
    BY <2>1, <2>2, Zenon DEF Starting
  <2> QED
    BY <1>0, <2>3, <2>4 DEF CallsInv
<1>2. CASE irq_.hblk = TRUE /\ Are(FALSE, TRUE, FALSE, FALSE, FALSE) /\ todo = <<"request", "enable", "line", "enabled">>
  <2>1. Head(todo) = "request" /\ todo' = <<"enable", "line", "enabled">>
    BY <1>0, <1>2
  <2>2. Are(FALSE, TRUE, TRUE, FALSE, FALSE)' /\ irq_'.hblk = TRUE
    BY <2>1, <1>2, StepDoes, IdleType DEF Are, SndTypes
  <2>3. QueuesInv'
    BY <1>0, <2>1, StepDoes, QueuesStay
  <2>4. Starting'
    BY <2>1, <2>2, Zenon DEF Starting
  <2> QED
    BY <1>0, <2>3, <2>4 DEF CallsInv
<1>3. CASE irq_.hblk = TRUE /\ Are(FALSE, TRUE, TRUE, FALSE, FALSE) /\ todo = <<"enable", "line", "enabled">>
  <2>1. Head(todo) = "enable" /\ todo' = <<"line", "enabled">>
    BY <1>0, <1>3
  <2>2. Are(FALSE, TRUE, TRUE, TRUE, FALSE)' /\ irq_'.hblk = TRUE
    BY <2>1, <1>3, StepDoes, IdleType DEF Are, SndTypes
  <2>3. QueuesInv'
    BY <1>0, <2>1, StepDoes, QueuesStay
  <2>4. Starting'
    BY <2>1, <2>2, Zenon DEF Starting
  <2> QED
    BY <1>0, <2>3, <2>4 DEF CallsInv
<1>4. CASE irq_.hblk = TRUE /\ Are(FALSE, TRUE, TRUE, TRUE, FALSE) /\ todo = <<"line", "enabled">>
  <2>1. Head(todo) = "line" /\ todo' = <<"enabled">>
    BY <1>0, <1>4
  <2>2. Are(FALSE, TRUE, TRUE, TRUE, TRUE)' /\ irq_'.hblk = TRUE
    BY <2>1, <1>4, StepDoes, IdleType DEF Are, SndTypes
  <2>3. QueuesInv'
    BY <1>0, <2>1, StepDoes, QueuesStay
  <2>4. Starting'
    BY <2>1, <2>2, Zenon DEF Starting
  <2> QED
    BY <1>0, <2>3, <2>4 DEF CallsInv
<1>5. CASE irq_.hblk = TRUE /\ Are(FALSE, TRUE, TRUE, TRUE, TRUE) /\ todo = <<"enabled">>
  <2>1. Head(todo) = "enabled" /\ todo' = <<>>
    BY <1>0, <1>5
  <2>2. Are(TRUE, TRUE, TRUE, TRUE, TRUE)' /\ irq_'.hblk = TRUE
    BY <2>1, <1>5, StepDoes, IdleType DEF Are, SndTypes
  <2>3. QueuesInv'
    BY <1>0, <2>1, StepDoes, QueuesStay
  <2>4. Up' = TRUE
    BY <1>0 DEF Up
  <2> QED
    BY <2>1, <2>2, <2>3, <2>4, Zenon DEF CallsInv
<1>6. CASE irq_.hblk = FALSE /\ Are(FALSE, FALSE, FALSE, FALSE, FALSE) /\ todo = <<"init", "request", "enable", "enabled">>
  <2>1. Head(todo) = "init" /\ todo' = <<"request", "enable", "enabled">>
    BY <1>0, <1>6
  <2>2. Are(FALSE, TRUE, FALSE, FALSE, FALSE)' /\ irq_'.hblk = FALSE
    BY <2>1, <1>6, StepDoes, IdleType DEF Are, SndTypes
  <2>3. QueuesInv'
    BY <1>0, <2>1, StepDoes, IdleType, QuietQueues
  <2>4. Starting'
    BY <2>1, <2>2, Zenon DEF Starting
  <2> QED
    BY <1>0, <2>3, <2>4 DEF CallsInv
<1>7. CASE irq_.hblk = FALSE /\ Are(FALSE, TRUE, FALSE, FALSE, FALSE) /\ todo = <<"request", "enable", "enabled">>
  <2>1. Head(todo) = "request" /\ todo' = <<"enable", "enabled">>
    BY <1>0, <1>7
  <2>2. Are(FALSE, TRUE, TRUE, FALSE, FALSE)' /\ irq_'.hblk = FALSE
    BY <2>1, <1>7, StepDoes, IdleType DEF Are, SndTypes
  <2>3. QueuesInv'
    BY <1>0, <2>1, StepDoes, QueuesStay
  <2>4. Starting'
    BY <2>1, <2>2, Zenon DEF Starting
  <2> QED
    BY <1>0, <2>3, <2>4 DEF CallsInv
<1>8. CASE irq_.hblk = FALSE /\ Are(FALSE, TRUE, TRUE, FALSE, FALSE) /\ todo = <<"enable", "enabled">>
  <2>1. Head(todo) = "enable" /\ todo' = <<"enabled">>
    BY <1>0, <1>8
  <2>2. Are(FALSE, TRUE, TRUE, TRUE, FALSE)' /\ irq_'.hblk = FALSE
    BY <2>1, <1>8, StepDoes, IdleType DEF Are, SndTypes
  <2>3. QueuesInv'
    BY <1>0, <2>1, StepDoes, QueuesStay
  <2>4. Starting'
    BY <2>1, <2>2, Zenon DEF Starting
  <2> QED
    BY <1>0, <2>3, <2>4 DEF CallsInv
<1>9. CASE irq_.hblk = FALSE /\ Are(FALSE, TRUE, TRUE, TRUE, FALSE) /\ todo = <<"enabled">>
  <2>1. Head(todo) = "enabled" /\ todo' = <<>>
    BY <1>0, <1>9
  <2>2. Are(TRUE, TRUE, TRUE, TRUE, FALSE)' /\ irq_'.hblk = FALSE
    BY <2>1, <1>9, StepDoes, IdleType DEF Are, SndTypes
  <2>3. QueuesInv'
    BY <1>0, <2>1, StepDoes, QueuesStay
  <2>4. Up' = TRUE
    BY <1>0 DEF Up
  <2> QED
    BY <2>1, <2>2, <2>3, <2>4, Zenon DEF CallsInv
<1> QED
  BY <1>0, <1>1, <1>2, <1>3, <1>4, <1>5, <1>6, <1>7, <1>8, <1>9, Zenon DEF Starting

LEMMA EndKept ==
  ASSUME SndInv, SndStep, subAt = 40, Ending PROVE CallsInv' /\ QueuesInv'
<1> SndTypes
  BY DEF SndInv
<1>0. irq_.hblk \in BOOLEAN /\ subAt' = subAt /\ section' = section /\ todo' = Tail(todo)
  BY StepDoes DEF SndTypes
<1>1. CASE irq_.hblk = TRUE /\ Are(TRUE, TRUE, TRUE, TRUE, TRUE) /\ todo = <<"disabled", "noline", "disable", "free", "exit">>
  <2>1. Head(todo) = "disabled" /\ todo' = <<"noline", "disable", "free", "exit">>
    BY <1>0, <1>1
  <2>2. Are(FALSE, TRUE, TRUE, TRUE, TRUE)' /\ irq_'.hblk = TRUE
    BY <2>1, <1>1, StepDoes, IdleType DEF Are, SndTypes
  <2>3. QueuesInv'
    BY <1>0, <2>1, StepDoes, QueuesStay
  <2>4. Ending'
    BY <2>1, <2>2, Zenon DEF Ending
  <2> QED
    BY <1>0, <2>3, <2>4 DEF CallsInv
<1>2. CASE irq_.hblk = TRUE /\ Are(FALSE, TRUE, TRUE, TRUE, TRUE) /\ todo = <<"noline", "disable", "free", "exit">>
  <2>1. Head(todo) = "noline" /\ todo' = <<"disable", "free", "exit">>
    BY <1>0, <1>2
  <2>2. Are(FALSE, TRUE, TRUE, TRUE, FALSE)' /\ irq_'.hblk = TRUE
    BY <2>1, <1>2, StepDoes, IdleType DEF Are, SndTypes
  <2>3. QueuesInv'
    BY <1>0, <2>1, StepDoes, QueuesStay
  <2>4. Ending'
    BY <2>1, <2>2, Zenon DEF Ending
  <2> QED
    BY <1>0, <2>3, <2>4 DEF CallsInv
<1>3. CASE irq_.hblk = TRUE /\ Are(FALSE, TRUE, TRUE, TRUE, FALSE) /\ todo = <<"disable", "free", "exit">>
  <2>1. Head(todo) = "disable" /\ todo' = <<"free", "exit">>
    BY <1>0, <1>3
  <2>2. Are(FALSE, TRUE, TRUE, FALSE, FALSE)' /\ irq_'.hblk = TRUE
    BY <2>1, <1>3, StepDoes, IdleType DEF Are, SndTypes
  <2>3. QueuesInv'
    BY <1>0, <2>1, StepDoes, QueuesStay
  <2>4. Ending'
    BY <2>1, <2>2, Zenon DEF Ending
  <2> QED
    BY <1>0, <2>3, <2>4 DEF CallsInv
<1>4. CASE irq_.hblk = TRUE /\ Are(FALSE, TRUE, TRUE, FALSE, FALSE) /\ todo = <<"free", "exit">>
  <2>1. Head(todo) = "free" /\ todo' = <<"exit">>
    BY <1>0, <1>4
  <2>2. Are(FALSE, TRUE, FALSE, FALSE, FALSE)' /\ irq_'.hblk = TRUE
    <3>1. irq_' = [irq_ EXCEPT !.handler = "none"] /\ enable' = enable /\ drv' = drv
      BY <2>1, StepDoes
    <3> QED
      BY <3>1, <1>4 DEF Are, SndTypes
  <2>3. QueuesInv'
    BY <1>0, <2>1, StepDoes, QueuesStay
  <2>4. Ending'
    BY <2>1, <2>2, Zenon DEF Ending
  <2> QED
    BY <1>0, <2>3, <2>4 DEF CallsInv
<1>5. CASE irq_.hblk = TRUE /\ Are(FALSE, TRUE, FALSE, FALSE, FALSE) /\ todo = <<"exit">>
  <2>1. Head(todo) = "exit" /\ todo' = <<>>
    BY <1>0, <1>5
  <2>2. Are(FALSE, FALSE, FALSE, FALSE, FALSE)' /\ irq_'.hblk = TRUE
    BY <2>1, <1>5, StepDoes, IdleType DEF Are, SndTypes
  <2>3. QueuesInv'
    BY <1>0, <2>1, StepDoes, IdleType, QuietQueues
  <2>4. Up' = FALSE /\ drv' = Idle
    BY <1>0, <2>1, StepDoes DEF Up
  <2> QED
    BY <2>1, <2>2, <2>3, <2>4, Zenon DEF CallsInv
<1>6. CASE irq_.hblk = FALSE /\ Are(TRUE, TRUE, TRUE, TRUE, FALSE) /\ todo = <<"disabled", "disable", "free", "exit">>
  <2>1. Head(todo) = "disabled" /\ todo' = <<"disable", "free", "exit">>
    BY <1>0, <1>6
  <2>2. Are(FALSE, TRUE, TRUE, TRUE, FALSE)' /\ irq_'.hblk = FALSE
    BY <2>1, <1>6, StepDoes, IdleType DEF Are, SndTypes
  <2>3. QueuesInv'
    BY <1>0, <2>1, StepDoes, QueuesStay
  <2>4. Ending'
    BY <2>1, <2>2, Zenon DEF Ending
  <2> QED
    BY <1>0, <2>3, <2>4 DEF CallsInv
<1>7. CASE irq_.hblk = FALSE /\ Are(FALSE, TRUE, TRUE, TRUE, FALSE) /\ todo = <<"disable", "free", "exit">>
  <2>1. Head(todo) = "disable" /\ todo' = <<"free", "exit">>
    BY <1>0, <1>7
  <2>2. Are(FALSE, TRUE, TRUE, FALSE, FALSE)' /\ irq_'.hblk = FALSE
    BY <2>1, <1>7, StepDoes, IdleType DEF Are, SndTypes
  <2>3. QueuesInv'
    BY <1>0, <2>1, StepDoes, QueuesStay
  <2>4. Ending'
    BY <2>1, <2>2, Zenon DEF Ending
  <2> QED
    BY <1>0, <2>3, <2>4 DEF CallsInv
<1>8. CASE irq_.hblk = FALSE /\ Are(FALSE, TRUE, TRUE, FALSE, FALSE) /\ todo = <<"free", "exit">>
  <2>1. Head(todo) = "free" /\ todo' = <<"exit">>
    BY <1>0, <1>8
  <2>2. Are(FALSE, TRUE, FALSE, FALSE, FALSE)' /\ irq_'.hblk = FALSE
    <3>1. irq_' = [irq_ EXCEPT !.handler = "none"] /\ enable' = enable /\ drv' = drv
      BY <2>1, StepDoes
    <3> QED
      BY <3>1, <1>8 DEF Are, SndTypes
  <2>3. QueuesInv'
    BY <1>0, <2>1, StepDoes, QueuesStay
  <2>4. Ending'
    BY <2>1, <2>2, Zenon DEF Ending
  <2> QED
    BY <1>0, <2>3, <2>4 DEF CallsInv
<1>9. CASE irq_.hblk = FALSE /\ Are(FALSE, TRUE, FALSE, FALSE, FALSE) /\ todo = <<"exit">>
  <2>1. Head(todo) = "exit" /\ todo' = <<>>
    BY <1>0, <1>9
  <2>2. Are(FALSE, FALSE, FALSE, FALSE, FALSE)' /\ irq_'.hblk = FALSE
    BY <2>1, <1>9, StepDoes, IdleType DEF Are, SndTypes
  <2>3. QueuesInv'
    BY <1>0, <2>1, StepDoes, IdleType, QuietQueues
  <2>4. Up' = FALSE /\ drv' = Idle
    BY <1>0, <2>1, StepDoes DEF Up
  <2> QED
    BY <2>1, <2>2, <2>3, <2>4, Zenon DEF CallsInv
<1> QED
  BY <1>0, <1>1, <1>2, <1>3, <1>4, <1>5, <1>6, <1>7, <1>8, <1>9, Zenon DEF Ending

LEMMA PiecesPut ==
  ASSUME NEW p, NEW q PROVE [[on |-> FALSE, pieces |-> q] EXCEPT !.pieces = p] = [on |-> FALSE, pieces |-> p]
  OBVIOUS

LEMMA OverlayKept ==
  ASSUME SndInv, SndStep, subAt \in Shots, Overlaying PROVE CallsInv' /\ QueuesInv'
<1> SndTypes
  BY DEF SndInv
<1>0. /\ irq_.hblk \in BOOLEAN /\ subAt' = subAt /\ section' = section /\ shots' = shots /\ todo' = Tail(todo)
      /\ Are(TRUE, TRUE, TRUE, TRUE, irq_.hblk)
  BY StepDoes DEF SndTypes, Overlaying
<1>o. drv.ovl \in [on : BOOLEAN, pieces : Seq(Nat)] /\ shots \in Nat
  BY DEF SndTypes
<1>1. CASE todo = <<"stop_ovl", "enqueue_ovl", "play_ovl">>
  <2>1. Head(todo) = "stop_ovl" /\ todo' = <<"enqueue_ovl", "play_ovl">>
    BY <1>0, <1>1
  <2>2. enable' = enable /\ irq_' = irq_ /\ drv' = [drv EXCEPT !.ovl = [on |-> FALSE, pieces |-> <<>>]]
    BY <2>1, StepDoes
  <2>3. drv'.ready = drv.ready /\ drv'.queue = drv.queue /\ drv'.state = drv.state /\ drv'.ovl = [on |-> FALSE, pieces |-> <<>>]
    BY <2>2 DEF SndTypes
  <2>4. Are(TRUE, TRUE, TRUE, TRUE, irq_.hblk)'
    BY <1>0, <2>2, <2>3, Zenon DEF Are
  <2>5. CallsInv'
    BY <1>0, <2>1, <2>3, <2>4, Zenon DEF CallsInv, Overlaying
  <2>6. QueuesInv'
    BY <1>0, <2>3 DEF SndInv, QueuesInv
  <2> QED
    BY <2>5, <2>6
<1>2. CASE todo = <<"enqueue_ovl", "play_ovl">> /\ drv.ovl = [on |-> FALSE, pieces |-> <<>>]
  <2>1. Head(todo) = "enqueue_ovl" /\ todo' = <<"play_ovl">>
    BY <1>0, <1>2
  <2>2. enable' = enable /\ irq_' = irq_ /\ drv' = [drv EXCEPT !.ovl.pieces = Append(@, shots)]
    BY <2>1, StepDoes
  <2>3. drv'.ready = drv.ready /\ drv'.queue = drv.queue /\ drv'.state = drv.state /\ drv'.ovl = [on |-> FALSE, pieces |-> <<shots>>]
    <3>1. Append(<<>>, shots) = <<shots>>
      OBVIOUS
    <3>2. drv.ovl.pieces = <<>> /\ drv.ovl.on = FALSE
      BY <1>2
    <3>3. drv' = [drv EXCEPT !.ovl = [drv.ovl EXCEPT !.pieces = <<shots>>]]
      BY <2>2, <3>1, <3>2
    <3>4. [drv.ovl EXCEPT !.pieces = <<shots>>] = [on |-> FALSE, pieces |-> <<shots>>]
      BY <1>2, PiecesPut, Zenon
    <3> QED
      BY <3>3, <3>4 DEF SndTypes
  <2>4. Are(TRUE, TRUE, TRUE, TRUE, irq_.hblk)'
    BY <1>0, <2>2, <2>3, Zenon DEF Are
  <2>5. CallsInv'
    BY <1>0, <2>1, <2>3, <2>4, Zenon DEF CallsInv, Overlaying
  <2>6. QueuesInv'
    BY <1>0, <2>3 DEF SndInv, QueuesInv
  <2> QED
    BY <2>5, <2>6
<1>3. CASE todo = <<"play_ovl">> /\ drv.ovl = [on |-> FALSE, pieces |-> <<shots>>]
  <2>1. Head(todo) = "play_ovl" /\ todo' = <<>>
    BY <1>0, <1>3
  <2>2. enable' = enable /\ irq_' = irq_ /\ drv' = [drv EXCEPT !.ovl.on = TRUE]
    BY <2>1, StepDoes
  <2>3. drv'.ready = drv.ready /\ drv'.queue = drv.queue /\ drv'.state = drv.state /\ drv'.ovl.pieces = drv.ovl.pieces
    BY <2>2 DEF SndTypes
  <2>4. Are(TRUE, TRUE, TRUE, TRUE, irq_.hblk)'
    BY <1>0, <2>2, <2>3, Zenon DEF Are
  <2>5. Up' = TRUE
    BY <1>0 DEF Up, Shots
  <2>6. CallsInv'
    BY <1>0, <2>1, <2>2, <2>4, <2>5 DEF CallsInv
  <2>7. QueuesInv'
    BY <1>0, <2>3 DEF SndInv, QueuesInv
  <2> QED
    BY <2>6, <2>7
<1> QED
  BY <1>1, <1>2, <1>3, Zenon DEF Overlaying

LEMMA StepKept ==
  ASSUME SndInv, SndStep PROVE CallsInv' /\ QueuesInv'
  BY StartKept, EndKept, OverlayKept, StepDoes, Zenon DEF SndInv, CallsInv

-----------------------------------------------------------------------------
(* Between two calls.                                                      *)
LEMMA Between ==
  ASSUME SndInv, todo = <<>>, 1 < subAt, subAt < 40
  PROVE  Are(TRUE, TRUE, TRUE, TRUE, irq_.hblk) /\ Up = TRUE
<1>1. Up = TRUE
  BY DEF Up
<1>2. Are(Up, Up, Up, Up, Up /\ irq_.hblk)
  BY ListsApart, Zenon DEF SndInv, CallsInv, Starting, Ending, Overlaying
<1>3. irq_.hblk \in BOOLEAN
  BY DEF SndInv, SndTypes
<1> QED
  BY <1>1, <1>2, <1>3, Zenon

LEMMA InSubPlace ==
  ASSUME SndInv, InSub PROVE todo = <<>> /\ 1 <= subAt /\ subAt <= 39 /\ subAt \in Nat
  BY Calls DEF SndInv, SndTypes, InSub

(* Two places of sub() one after the other.                                *)
LEMMA NextPlace ==
  ASSUME NEW n \in Nat
  PROVE  /\ n \in Firsts \cup Others_ => n + 1 \notin Firsts \cup {1, 39, 40} /\ 1 < n /\ n < 39
         /\ n \in Plays => n + 1 \in Shots \cup {37} /\ n + 1 \notin Firsts \cup {1, 39, 40} /\ 1 < n /\ n < 39
         /\ n \in Shots \cup {37} => n + 1 \in Stops /\ n + 1 \notin Firsts \cup {1, 39, 40} /\ 1 < n /\ n < 39
         /\ n \in Stops => 1 < n /\ n < 39
         /\ n \in Firsts \cup Others_ \cup Plays => n \notin Shots \cup Stops \cup {37}
  BY DEF Firsts, Others_, Plays, Shots, Stops

LEMMA SubCallKept ==
  ASSUME SndInv, SubCall PROVE CallsInv' /\ QueuesInv'
<1>0. /\ todo = <<>> /\ subAt' = subAt + 1 /\ enable' = enable /\ drv' = drv /\ irq_' = irq_ /\ section' = section
      /\ 1 <= subAt /\ subAt <= 39 /\ subAt \in Nat /\ shots' = shots
  BY InSubPlace DEF SubCall
<1>h. irq_.hblk \in BOOLEAN
  BY DEF SndInv, SndTypes
<1>1. CASE Now.op = "init"
  <2>1. subAt = 1 /\ todo' = SndStart
    BY <1>0, <1>1, Does DEF SubCall, Now
  <2>2. Up = FALSE
    BY <2>1 DEF Up
  <2>3. Are(FALSE, FALSE, FALSE, FALSE, FALSE) /\ drv = Idle
    BY <1>0, <2>1, <2>2, ListsApart, Zenon DEF SndInv, CallsInv, Starting, Ending, Overlaying
  <2>4. todo' = IF irq_.hblk THEN <<"init", "request", "enable", "line", "enabled">>
                             ELSE <<"init", "request", "enable", "enabled">>
    BY <2>1, <2>3, Lists, Zenon DEF Are
  <2>5. Starting'
    BY <1>0, <2>3, <2>4, Zenon DEF Starting, Are
  <2>6. subAt' = 2
    BY <1>0, <2>1
  <2>7. QueuesInv'
    <3>1. drv' = Idle
      BY <1>0, <2>3
    <3> QED
      BY <2>6, <3>1, SndAssumption DEF QueuesInv, Idle, SndChannels, Rth
  <2> QED
    BY <2>5, <2>6, <2>7 DEF CallsInv
<1>2. CASE Now.op = "deinit"
  <2>1. subAt = 39 /\ todo' = SndEnd
    BY <1>0, <1>2, Does DEF SubCall, Now
  <2>2. Are(TRUE, TRUE, TRUE, TRUE, irq_.hblk)
    <3>1. 1 < subAt /\ subAt < 40
      BY <2>1
    <3> QED
      BY <1>0, <3>1, Between
  <2>4. todo' = IF irq_.hblk THEN <<"disabled", "noline", "disable", "free", "exit">>
                             ELSE <<"disabled", "disable", "free", "exit">>
    BY <2>1, <2>2, Lists, Zenon DEF Are
  <2>5. Ending'
    BY <1>0, <2>2, <2>4, Zenon DEF Ending, Are
  <2>6. subAt' = 40
    BY <1>0, <2>1
  <2>7. QueuesInv'
    BY <1>0, <2>1, <2>6 DEF SndInv, QueuesInv, Shots, Stops
  <2> QED
    BY <2>5, <2>6, <2>7 DEF CallsInv
<1> QED
  BY <1>1, <1>2 DEF SubCall

(* A step between two calls that leaves the library as it is.              *)
LEMMA StaysUp ==
  ASSUME SndInv, todo = <<>>, todo' = <<>>, 1 < subAt, subAt < 40, subAt' \in Nat, 1 < subAt', subAt' < 40,
         enable' = enable, irq_' = irq_, drv'.ready = drv.ready
  PROVE  CallsInv'
<1>1. Are(TRUE, TRUE, TRUE, TRUE, irq_.hblk)
  BY Between
<1>2. Are(TRUE, TRUE, TRUE, TRUE, irq_.hblk)'
  BY <1>1, Zenon DEF Are
<1>3. Up' = TRUE
  BY DEF Up
<1>4. irq_'.hblk \in BOOLEAN
  BY DEF SndInv, SndTypes
<1> QED
  BY <1>2, <1>3, <1>4, Zenon DEF CallsInv

LEMMA SubEnqueueKept ==
  ASSUME SndInv, SubEnqueue PROVE CallsInv' /\ QueuesInv' /\ SndTypes'
<1> DEFINE ch == Now.ch
<1>0. /\ todo = <<>> /\ todo' = <<>> /\ subAt' = subAt + 1 /\ enable' = enable /\ irq_' = irq_ /\ shots' = shots
      /\ 1 <= subAt /\ subAt <= 39 /\ subAt \in Nat /\ Now.op = "enqueue"
      /\ drv' = [drv EXCEPT !.queue[ch] = Append(@, section')]
      /\ section' = IF SubCalls[subAt - 1].op = "enqueue" THEN section ELSE section + 1
  BY InSubPlace DEF SubEnqueue
<1>1. subAt \in Firsts \cup Others_
  BY <1>0, Does DEF Now
<1>2. ch \in SndChannels /\ (subAt < 34 => ch # Rth) /\ (subAt \in Firsts <=> SubCalls[subAt - 1].op # "enqueue")
  BY <1>1, Pieces DEF Now
<1>n. subAt + 1 \notin Firsts \cup {1, 39, 40} /\ 1 < subAt /\ subAt < 39 /\ subAt \notin Shots \cup Stops \cup {37}
  BY <1>0, <1>1, NextPlace
<1>t. drv.queue \in [SndChannels -> Seq(Nat)] /\ section \in Nat /\ section' \in Nat
  BY <1>0 DEF SndInv, SndTypes
<1> HIDE DEF ch
<1>3. /\ drv' = [drv EXCEPT !.queue = [drv.queue EXCEPT ![ch] = Append(drv.queue[ch], section')]]
  BY <1>0
<1>4. /\ drv'.queue = [drv.queue EXCEPT ![ch] = Append(drv.queue[ch], section')]
      /\ drv'.ready = drv.ready /\ drv'.state = drv.state /\ drv'.ovl = drv.ovl
      /\ drv' \in [ready : BOOLEAN, state : {"idle", "play", "stop"}, queue : [SndChannels -> Seq(Nat)],
                   ovl : [on : BOOLEAN, pieces : Seq(Nat)]]
  <2> DEFINE q == [drv.queue EXCEPT ![ch] = Append(drv.queue[ch], section')]
  <2>1. q \in [SndChannels -> Seq(Nat)]
    BY <1>2, <1>t
  <2>2. drv' = [drv EXCEPT !.queue = q]
    BY <1>3
  <2> HIDE DEF q
  <2>3. drv \in [ready : BOOLEAN, state : {"idle", "play", "stop"}, queue : [SndChannels -> Seq(Nat)],
                   ovl : [on : BOOLEAN, pieces : Seq(Nat)]]
    BY DEF SndInv, SndTypes
  <2> QED
    BY <2>1, <2>2, <2>3 DEF q
<1>5. CallsInv'
  <2>1. subAt' \in Nat /\ 1 < subAt' /\ subAt' < 40 /\ subAt < 40
    BY <1>0, <1>n
  <2> QED
    BY <1>0, <1>4, <1>n, <2>1, StaysUp
<1>6. SndTypes'
  <2>1. subAt' \in Nat /\ 1 <= subAt' /\ subAt' <= 40
    BY <1>0, <1>n
  <2>2. enable \in BOOLEAN /\ irq_ \in [handler : {"none", "bl_bgm_isr"}, on : BOOLEAN, line : BOOLEAN, hblk : BOOLEAN]
        /\ shots \in Nat
    BY DEF SndInv, SndTypes
  <2> QED
    BY <1>0, <1>4, <1>t, <2>1, <2>2 DEF SndTypes
<1>7. \A chan \in SndChannels : \A k \in DOMAIN drv.queue[chan] : drv.queue[chan][k] = section'
  <2>1. CASE subAt \in Firsts
    BY <2>1 DEF SndInv, QueuesInv
  <2>2. CASE subAt \notin Firsts
    BY <1>0, <1>2, <2>2 DEF SndInv, QueuesInv
  <2> QED
    BY <2>1, <2>2
<1>8. \A chan \in SndChannels : \A k \in DOMAIN drv'.queue[chan] : drv'.queue[chan][k] = section'
  <2> SUFFICES ASSUME NEW chan \in SndChannels, NEW k \in DOMAIN drv'.queue[chan] PROVE drv'.queue[chan][k] = section'
    OBVIOUS
  <2>1. CASE chan # ch
    BY <1>4, <1>7, <1>t, <2>1
  <2>2. CASE chan = ch
    <3>1. drv'.queue[chan] = Append(drv.queue[chan], section') /\ drv.queue[chan] \in Seq(Nat)
      BY <1>4, <1>t, <2>2
    <3> QED
      BY <1>7, <1>t, <3>1
  <2> QED
    BY <2>1, <2>2
<1>9. /\ subAt' <= 34 => drv'.queue[Rth] = <<>>
      /\ subAt' = 35 => Len(drv'.queue[Rth]) <= 1
      /\ Len(drv'.queue[Rth]) <= DrumRoom
  <2> Rth \in SndChannels
    BY DEF SndChannels
  <2>1. CASE subAt < 34
    <3>1. drv.queue[Rth] = <<>>
      BY <1>0, <2>1 DEF SndInv, QueuesInv
    <3>2. drv'.queue[Rth] = drv.queue[Rth]
      BY <1>2, <1>4, <1>t, <2>1
    <3>3. Len(<<>>) = 0
      OBVIOUS
    <3> QED
      BY <1>0, <3>1, <3>2, <3>3, SndAssumption
  <2>2. CASE subAt = 34
    <3>1. drv.queue[Rth] = <<>> /\ subAt' = 35
      BY <1>0, <2>2 DEF SndInv, QueuesInv
    <3>2. Len(drv'.queue[Rth]) <= 1
      BY <1>4, <1>t, <3>1
    <3>3. Len(drv'.queue[Rth]) \in Nat
      BY <1>4
    <3> QED
      BY <3>1, <3>2, <3>3, SndAssumption
  <2>3. CASE subAt = 35
    <3>1. Len(drv.queue[Rth]) <= 1 /\ subAt' = 36
      BY <1>0, <2>3 DEF SndInv, QueuesInv
    <3>2. Len(drv'.queue[Rth]) <= 2 /\ Len(drv'.queue[Rth]) \in Nat
      BY <1>4, <1>t, <3>1
    <3> QED
      BY <3>1, <3>2, SndAssumption
  <2> QED
    BY <1>1, <2>1, <2>2, <2>3 DEF Firsts, Others_
<1>10. drv'.state # "play" /\ Len(drv'.ovl.pieces) <= 1 /\ subAt' \notin Firsts \cup {1, 39, 40}
  BY <1>0, <1>4, <1>n DEF SndInv, QueuesInv
<1>11. QueuesInv'
  BY <1>8, <1>9, <1>10 DEF QueuesInv
<1> QED
  BY <1>5, <1>6, <1>11

LEMMA SubCommandKept ==
  ASSUME SndInv, SubCommand PROVE CallsInv' /\ QueuesInv' /\ SndTypes'
<1>0. /\ todo = <<>> /\ todo' = <<>> /\ subAt' = subAt + 1 /\ enable' = enable /\ irq_' = irq_ /\ shots' = 0
      /\ 1 <= subAt /\ subAt <= 39 /\ subAt \in Nat /\ Now.op \in {"play", "stop"} /\ section' = section
      /\ drv' = Commanded(Now.op)
  BY InSubPlace DEF SubCommand
<1>1. (Now.op = "play" => subAt \in Plays) /\ (Now.op = "stop" => subAt \in Stops)
  BY <1>0, Does DEF Now
<1>2. subAt' \in Nat /\ 1 < subAt' /\ subAt' < 40 /\ 1 < subAt /\ subAt < 40
  BY <1>0, <1>1, NextPlace
<1>d. drv \in [ready : BOOLEAN, state : {"idle", "play", "stop"}, queue : [SndChannels -> Seq(Nat)],
               ovl : [on : BOOLEAN, pieces : Seq(Nat)]]
  BY DEF SndInv, SndTypes
<1>t. SndTypes' <=> drv' \in [ready : BOOLEAN, state : {"idle", "play", "stop"}, queue : [SndChannels -> Seq(Nat)],
                              ovl : [on : BOOLEAN, pieces : Seq(Nat)]]
  <2>1. enable \in BOOLEAN /\ irq_ \in [handler : {"none", "bl_bgm_isr"}, on : BOOLEAN, line : BOOLEAN, hblk : BOOLEAN]
        /\ section \in Nat
    BY DEF SndInv, SndTypes
  <2>2. 1 <= subAt' /\ subAt' <= 40 /\ 0 \in Nat
    BY <1>2
  <2> QED
    BY <1>0, <1>2, <2>1, <2>2 DEF SndTypes
<1>3. CASE Now.op = "play"
  <2>1. drv' = [drv EXCEPT !.state = "play"]
    BY <1>0, <1>3 DEF Commanded
  <2>2. drv'.queue = drv.queue /\ drv'.ready = drv.ready /\ drv'.ovl = drv.ovl
    BY <1>d, <2>1
  <2>3. CallsInv'
    BY <1>0, <1>2, <2>2, StaysUp
  <2>4. subAt' \in Shots \cup {37} /\ subAt' \notin Firsts \cup {1, 39, 40}
    BY <1>0, <1>1, <1>3, NextPlace
  <2>5. subAt' <= 34 => subAt <= 34
    BY <1>0
  <2>6. subAt' # 35
    BY <1>0, <1>1, <1>3 DEF Plays
  <2>7. QueuesInv'
    BY <1>0, <2>2, <2>4, <2>5, <2>6 DEF SndInv, QueuesInv
  <2>8. SndTypes'
    BY <1>t, <1>d, <2>1
  <2> QED
    BY <2>3, <2>7, <2>8
<1>4. CASE Now.op = "stop"
  <2>1. drv' = [drv EXCEPT !.state = "stop", !.queue = [ch \in SndChannels |-> <<>>]]
    BY <1>0, <1>4 DEF Commanded
  <2>2. drv'.queue = [ch \in SndChannels |-> <<>>] /\ drv'.ready = drv.ready /\ drv'.ovl = drv.ovl /\ drv'.state = "stop"
    BY <1>d, <2>1
  <2>3. CallsInv'
    BY <1>0, <1>2, <2>2, StaysUp
  <2>4. Rth \in SndChannels /\ drv'.queue[Rth] = <<>> /\ Len(<<>>) = 0
    BY <2>2 DEF SndChannels
  <2>7. QueuesInv'
    BY <1>0, <2>2, <2>4, SndAssumption DEF SndInv, QueuesInv
  <2>8. [ch \in SndChannels |-> <<>>] \in [SndChannels -> Seq(Nat)]
    OBVIOUS
  <2>9. SndTypes'
    <3> DEFINE q == [ch \in SndChannels |-> <<>>]
    <3> HIDE DEF q
    <3>1. drv' = [drv EXCEPT !.state = "stop", !.queue = q] /\ q \in [SndChannels -> Seq(Nat)]
      BY <2>1, <2>8 DEF q
    <3> QED
      BY <1>t, <1>d, <3>1
  <2> QED
    BY <2>3, <2>7, <2>9
<1> QED
  BY <1>0, <1>3, <1>4

(* Steps at a place of sub() that leave what the place says.               *)
LEMMA SamePlace ==
  ASSUME SndInv, subAt' = subAt, section' = section, drv' = drv
  PROVE  QueuesInv'
  BY DEF SndInv, QueuesInv

LEMMA ShotKeyKept ==
  ASSUME SndInv, ShotKey PROVE CallsInv' /\ QueuesInv' /\ SndTypes'
<1>0. /\ todo = <<>> /\ todo' = SndOverlay /\ subAt' = subAt /\ enable' = enable /\ irq_' = irq_ /\ shots' = shots + 1
      /\ 1 <= subAt /\ subAt <= 39 /\ subAt \in Nat /\ Now.op = "shot" /\ section' = section /\ drv' = drv
  BY InSubPlace DEF ShotKey
<1>1. subAt \in Shots
  BY <1>0, Does DEF Now
<1>2. 1 < subAt /\ subAt < 40
  BY <1>0, <1>1, NextPlace
<1>3. Are(TRUE, TRUE, TRUE, TRUE, irq_.hblk)
  BY <1>0, <1>2, Between
<1>4. Are(TRUE, TRUE, TRUE, TRUE, irq_.hblk)'
  BY <1>0, <1>3, Zenon DEF Are
<1>5. CallsInv'
  BY <1>0, <1>1, <1>4, Zenon DEF CallsInv, Overlaying, SndOverlay
<1>6. QueuesInv'
  BY <1>0, SamePlace
<1>7. SndTypes'
  BY <1>0 DEF SndInv, SndTypes
<1> QED
  BY <1>5, <1>6, <1>7

LEMMA SubLeavesKept ==
  ASSUME SndInv, SubLeaves PROVE CallsInv' /\ QueuesInv' /\ SndTypes'
<1>0. /\ todo = <<>> /\ todo' = <<>> /\ subAt' = subAt + 1 /\ enable' = enable /\ irq_' = irq_ /\ shots' = shots
      /\ 1 <= subAt /\ subAt <= 39 /\ subAt \in Nat /\ Now.op \in {"shot", "drums"} /\ section' = section /\ drv' = drv
  BY InSubPlace DEF SubLeaves
<1>1. subAt \in Shots \cup {37}
  BY <1>0, Does DEF Now
<1>2. subAt' \in Stops /\ subAt' \notin Firsts \cup {1, 39, 40} /\ 1 < subAt /\ subAt < 39
  BY <1>0, <1>1, NextPlace
<1>3. subAt' \in Nat /\ 1 < subAt' /\ subAt' < 40 /\ subAt < 40
  BY <1>0, <1>2
<1>4. CallsInv'
  BY <1>0, <1>2, <1>3, StaysUp
<1>5. (subAt' <= 34 => subAt <= 34) /\ subAt' # 35
  BY <1>0, <1>1 DEF Shots
<1>6. QueuesInv'
  BY <1>0, <1>2, <1>5 DEF SndInv, QueuesInv
<1>7. SndTypes'
  <2>1. 1 <= subAt' /\ subAt' <= 40
    BY <1>3
  <2> QED
    BY <1>0, <1>3, <2>1 DEF SndInv, SndTypes
<1> QED
  BY <1>4, <1>6, <1>7

LEMMA RefillKept ==
  ASSUME SndInv, Refill PROVE CallsInv' /\ QueuesInv' /\ SndTypes'
<1>0. /\ todo = <<>> /\ todo' = <<>> /\ subAt' = subAt /\ enable' = enable /\ irq_' = irq_ /\ shots' = shots + 1
      /\ 1 <= subAt /\ subAt <= 39 /\ subAt \in Nat /\ Now.op = "drums" /\ section' = section
      /\ drv' = [drv EXCEPT !.queue[Rth] = Append(@, section)] /\ DrumAvail > DrumFree
  BY InSubPlace DEF Refill
<1>1. subAt = 37
  BY <1>0, Does DEF Now
<1>2. drv.queue \in [SndChannels -> Seq(Nat)] /\ section \in Nat /\ Rth \in SndChannels
  BY DEF SndInv, SndTypes, SndChannels
<1> DEFINE q == [drv.queue EXCEPT ![Rth] = Append(drv.queue[Rth], section)]
<1>3. q \in [SndChannels -> Seq(Nat)] /\ drv' = [drv EXCEPT !.queue = q]
  BY <1>0, <1>2
<1>4. \A chan \in SndChannels : \A k \in DOMAIN q[chan] : q[chan][k] = section
  <2> SUFFICES ASSUME NEW chan \in SndChannels, NEW k \in DOMAIN q[chan] PROVE q[chan][k] = section
    OBVIOUS
  <2>1. \A j \in DOMAIN drv.queue[chan] : drv.queue[chan][j] = section
    BY DEF SndInv, QueuesInv
  <2>2. CASE chan # Rth
    BY <1>2, <2>1, <2>2
  <2>3. CASE chan = Rth
    <3>1. q[chan] = Append(drv.queue[chan], section) /\ drv.queue[chan] \in Seq(Nat)
      BY <1>2, <2>3
    <3> HIDE DEF q
    <3> QED
      BY <1>2, <2>1, <3>1
  <2> QED
    BY <2>2, <2>3
<1>5. Len(q[Rth]) <= DrumRoom
  <2>1. Len(q[Rth]) = Len(drv.queue[Rth]) + 1 /\ Len(drv.queue[Rth]) \in Nat
    BY <1>2
  <2>2. DrumRoom - Len(drv.queue[Rth]) > DrumFree
    BY <1>0 DEF DrumAvail
  <2> QED
    BY <2>1, <2>2, SndAssumption
<1> HIDE DEF q
<1>6. /\ drv'.queue = q /\ drv'.ready = drv.ready /\ drv'.ovl = drv.ovl /\ drv'.state = drv.state
      /\ drv' \in [ready : BOOLEAN, state : {"idle", "play", "stop"}, queue : [SndChannels -> Seq(Nat)],
                   ovl : [on : BOOLEAN, pieces : Seq(Nat)]]
  BY <1>3 DEF SndInv, SndTypes
<1>7. CallsInv'
  <2>1. 1 < subAt /\ subAt < 40
    BY <1>1
  <2> QED
    BY <1>0, <1>6, <2>1, StaysUp
<1>8. QueuesInv'
  <2>1. subAt' \notin Firsts \cup {1, 39, 40} /\ subAt' \in {37}
    BY <1>0, <1>1 DEF Firsts
  <2> QED
    BY <1>0, <1>1, <1>4, <1>5, <1>6, <2>1 DEF SndInv, QueuesInv
<1>9. SndTypes'
  <2>1. shots' \in Nat
    BY <1>0 DEF SndInv, SndTypes
  <2> QED
    BY <1>0, <1>6, <2>1 DEF SndInv, SndTypes
<1> QED
  BY <1>7, <1>8, <1>9

(* The driver's interrupt handler.                                         *)
LEMMA IsrKept ==
  ASSUME SndInv, Isr PROVE CallsInv' /\ QueuesInv' /\ SndTypes'
<1> DEFINE some == {ch \in SndChannels : drv.queue[ch] # <<>>}
           rest == [ch \in SndChannels |-> IF ch \in some THEN Tail(drv.queue[ch]) ELSE <<>>]
           ovl == IF drv.ovl.on THEN [on |-> Len(drv.ovl.pieces) > 1, pieces |-> SubSeq(drv.ovl.pieces, 2, Len(drv.ovl.pieces))]
                                ELSE drv.ovl
           state == IF some = {} /\ ~drv.ovl.on THEN "idle" ELSE "play"
<1>0. /\ drv' = [drv EXCEPT !.queue = rest, !.ovl = ovl, !.state = state]
      /\ enable' = enable /\ irq_' = irq_ /\ todo' = todo /\ subAt' = subAt /\ shots' = shots /\ section' = section
      /\ drv.state = "play"
  BY DEF Isr
<1>d. drv \in [ready : BOOLEAN, state : {"idle", "play", "stop"}, queue : [SndChannels -> Seq(Nat)],
               ovl : [on : BOOLEAN, pieces : Seq(Nat)]]
  BY DEF SndInv, SndTypes
<1>1. subAt \in Shots \cup Stops \cup {37} /\ subAt \in Nat
  BY <1>0 DEF SndInv, SndTypes, QueuesInv
<1>2. 1 < subAt /\ subAt < 39 /\ subAt \notin Firsts
  BY <1>1 DEF Shots, Stops, Firsts
<1>3. rest \in [SndChannels -> Seq(Nat)]
  <2> SUFFICES ASSUME NEW ch \in SndChannels PROVE rest[ch] \in Seq(Nat)
    OBVIOUS
  <2>1. drv.queue[ch] \in Seq(Nat)
    BY <1>d
  <2> QED
    BY <2>1
<1>4. ASSUME NEW ch \in SndChannels
      PROVE  /\ Len(rest[ch]) <= Len(drv.queue[ch])
             /\ \A k \in DOMAIN rest[ch] : rest[ch][k] = section
             /\ drv.queue[ch] = <<>> => rest[ch] = <<>>
  <2>1. drv.queue[ch] \in Seq(Nat) /\ \A k \in DOMAIN drv.queue[ch] : drv.queue[ch][k] = section
    BY <1>d DEF SndInv, QueuesInv
  <2>2. CASE drv.queue[ch] # <<>>
    <3>1. rest[ch] = Tail(drv.queue[ch])
      BY <2>2
    <3> HIDE DEF rest
    <3> QED
      BY <2>1, <2>2, <3>1
  <2>3. CASE drv.queue[ch] = <<>>
    <3>1. rest[ch] = <<>>
      BY <2>3
    <3> HIDE DEF rest
    <3> QED
      BY <2>3, <3>1
  <2> QED
    BY <2>2, <2>3
<1>5. ovl \in [on : BOOLEAN, pieces : Seq(Nat)] /\ Len(ovl.pieces) <= 1 /\ (drv.ovl.on = FALSE => ovl = drv.ovl)
  <2> DEFINE o == drv.ovl
  <2>1. o \in [on : BOOLEAN, pieces : Seq(Nat)] /\ Len(o.pieces) <= 1 /\ Len(o.pieces) \in Nat
    BY <1>d DEF SndInv, QueuesInv
  <2> HIDE DEF o
  <2>2. CASE o.on = TRUE
    <3>1. ovl = [on |-> Len(o.pieces) > 1, pieces |-> SubSeq(o.pieces, 2, Len(o.pieces))]
      BY <2>2 DEF o
    <3> HIDE DEF ovl
    <3>2. SubSeq(o.pieces, 2, Len(o.pieces)) \in Seq(Nat) /\ Len(SubSeq(o.pieces, 2, Len(o.pieces))) <= 1
      BY <2>1
    <3>3. (Len(o.pieces) > 1) \in BOOLEAN
      BY <2>1
    <3>4. ovl.pieces = SubSeq(o.pieces, 2, Len(o.pieces))
      BY <3>1
    <3> QED
      BY <2>2, <3>1, <3>2, <3>3, <3>4 DEF o
  <2>3. CASE o.on = FALSE
    <3>1. ovl = o
      BY <2>3, Zenon DEF o
    <3> HIDE DEF ovl
    <3> QED
      BY <2>1, <3>1 DEF o
  <2> QED
    BY <2>1, <2>2, <2>3
<1>6. state \in {"idle", "play", "stop"}
  OBVIOUS
<1> HIDE DEF rest, ovl, state
<1>7. /\ drv'.queue = rest /\ drv'.ready = drv.ready /\ drv'.ovl = ovl /\ drv'.state = state
      /\ drv' \in [ready : BOOLEAN, state : {"idle", "play", "stop"}, queue : [SndChannels -> Seq(Nat)],
                   ovl : [on : BOOLEAN, pieces : Seq(Nat)]]
  BY <1>0, <1>d, <1>3, <1>5, <1>6
<1>8. SndTypes'
  BY <1>0, <1>7 DEF SndInv, SndTypes
<1>9. QueuesInv'
  <2>1. Rth \in SndChannels /\ Len(rest[Rth]) \in Nat /\ Len(drv.queue[Rth]) \in Nat
    BY <1>3, <1>d DEF SndChannels
  <2>2. subAt <= 34 => rest[Rth] = <<>>
    BY <1>4, <2>1 DEF SndInv, QueuesInv
  <2>3. Len(rest[Rth]) <= DrumRoom /\ (subAt = 35 => Len(rest[Rth]) <= 1)
    BY <1>4, <2>1, SndAssumption DEF SndInv, QueuesInv
  <2>4. subAt \notin Firsts \cup {1, 39, 40}
    BY <1>2
  <2> QED
    BY <1>0, <1>1, <1>4, <1>5, <1>7, <2>2, <2>3, <2>4 DEF QueuesInv
<1>10. CallsInv'
  <2>1. \A a1, a2, a3, a4, a5 : Are(a1, a2, a3, a4, a5) => Are(a1, a2, a3, a4, a5)'
    BY <1>0, <1>7, Zenon DEF Are
  <2>2. CASE todo = <<>>
    <3>1. subAt < 40
      BY <1>1, <1>2
    <3> QED
      BY <1>0, <1>1, <1>2, <1>7, <2>2, <3>1, StaysUp
  <2>3. CASE subAt \in Shots /\ Overlaying
    <3>1. irq_.hblk \in BOOLEAN
      BY DEF SndInv, SndTypes
    <3>2. Are(TRUE, TRUE, TRUE, TRUE, irq_.hblk)'
      BY <1>0, <1>7, <2>3, Zenon DEF Overlaying, Are
    <3>3. \A p : drv.ovl = [on |-> FALSE, pieces |-> p] => ovl = drv.ovl
      BY <1>5
    <3>4. Overlaying'
      BY <1>0, <1>7, <2>3, <3>2, <3>3, Zenon DEF Overlaying
    <3> QED
      BY <1>0, <2>3, <3>4 DEF CallsInv
  <2>4. subAt # 2 /\ subAt # 40
    BY <1>2 DEF Firsts
  <2> QED
    BY <2>2, <2>3, <2>4 DEF SndInv, CallsInv
<1> QED
  BY <1>8, <1>9, <1>10

LEMMA SubCallTypes == ASSUME SndInv, SubCall PROVE SndTypes'
  BY InSubPlace DEF SubCall, SndInv, SndTypes

LEMMA StepTypes == ASSUME SndInv, SndStep PROVE SndTypes'
<1>d. /\ drv \in [ready : BOOLEAN, state : {"idle", "play", "stop"}, queue : [SndChannels -> Seq(Nat)],
                  ovl : [on : BOOLEAN, pieces : Seq(Nat)]]
      /\ irq_ \in [handler : {"none", "bl_bgm_isr"}, on : BOOLEAN, line : BOOLEAN, hblk : BOOLEAN]
      /\ enable \in BOOLEAN /\ shots \in Nat
  BY DEF SndInv, SndTypes
<1> DEFINE s == Head(todo)
<1>1. enable' \in BOOLEAN
  <2>1. enable' = CASE s = "enabled" -> TRUE [] s = "disabled" -> FALSE [] OTHER -> enable
    BY Zenon DEF SndStep
  <2> QED
    BY <1>d, <2>1
<1>2. irq_' \in [handler : {"none", "bl_bgm_isr"}, on : BOOLEAN, line : BOOLEAN, hblk : BOOLEAN]
  <2>1. irq_' = CASE s = "request" -> [irq_ EXCEPT !.handler = "bl_bgm_isr"]
                  [] s = "enable" -> [irq_ EXCEPT !.on = TRUE]
                  [] s = "line" -> [irq_ EXCEPT !.line = TRUE]
                  [] s = "noline" -> [irq_ EXCEPT !.line = FALSE]
                  [] s = "disable" -> [irq_ EXCEPT !.on = FALSE]
                  [] s = "free" -> [irq_ EXCEPT !.handler = "none"]
                  [] OTHER -> irq_
    BY Zenon DEF SndStep
  <2> HIDE DEF s
  <2> QED
    BY <1>d, <2>1
<1>3. drv' \in [ready : BOOLEAN, state : {"idle", "play", "stop"}, queue : [SndChannels -> Seq(Nat)],
                ovl : [on : BOOLEAN, pieces : Seq(Nat)]]
  <2> DEFINE D == [ready : BOOLEAN, state : {"idle", "play", "stop"}, queue : [SndChannels -> Seq(Nat)],
                   ovl : [on : BOOLEAN, pieces : Seq(Nat)]]
  <2>1. drv' = CASE s = "init" -> [Idle EXCEPT !.ready = TRUE]
                 [] s = "exit" -> Idle
                 [] s = "stop_ovl" -> [drv EXCEPT !.ovl = [on |-> FALSE, pieces |-> <<>>]]
                 [] s = "enqueue_ovl" -> [drv EXCEPT !.ovl.pieces = Append(@, shots)]
                 [] s = "play_ovl" -> [drv EXCEPT !.ovl.on = TRUE]
                 [] OTHER -> drv
    BY Zenon DEF SndStep
  <2>o. [on |-> FALSE, pieces |-> <<>>] \in [on : BOOLEAN, pieces : Seq(Nat)]
    OBVIOUS
  <2>2. Idle \in D /\ [Idle EXCEPT !.ready = TRUE] \in D
    <3>1. Idle \in D
      BY DEF Idle
    <3> QED
      BY <3>1
  <2>3. [drv EXCEPT !.ovl = [on |-> FALSE, pieces |-> <<>>]] \in D
    <3> DEFINE o == [on |-> FALSE, pieces |-> <<>>]
    <3> HIDE DEF o
    <3>1. [drv EXCEPT !.ovl = o] \in D
      <4>1. o \in [on : BOOLEAN, pieces : Seq(Nat)]
        BY <2>o DEF o
      <4> QED
        BY <1>d, <4>1
    <3> QED
      BY <3>1 DEF o
  <2>4. [drv EXCEPT !.ovl.pieces = Append(@, shots)] \in D
    <3>1. Append(drv.ovl.pieces, shots) \in Seq(Nat)
      BY <1>d
    <3> DEFINE a == Append(drv.ovl.pieces, shots)
    <3> HIDE DEF a
    <3>2. [drv EXCEPT !.ovl.pieces = a] \in D
      BY <1>d, <3>1 DEF a
    <3> QED
      BY <3>2 DEF a
  <2>5. [drv EXCEPT !.ovl.on = TRUE] \in D
    BY <1>d
  <2>6. drv \in D
    BY <1>d
  <2> HIDE DEF s, D
  <2>7. drv' \in D
    BY <2>1, <2>2, <2>3, <2>4, <2>5, <2>6
  <2> QED
    BY <2>7 DEF D
<1>4. subAt' = subAt /\ shots' = shots /\ section' = section
  BY Zenon DEF SndStep
<1>5. subAt \in Nat /\ 1 <= subAt /\ subAt <= 40 /\ section \in Nat
  BY DEF SndInv, SndTypes
<1> QED
  BY <1>d, <1>1, <1>2, <1>3, <1>4, <1>5 DEF SndTypes

LEMMA SndNextKept == SndInv /\ [SndNext]_sndVars => SndInv'
<1> SUFFICES ASSUME SndInv, [SndNext]_sndVars PROVE SndInv'
  OBVIOUS
<1>1. CASE SndStep
  BY <1>1, StepKept, StepTypes DEF SndInv
<1>2. CASE SubCall
  BY <1>2, SubCallKept, SubCallTypes DEF SndInv
<1>3. CASE SubEnqueue
  BY <1>3, SubEnqueueKept DEF SndInv
<1>4. CASE SubCommand
  BY <1>4, SubCommandKept DEF SndInv
<1>5. CASE ShotKey
  BY <1>5, ShotKeyKept DEF SndInv
<1>6. CASE SubLeaves
  BY <1>6, SubLeavesKept DEF SndInv
<1>7. CASE Refill
  BY <1>7, RefillKept DEF SndInv
<1>8. CASE Isr
  BY <1>8, IsrKept DEF SndInv
<1>9. CASE UNCHANGED sndVars
  <2>1. /\ enable' = enable /\ drv' = drv /\ irq_' = irq_ /\ todo' = todo /\ subAt' = subAt /\ shots' = shots
        /\ section' = section
    BY <1>9 DEF sndVars
  <2>2. SndTypes' <=> SndTypes
    BY <2>1, Zenon DEF SndTypes
  <2>3. QueuesInv' <=> QueuesInv
    BY <2>1, Zenon DEF QueuesInv
  <2>4. Up' = Up /\ \A a1, a2, a3, a4, a5 : Are(a1, a2, a3, a4, a5)' <=> Are(a1, a2, a3, a4, a5)
    BY <2>1, Zenon DEF Are, Up
  <2>5. Overlaying' <=> Overlaying
    BY <2>1, Zenon DEF Overlaying, Are
  <2>6. Starting' <=> Starting
    BY <2>1, Zenon DEF Starting, Are
  <2>7. Ending' <=> Ending
    BY <2>1, Zenon DEF Ending, Are
  <2>8. CallsInv' <=> CallsInv
    BY <2>1, <2>5, <2>6, <2>7, Zenon DEF CallsInv, Are, Up
  <2> QED
    BY <2>2, <2>3, <2>8, Zenon DEF SndInv
<1> QED
  BY <1>1, <1>2, <1>3, <1>4, <1>5, <1>6, <1>7, <1>8, <1>9 DEF SndNext

LEMMA SndInvGives == SndInv => SoundExact
<1> SUFFICES ASSUME SndInv PROVE SoundExact
  OBVIOUS
<1>h. irq_.hblk \in BOOLEAN /\ irq_.on \in BOOLEAN /\ irq_.line \in BOOLEAN /\ enable \in BOOLEAN /\ drv.ready \in BOOLEAN
      /\ irq_.handler \in {"none", "bl_bgm_isr"}
  BY DEF SndInv, SndTypes
<1>1. irq_.on => irq_.handler = "bl_bgm_isr" /\ drv.ready
  BY <1>h, Zenon DEF SndInv, CallsInv, Starting, Ending, Overlaying, Are
<1>2. irq_.line => irq_.on
  BY <1>h, Zenon DEF SndInv, CallsInv, Starting, Ending, Overlaying, Are
<1>3. todo = <<>> => Are(Up, Up, Up, Up, Up /\ irq_.hblk) /\ (~Up => drv = Idle)
  BY ListsApart, Zenon DEF SndInv, CallsInv, Starting, Ending, Overlaying
<1>4. todo = <<>> => enable = irq_.on /\ enable = drv.ready
  BY <1>3, Zenon DEF Are
<1>5. drv.state = "play" => \A ch \in SndChannels : \A m \in DOMAIN drv.queue[ch] : drv.queue[ch][m] = section
  BY DEF SndInv, QueuesInv
<1>6. Len(drv.ovl.pieces) <= 1
  BY DEF SndInv, QueuesInv
<1>7. todo = <<"play_ovl">> => drv.ovl.pieces = <<shots>>
  <2> SUFFICES ASSUME todo = <<"play_ovl">> PROVE drv.ovl.pieces = <<shots>>
    OBVIOUS
  <2>1. ~Starting /\ ~Ending /\ todo # <<>>
    BY DEF Starting, Ending
  <2>2. todo # <<"stop_ovl", "enqueue_ovl", "play_ovl">> /\ todo # <<"enqueue_ovl", "play_ovl">>
    OBVIOUS
  <2>3. drv.ovl = [on |-> FALSE, pieces |-> <<shots>>]
    BY <2>1, <2>2, Zenon DEF SndInv, CallsInv, Overlaying
  <2> QED
    BY <2>3
<1>8. DrumAvail >= 0
  <2>1. Len(drv.queue[Rth]) \in Nat
    BY DEF SndInv, SndTypes, SndChannels
  <2> QED
    BY <2>1, SndAssumption DEF SndInv, QueuesInv, DrumAvail
<1>9. subAt > Len(SubCalls) /\ todo = <<>> => ~enable /\ ~irq_.on /\ irq_.handler = "none" /\ drv = Idle
  <2> SUFFICES ASSUME subAt > Len(SubCalls), todo = <<>> PROVE ~enable /\ ~irq_.on /\ irq_.handler = "none" /\ drv = Idle
    OBVIOUS
  <2>1. Up = FALSE
    BY Calls DEF SndInv, SndTypes, Up
  <2>2. Are(FALSE, FALSE, FALSE, FALSE, FALSE) /\ drv = Idle
    BY <1>3, <2>1, Zenon
  <2> QED
    BY <1>h, <2>2, Zenon DEF Are
<1> QED
  BY <1>1, <1>2, <1>4, <1>5, <1>6, <1>7, <1>8, <1>9, Zenon DEF SoundExact

(* SoundExact: the driver's handler runs while the driver is ready, and    *)
(* each section and effect is heard by itself (BLSND.C, SUB.C).            *)
THEOREM SoundTheorem == SndSpec => []SoundExact
  BY SndInitial, SndNextKept, SndInvGives, PTL DEF SndSpec

(***************************************************************************)
(* Segment tables                                                          *)
(***************************************************************************)

(* A table is one or more bytes that fit the reader's, and the count the   *)
(* string begins with is its length modulo 256.                            *)
TableOK ==
  /\ how \in {"resident", "lmem"} /\ table \in Seq(Nat) /\ 1 <= Len(table) /\ Len(table) <= Room
  /\ \A k \in 1..Len(table) : table[k] < 256
  /\ Count(how, table) \in Nat /\ Count(how, table) % 256 = Len(table) % 256

LEMMA TableFacts ==
  ASSUME TableOK
  PROVE  /\ table \in Seq(Nat) /\ Len(table) \in Nat /\ 1 <= Len(table) /\ Len(table) <= Room
         /\ \A k \in Nat : 1 <= k /\ k <= Len(table) => table[k] \in Nat /\ table[k] < 256
<1>1. table \in Seq(Nat) /\ 1 <= Len(table) /\ Len(table) <= Room /\ \A k \in 1..Len(table) : table[k] < 256
  BY Zenon DEF TableOK
<1> QED
  BY <1>1

LEMMA Bytes ==
  /\ Room \in Nat /\ 1 <= Room /\ Room <= 256 /\ MaxCount \in Nat /\ 1 <= MaxCount /\ MaxCount <= Room
  /\ \A x \in SegBytes : x \in Nat /\ x < 256
<1>1. Room \in Nat /\ 1 <= Room /\ Room <= 256
  BY CodecAssumption
<1>2. MaxCount \in Nat /\ 1 <= MaxCount /\ MaxCount <= Room
  BY CodecAssumption, <1>1
<1>3. \A x \in SegBytes : x \in Nat /\ x < 256
  BY CodecAssumption
<1> QED
  BY <1>1, <1>2, <1>3

LEMMA TablesOK ==
  ASSUME how \in {"resident", "lmem"}, table \in Tables(how) PROVE TableOK
<1>1. CASE how = "resident"
  <2>1. PICK n \in {m \in 1..MaxCount : 2 * m + 2 <= MaxCount} : table \in {<<n, 0>> \o t : t \in [1..2 * n -> SegBytes]}
    BY <1>1 DEF Tables
  <2>2. PICK t \in [1..2 * n -> SegBytes] : table = <<n, 0>> \o t
    BY <2>1
  <2>3. n \in Nat /\ 2 * n + 2 <= 256 /\ 2 * n + 2 <= Room
    BY <2>1, Bytes
  <2>4. t \in Seq(Nat) /\ Len(t) = 2 * n /\ \A k \in 1..Len(t) : t[k] < 256
    BY <2>2, <2>3, Bytes
  <2> DEFINE h == <<n, 0>>
  <2>5. h \in Seq(Nat) /\ Len(h) = 2 /\ h[1] = n /\ h[2] = 0
    BY <2>3
  <2> HIDE DEF h
  <2>j. Join(Nat, h, t, table)
    BY <2>2, <2>4, <2>5, Joined DEF h
  <2>i. /\ \A k \in Nat : 1 <= k /\ k <= 2 => table[k] = h[k]
        /\ \A k \in Nat : 2 < k /\ k <= 2 + Len(t) => table[k] = t[k - 2]
    BY <2>j, <2>5 DEF Join
  <2>6. table \in Seq(Nat) /\ Len(table) = 2 * n + 2 /\ table[1] = n
    BY <2>j, <2>3, <2>4, <2>5 DEF Join
  <2>7. \A k \in 1..Len(table) : table[k] < 256
    <3> SUFFICES ASSUME NEW k \in 1..Len(table) PROVE table[k] < 256
      OBVIOUS
    <3>1. CASE k = 1 \/ k = 2
      BY <2>3, <2>5, <2>i, <3>1
    <3>2. CASE k > 2
      <4>1. k - 2 \in 1..Len(t) /\ table[k] = t[k - 2]
        BY <2>3, <2>4, <2>6, <2>i, <3>2
      <4> QED
        BY <2>4, <4>1
    <3> QED
      BY <3>1, <3>2, <2>6
  <2>8. Count(how, table) = (2 * n + 2) % 256
    BY <1>1, <2>3, <2>6 DEF Count
  <2> QED
    BY <1>1, <2>3, <2>6, <2>7, <2>8 DEF TableOK
<1>2. CASE how = "lmem"
  <2>1. PICK n \in 1..MaxCount : table \in [1..n -> SegBytes]
    BY <1>2 DEF Tables
  <2>2. table \in Seq(Nat) /\ Len(table) = n /\ \A k \in 1..Len(table) : table[k] < 256
    BY <2>1, Bytes
  <2>3. Count(how, table) = Len(table)
    BY <1>2 DEF Count
  <2> QED
    BY <1>2, <2>1, <2>2, <2>3, Bytes DEF TableOK
<1> QED
  BY <1>1, <1>2

(* How many bytes the reader counts.                                       *)
ToRead == IF how = "resident" THEN Room ELSE Len(table)

(* What is written and read so far.                                        *)
Written(n) ==
  /\ str \in Seq(Nat) /\ str[2] = (Count(how, table) + 32) % 256
  /\ \A k \in Nat : k < n => /\ str[3 + 2 * k] = (table[k + 1] % 16) + 64
                             /\ str[4 + 2 * k] = (table[k + 1] \div 16) + 64
HasRead(n) == \A k \in 1..Room : got[k] = IF k <= n THEN table[k] ELSE 0

CodecInv ==
  /\ TableOK
  /\ codecAt \in {"put", "saved", "get", "done"}
  /\ i \in Nat /\ b \in Nat /\ got \in [1..Room -> Nat]
  /\ codecAt = "put" =>
       /\ i < Len(table) /\ HasRead(0)
       /\ IF i = 0 THEN b % 256 = Len(table) % 256 ELSE b = Len(table) - i
       /\ Len(str) = 2 + 2 * i /\ Written(i)
  /\ codecAt \in {"saved", "get"} =>
       Len(str) = 3 + 2 * Len(table) /\ Written(Len(table)) /\ str[3 + 2 * Len(table)] = 0
  /\ codecAt = "saved" => HasRead(0)
  /\ codecAt = "get" =>
       /\ i < ToRead /\ i <= Len(table) /\ HasRead(i)
       /\ IF i = 0 THEN b % 256 = ToRead % 256 ELSE b = ToRead - i
  /\ codecAt = "done" => HasRead(Len(table))

(* The byte that DJNZ counts with is what is left.                         *)
LEMMA Counted ==
  ASSUME NEW n \in Nat, 1 <= n, n <= 256, NEW j \in Nat, j < n, NEW d \in Nat,
         IF j = 0 THEN d % 256 = n % 256 ELSE d = n - j
  PROVE  (d + 255) % 256 = n - (j + 1)
<1>1. CASE j = 0
  <2>1. (d + 255) % 256 = ((d % 256) + 255) % 256
    OBVIOUS
  <2>2. ((n % 256) + 255) % 256 = n - 1
    OBVIOUS
  <2> QED
    BY <1>1, <2>1, <2>2
<1>2. CASE j # 0
  BY <1>2
<1> QED
  BY <1>1, <1>2

LEMMA CodecInitial == CodecInit => CodecInv
<1> SUFFICES ASSUME CodecInit PROVE CodecInv
  OBVIOUS
<1>1. TableOK
  BY TablesOK DEF CodecInit
<1>2. i = 0 /\ b = Count(how, table) /\ str = <<42, (Count(how, table) + 32) % 256>> /\ got = [k \in 1..Room |-> 0]
      /\ codecAt = "put"
  BY DEF CodecInit
<1>3. str \in Seq(Nat) /\ Len(str) = 2 /\ str[2] = (Count(how, table) + 32) % 256
  BY <1>1, <1>2 DEF TableOK
<1>4. Written(0)
  BY <1>3 DEF Written
<1>5. HasRead(0) /\ got \in [1..Room -> Nat]
  BY <1>2, Bytes DEF HasRead
<1>6. i \in Nat /\ i < Len(table)
  <2>1. Len(table) \in Nat /\ 1 <= Len(table)
    BY <1>1 DEF TableOK
  <2> QED
    BY <1>2, <2>1
<1>7. b \in Nat /\ b % 256 = Len(table) % 256
  <2>1. Count(how, table) \in Nat /\ Count(how, table) % 256 = Len(table) % 256
    BY <1>1, Zenon DEF TableOK
  <2> QED
    BY <1>2, <2>1
<1> QED
  BY <1>1, <1>2, <1>3, <1>4, <1>5, <1>6, <1>7 DEF CodecInv

LEMMA PutKeeps ==
  ASSUME CodecInv, Put PROVE CodecInv'
<1> DEFINE n == Len(table)
<1>0. /\ codecAt = "put" /\ i' = i + 1 /\ how' = how /\ table' = table /\ got' = got
      /\ b' = (b + 255) % 256 /\ codecAt' = IF b' = 0 THEN "saved" ELSE "put"
  BY DEF Put, Djnz
<1>1. n \in Nat /\ 1 <= n /\ n <= 256 /\ n <= Room /\ i \in Nat /\ i < n /\ b \in Nat /\ HasRead(0)
      /\ (IF i = 0 THEN b % 256 = n % 256 ELSE b = n - i)
  BY <1>0, Bytes DEF CodecInv, TableOK
<1>2. b' = n - (i + 1)
  BY <1>0, <1>1, Counted
<1>3. Len(str) = 2 + 2 * i /\ Written(i) /\ str \in Seq(Nat) /\ str[2] = (Count(how, table) + 32) % 256
  BY <1>0 DEF CodecInv, Written
<1>4. table[i + 1] \in Nat /\ table[i + 1] < 256
  <2>1. TableOK
    BY DEF CodecInv
  <2>2. i + 1 \in Nat /\ 1 <= i + 1 /\ i + 1 <= Len(table)
    BY <1>1
  <2> QED
    BY <2>1, <2>2, TableFacts
<1> DEFINE d == Chars(table[i + 1])
           z == IF b' = 0 THEN <<0>> ELSE <<>>
<1>5. str' = (str \o d) \o z
  BY <1>1 DEF Put
<1>6. d \in Seq(Nat) /\ Len(d) = 2 /\ d[1] = (table[i + 1] % 16) + 64 /\ d[2] = (table[i + 1] \div 16) + 64
  BY <1>4 DEF Chars
<1>7. z \in Seq(Nat) /\ Len(z) = (IF b' = 0 THEN 1 ELSE 0) /\ (b' = 0 => z[1] = 0)
  OBVIOUS
<1> HIDE DEF d, z
<1> DEFINE s == str \o d
<1>8. Join(Nat, str, d, s)
  BY <1>3, <1>6, Joined
<1>9. str' = s \o z
  BY <1>5
<1> HIDE DEF s
<1>10. s \in Seq(Nat) /\ Len(s) = 4 + 2 * i
  BY <1>1, <1>3, <1>6, <1>8 DEF Join
<1>11. Join(Nat, s, z, str')
  BY <1>7, <1>9, <1>10, Joined
<1>12. \A k \in Nat : 1 <= k /\ k <= 2 + 2 * i => str'[k] = str[k]
  <2> SUFFICES ASSUME NEW k \in Nat, 1 <= k, k <= 2 + 2 * i PROVE str'[k] = str[k]
    OBVIOUS
  <2>1. s[k] = str[k]
    BY <1>3, <1>8 DEF Join
  <2>2. k <= 4 + 2 * i
    BY <1>1
  <2>3. str'[k] = s[k]
    BY <1>10, <1>11, <2>2 DEF Join
  <2> QED
    BY <2>1, <2>3
<1>13. \A k \in Nat : 2 + 2 * i < k /\ k <= 4 + 2 * i => str'[k] = d[k - (2 + 2 * i)]
  <2> SUFFICES ASSUME NEW k \in Nat, 2 + 2 * i < k, k <= 4 + 2 * i PROVE str'[k] = d[k - (2 + 2 * i)]
    OBVIOUS
  <2>1. s[k] = d[k - Len(str)]
    <3>1. Len(str) < k /\ k <= Len(str) + Len(d)
      BY <1>1, <1>3, <1>6
    <3> QED
      BY <1>8, <3>1 DEF Join
  <2>2. str'[k] = s[k]
    <3>1. 1 <= k /\ k <= Len(s)
      BY <1>1, <1>10
    <3> QED
      BY <1>11, <3>1 DEF Join
  <2> QED
    BY <1>3, <2>1, <2>2
<1>14. str' \in Seq(Nat) /\ Len(str') = 4 + 2 * i + (IF b' = 0 THEN 1 ELSE 0)
  BY <1>1, <1>7, <1>10, <1>11 DEF Join
<1>15. b' = 0 => str'[5 + 2 * i] = 0
  <2> SUFFICES ASSUME b' = 0 PROVE str'[5 + 2 * i] = 0
    OBVIOUS
  <2>1. Len(s) < 5 + 2 * i /\ 5 + 2 * i <= Len(s) + Len(z) /\ (5 + 2 * i) - Len(s) = 1 /\ 5 + 2 * i \in Nat
    BY <1>1, <1>7, <1>10
  <2>2. str'[5 + 2 * i] = z[(5 + 2 * i) - Len(s)]
    BY <1>11, <2>1 DEF Join
  <2> QED
    BY <1>7, <2>1, <2>2
<1>16. str'[2] = (Count(how, table) + 32) % 256
  BY <1>1, <1>3, <1>12
<1>17. \A k \in Nat : k < i + 1 => /\ str'[3 + 2 * k] = (table[k + 1] % 16) + 64
                                   /\ str'[4 + 2 * k] = (table[k + 1] \div 16) + 64
  <2> SUFFICES ASSUME NEW k \in Nat, k < i + 1
               PROVE  /\ str'[3 + 2 * k] = (table[k + 1] % 16) + 64
                      /\ str'[4 + 2 * k] = (table[k + 1] \div 16) + 64
    OBVIOUS
  <2>0. 3 + 2 * k \in Nat /\ 4 + 2 * k \in Nat
    OBVIOUS
  <2>1. CASE k < i
    <3>1. 3 + 2 * k <= 2 + 2 * i /\ 4 + 2 * k <= 2 + 2 * i
      BY <1>1, <2>1
    <3>2. str'[3 + 2 * k] = str[3 + 2 * k] /\ str'[4 + 2 * k] = str[4 + 2 * k]
      BY <1>12, <2>0, <3>1
    <3>3. str[3 + 2 * k] = (table[k + 1] % 16) + 64 /\ str[4 + 2 * k] = (table[k + 1] \div 16) + 64
      BY <1>3, <2>1 DEF Written
    <3> QED
      BY <3>2, <3>3
  <2>2. CASE k = i
    <3>1. /\ (3 + 2 * i) - (2 + 2 * i) = 1 /\ (4 + 2 * i) - (2 + 2 * i) = 2
          /\ 2 + 2 * i < 3 + 2 * i /\ 3 + 2 * i <= 4 + 2 * i /\ 2 + 2 * i < 4 + 2 * i /\ 4 + 2 * i <= 4 + 2 * i
      BY <1>1
    <3>2. str'[3 + 2 * i] = d[(3 + 2 * i) - (2 + 2 * i)] /\ str'[4 + 2 * i] = d[(4 + 2 * i) - (2 + 2 * i)]
      BY <1>13, <2>0, <2>2, <3>1
    <3>3. str'[3 + 2 * i] = d[1] /\ str'[4 + 2 * i] = d[2]
      BY <3>1, <3>2
    <3> QED
      BY <1>6, <2>2, <3>3
  <2> QED
    BY <1>1, <2>1, <2>2
<1>18. TableOK'
  BY <1>0 DEF CodecInv, TableOK
<1>19. HasRead(0)' /\ got' \in [1..Room -> Nat]
  BY <1>0, <1>1 DEF HasRead, CodecInv
<1>20. \A m : m = i + 1 => Written(m)'
  BY <1>0, <1>14, <1>16, <1>17 DEF Written
<1>21. CASE b' = 0
  <2>1. i + 1 = n /\ codecAt' = "saved" /\ Len(table') = n
    BY <1>0, <1>1, <1>2, <1>21
  <2>2. Written(n)' /\ Len(str') = 3 + 2 * n /\ str'[3 + 2 * n] = 0
    <3>1. 4 + 2 * i + 1 = 3 + 2 * n /\ 5 + 2 * i = 3 + 2 * n
      BY <1>1, <2>1
    <3> QED
      BY <1>14, <1>15, <1>20, <1>21, <2>1, <3>1
  <2>3. i' \in Nat /\ b' \in Nat
    BY <1>0, <1>1, <1>21
  <2>4. Written(Len(table))' /\ Len(str') = 3 + 2 * Len(table') /\ str'[3 + 2 * Len(table')] = 0
    BY <1>0, <2>2
  <2> HIDE DEF n
  <2> QED
    BY <1>0, <1>18, <1>19, <2>1, <2>3, <2>4 DEF CodecInv
<1>22. CASE b' # 0
  <2>1. i' < n /\ codecAt' = "put" /\ i' \in Nat /\ b' \in Nat /\ i' # 0 /\ b' = n - i'
    BY <1>0, <1>1, <1>2, <1>22
  <2>2. Len(str') = 2 + 2 * i' /\ Written(i)'
    <3>1. Len(str') = 4 + 2 * i
      BY <1>1, <1>14, <1>22
    <3> QED
      BY <1>0, <1>1, <1>20, <3>1
  <2>3. i' < Len(table') /\ b' = Len(table') - i'
    BY <1>0, <2>1
  <2> HIDE DEF n
  <2> QED
    BY <1>0, <1>18, <1>19, <2>1, <2>2, <2>3 DEF CodecInv
<1> QED
  BY <1>21, <1>22

LEMMA GetBeginKeeps ==
  ASSUME CodecInv, GetBegin PROVE CodecInv'
<1>0. /\ codecAt = "saved" /\ i' = 0 /\ how' = how /\ table' = table /\ got' = got /\ str' = str
      /\ b' = (IF how = "resident" THEN Room % 256 ELSE (str[2] + 256 - 32) % 256) /\ codecAt' = "get"
  BY DEF GetBegin
<1>1. TableOK' /\ TableOK
  BY <1>0 DEF CodecInv, TableOK
<1>2. ToRead \in Nat /\ 0 < ToRead /\ ToRead' = ToRead
  BY <1>0, <1>1, Bytes, TableFacts DEF ToRead
<1>3. b' \in Nat /\ b' % 256 = ToRead % 256
  <2>1. CASE how = "resident"
    BY <1>0, <2>1, Bytes DEF ToRead
  <2>2. CASE how # "resident"
    <3> DEFINE m == Count(how, table)
    <3>1. m \in Nat /\ m % 256 = Len(table) % 256 /\ Len(table) \in Nat
      BY <1>1, Zenon, LenProperties DEF TableOK
    <3>2. str[2] = (m + 32) % 256
      BY <1>0 DEF CodecInv, Written
    <3> HIDE DEF m
    <3>3. (((m + 32) % 256) + 256 - 32) % 256 = m % 256
      BY <3>1
    <3>4. b' = m % 256
      BY <1>0, <2>2, <3>2, <3>3
    <3> QED
      BY <2>2, <3>1, <3>4 DEF ToRead
  <2> QED
    BY <2>1, <2>2
<1>4. Len(table) \in Nat /\ 0 <= Len(table)
  BY <1>1, TableFacts
<1>5. /\ HasRead(0)' /\ HasRead(0) /\ got' \in [1..Room -> Nat]
      /\ Len(str) = 3 + 2 * Len(table) /\ Written(Len(table)) /\ str[3 + 2 * Len(table)] = 0
  BY <1>0 DEF CodecInv, HasRead
<1>6. Len(str') = 3 + 2 * Len(table') /\ Written(Len(table))' /\ str'[3 + 2 * Len(table')] = 0
  BY <1>0, <1>5 DEF Written
<1>7. HasRead(i)'
  BY <1>0, <1>5 DEF HasRead
<1> QED
  BY <1>0, <1>1, <1>2, <1>3, <1>4, <1>5, <1>6, <1>7 DEF CodecInv

LEMMA GetKeeps ==
  ASSUME CodecInv, Get PROVE CodecInv'
<1> DEFINE n == Len(table)
           lo == str[3 + 2 * i]
           hi == str[4 + 2 * i]
<1>0. codecAt = "get" /\ how' = how /\ table' = table /\ str' = str
  BY DEF Get
<1>1. TableOK' /\ TableOK /\ ToRead' = ToRead
  BY <1>0 DEF CodecInv, TableOK, ToRead
<1>2. /\ n \in Nat /\ 1 <= n /\ n <= Room /\ Room \in Nat /\ Room <= 256
      /\ ToRead \in Nat /\ n <= ToRead /\ ToRead <= Room
  BY <1>1, Bytes DEF TableOK, ToRead
<1>3. /\ i \in Nat /\ b \in Nat /\ got \in [1..Room -> Nat] /\ i < ToRead /\ i <= n /\ HasRead(i)
      /\ (IF i = 0 THEN b % 256 = ToRead % 256 ELSE b = ToRead - i)
      /\ Written(n) /\ Len(str) = 3 + 2 * n /\ str[3 + 2 * n] = 0
  BY <1>0 DEF CodecInv
<1>4. Written(n)' /\ Len(str') = 3 + 2 * Len(table') /\ str'[3 + 2 * Len(table')] = 0
  BY <1>0, <1>3 DEF Written
<1>5. CASE lo = 0
  <2>1. codecAt' = "done" /\ got' = got /\ b' = b /\ i' = i
    BY <1>5 DEF Get
  <2>2. i = n
    <3> SUFFICES ASSUME i < n PROVE FALSE
      BY <1>2, <1>3
    <3>1. lo = (table[i + 1] % 16) + 64
      BY <1>3 DEF Written
    <3>2. i + 1 \in Nat /\ 1 <= i + 1 /\ i + 1 <= n
      BY <1>2, <1>3
    <3>3. table[i + 1] \in Nat
      BY <1>1, <3>2, TableFacts
    <3> HIDE DEF lo
    <3> QED
      BY <1>5, <3>1, <3>3
  <2>3. HasRead(Len(table))'
    BY <1>0, <1>3, <2>1, <2>2 DEF HasRead
  <2> QED
    BY <1>0, <1>1, <1>3, <2>1, <2>3 DEF CodecInv
<1>6. CASE lo # 0
  <2>1. /\ got' = [got EXCEPT ![i + 1] = (lo % 16) + (hi % 16) * 16]
        /\ b' = (b + 255) % 256 /\ codecAt' = (IF b' = 0 THEN "done" ELSE "get") /\ i' = i + 1
    BY <1>6 DEF Get, Djnz
  <2>2. i < n
    <3>1. i # n
      BY <1>3, <1>6
    <3> HIDE DEF n
    <3> QED
      BY <1>2, <1>3, <3>1
  <2>3. lo = (table[i + 1] % 16) + 64 /\ hi = (table[i + 1] \div 16) + 64
    BY <1>3, <2>2 DEF Written
  <2>4. i + 1 \in Nat /\ 1 <= i + 1 /\ i + 1 <= n /\ i + 1 \in 1..Room
    BY <1>2, <1>3, <2>2
  <2>5. table[i + 1] \in Nat /\ table[i + 1] < 256
    BY <1>1, <2>4, TableFacts
  <2> HIDE DEF lo, hi
  <2>6. (lo % 16) + (hi % 16) * 16 = table[i + 1]
    <3> DEFINE t == table[i + 1]
    <3> HIDE DEF t
    <3>1. t \in Nat /\ t < 256 /\ lo = (t % 16) + 64 /\ hi = (t \div 16) + 64
      BY <2>3, <2>5 DEF t
    <3>2. lo % 16 = t % 16 /\ hi % 16 = t \div 16 /\ t = (t % 16) + (t \div 16) * 16
      BY <3>1
    <3> QED
      BY <3>2 DEF t
  <2>7. got' = [got EXCEPT ![i + 1] = table[i + 1]]
    BY <2>1, <2>6
  <2>8. got' \in [1..Room -> Nat] /\ \A m : m = i + 1 => HasRead(m)'
    <3>1. got' \in [1..Room -> Nat]
      BY <1>3, <2>4, <2>5, <2>7
    <3>2. ASSUME NEW k \in 1..Room PROVE got'[k] = IF k <= i + 1 THEN table[k] ELSE 0
      <4>1. CASE k = i + 1
        BY <1>3, <2>4, <2>7, <4>1
      <4>2. CASE k # i + 1
        <5>1. got'[k] = got[k] /\ got[k] = IF k <= i THEN table[k] ELSE 0
          BY <1>3, <2>7, <4>2 DEF HasRead
        <5>2. k <= i + 1 <=> k <= i
          BY <1>3, <4>2, Bytes
        <5> QED
          BY <5>1, <5>2
      <4> QED
        BY <4>1, <4>2
    <3> QED
      BY <1>0, <3>1, <3>2 DEF HasRead
  <2>9. b' = ToRead - (i + 1)
    <3>1. (b + 255) % 256 = ToRead - (i + 1)
      <4> DEFINE r == ToRead
      <4>1. r \in Nat /\ 1 <= r /\ r <= 256 /\ i < r /\ (IF i = 0 THEN b % 256 = r % 256 ELSE b = r - i)
        BY <1>2, <1>3
      <4> HIDE DEF r
      <4>2. (b + 255) % 256 = r - (i + 1)
        BY <1>3, <4>1, Counted
      <4> QED
        BY <4>2 DEF r
    <3> QED
      BY <2>1, <3>1
  <2>10. i' \in Nat /\ b' \in Nat
    BY <1>2, <1>3, <2>1, <2>9
  <2>11. CASE b' = 0
    <3>1. i + 1 = n /\ codecAt' = "done"
      BY <1>2, <1>3, <2>1, <2>2, <2>9, <2>11
    <3>2. HasRead(Len(table))'
      BY <1>0, <2>8, <3>1 DEF HasRead
    <3> QED
      BY <1>0, <1>1, <2>8, <2>10, <3>1, <3>2 DEF CodecInv
  <2>12. CASE b' # 0
    <3>1. codecAt' = "get" /\ i' < ToRead /\ i' <= n /\ i' # 0 /\ b' = ToRead - i'
      BY <1>2, <1>3, <2>1, <2>2, <2>9, <2>10, <2>12
    <3>2. HasRead(i)'
      BY <2>1, <2>8 DEF HasRead
    <3>3. i' <= Len(table') /\ Written(Len(table))' /\ i' < ToRead' /\ b' = ToRead' - i'
      BY <1>0, <1>1, <1>4, <3>1
    <3> HIDE DEF n
    <3> QED
      BY <1>1, <1>4, <2>8, <2>10, <3>1, <3>2, <3>3 DEF CodecInv
  <2> QED
    BY <2>11, <2>12
<1> QED
  BY <1>5, <1>6

(* RoundTrip: the table read back from the environment string is the one   *)
(* saved (put_seg_table, get_seg_table, bl_lmem_export, bl_lmem_import).   *)
THEOREM RoundTripTheorem == CodecSpec => []RoundTrip
<1>1. CodecInv /\ [CodecNext]_codecVars => CodecInv'
  <2> SUFFICES ASSUME CodecInv, [CodecNext]_codecVars PROVE CodecInv'
    OBVIOUS
  <2>1. CASE UNCHANGED codecVars
    <3>1. how' = how /\ table' = table /\ i' = i /\ b' = b /\ str' = str /\ got' = got /\ codecAt' = codecAt
      BY <2>1 DEF codecVars
    <3>2. TableOK' = TableOK /\ ToRead' = ToRead
      BY <3>1, Zenon DEF TableOK, ToRead
    <3>3. \A n : Written(n)' = Written(n) /\ HasRead(n)' = HasRead(n)
      BY <3>1, Zenon DEF Written, HasRead
    <3> QED
      BY <3>1, <3>2, <3>3, Zenon DEF CodecInv
  <2> QED
    BY <2>1, PutKeeps, GetBeginKeeps, GetKeeps DEF CodecNext
<1>2. CodecInv => RoundTrip
  BY DEF CodecInv, RoundTrip, HasRead
<1> QED
  BY CodecInitial, <1>1, <1>2, PTL DEF CodecSpec

(***************************************************************************)
(* Sprites and palettes                                                    *)
(***************************************************************************)

(* What the calls leave of bl_grp's fields, the registers and the history. *)
Wish == [line : Nat, x : Nat, no : Nat, colour : Nat, scroll : 0..255] \cup {NoSprite}
Magnified == BOOLEAN
Kinds == {"none", "mute", "amber", "green", "redblue", "white"}

SprTypes ==
  /\ g \in [mode : SprModes, scroll : 0..255, big : Magnified, table : SprTables, attr : Nat, gen : Nat]
  /\ g.attr = TableSpriteAttr(g.mode, g.table) /\ g.gen = TableSpriteGen(g.mode, 0)
  /\ regs \in [r5 : Nat, r6 : Nat, r11 : Nat]
  /\ put \in [SprTables -> [Layers -> Wish]]
  /\ pal \in [own : [Entries -> Nat], hw : [Entries -> Nat]]
  /\ effect \in [kind : Kinds, since : SUBSET Entries]

(* The registers for table p of a mode.                                    *)
Reg5(m, p) == (AttrFix(m, TableSpriteAttr(m, p)) \div 128) % 256
Reg11(m, p) == (TableSpriteAttr(m, p) \div 32768) % 2
Reg6(m) == (TableSpriteGen(m, 0) \div 2048) % 32

(* The registers show table p.                                             *)
Views(p) == regs.r5 = Reg5(g.mode, p) /\ regs.r11 = Reg11(g.mode, p)

ViewInv ==
  /\ \E p \in SprTables : Views(p)
  /\ regs.r6 = Reg6(g.mode)

AttrAt(p, l) == TableSpriteAttr(g.mode, p) + 4 * l
ColourAt(p, l) == TableSpriteAttr(g.mode, p) - 512 + 16 * l
PatternAt == TableSpriteGen(g.mode, 0) + 64

(* v is the sprite wanted.                                                 *)
Stands(v, want) ==
  /\ v.kind = "sprite"
  /\ v.x = want.x /\ v.no = want.no % 256 /\ v.c = want.colour
  /\ (v.y + 1 + 512 - want.scroll - want.line) % 256 \in {0, 1}
  /\ Mode2(g.mode) => v.y # 216

SpriteInv == \A p \in SprTables, l \in Layers :
  put[p][l] # NoSprite => AttrAt(p, l) \in DOMAIN vmem /\ Stands(vmem[AttrAt(p, l)], put[p][l])
ColourInv == \A p \in SprTables, l \in Layers :
  <<p, l>> \in made => Mode2(g.mode) /\ ColourAt(p, l) \in DOMAIN vmem /\ vmem[ColourAt(p, l)] = Tint
PatternMade == <<0>> \in made
PatternInv == PatternMade => PatternAt \in DOMAIN vmem /\ vmem[PatternAt] = Pattern

Digits(v) == \E r, gr, bl \in 0..7 : v = gr * 256 + r * 16 + bl
EntryOK(n) ==
  /\ Digits(pal.own[n])
  /\ Effected(IF n \in effect.since THEN "none" ELSE effect.kind, pal.own[n], pal.hw[n])
PaletteInv == \A n \in Entries : EntryOK(n)

SprInv == SprTypes /\ ViewInv /\ SpriteInv /\ ColourInv /\ PatternInv /\ PaletteInv

(***************************************************************************)
(* Addresses                                                               *)
(***************************************************************************)
LEMMA Modes_ ==
  /\ \A m \in SprModes : m = 3 \/ m = 6 \/ m = 9
  /\ \A p \in SprTables : p = 0 \/ p = 1 \/ p = 2
  /\ \A l \in Layers : l \in Nat /\ l < 32
  /\ \A sy \in SprLines : sy \in Nat /\ sy < 212
  /\ \A sy \in SprYs : sy \in Nat /\ sy < 256
  /\ \A sy \in SprScrolls : sy \in Nat /\ sy < 256
  /\ 0 \in SprTables
<1>1. \A m \in SprModes : m = 3 \/ m = 6 \/ m = 9
  BY SpriteAssumption
<1>2. \A p \in SprTables : p = 0 \/ p = 1 \/ p = 2
  <2>1. \A p \in 0..2 : p = 0 \/ p = 1 \/ p = 2
    OBVIOUS
  <2> QED
    BY <2>1, SpriteAssumption, Zenon
<1>3. \A l \in Layers : l \in 0..31
  BY SpriteAssumption, Zenon
<1>4. \A sy \in SprLines : sy \in 0..211
  BY SpriteAssumption, Zenon
<1>5. (\A sy \in SprYs : sy \in 0..255) /\ (\A sy \in SprScrolls : sy \in 0..255)
  BY SpriteAssumption, Zenon
<1>6. 0 \in SprTables
  BY SpriteAssumption, Zenon
<1> QED
  BY <1>1, <1>2, <1>3, <1>4, <1>5, <1>6

LEMMA Attrs ==
  /\ TableSpriteAttr(3, 0) = 6912 /\ TableSpriteAttr(3, 1) = 7040 /\ TableSpriteAttr(3, 2) = 7168
  /\ TableSpriteAttr(6, 0) = 30208 /\ TableSpriteAttr(6, 1) = 29184 /\ TableSpriteAttr(6, 2) = 28160
  /\ TableSpriteAttr(9, 0) = 64000 /\ TableSpriteAttr(9, 1) = 65024 /\ TableSpriteAttr(9, 2) = 59904
  BY DEF TableSpriteAttr

LEMMA Gens ==
  TableSpriteGen(3, 0) = 14336 /\ TableSpriteGen(6, 0) = 30720 /\ TableSpriteGen(9, 0) = 61440
  BY DEF TableSpriteGen

(* The tables do not overlap, nor do they and the picture's lines.         *)
LEMMA Apart ==
  ASSUME g.mode \in SprModes, NEW p \in SprTables, NEW l \in Layers
  PROVE  /\ AttrAt(p, l) \in Nat /\ AttrAt(p, l) # PatternAt
         /\ \A q \in SprTables, k \in Layers :
              /\ AttrAt(p, l) = AttrAt(q, k) => p = q /\ l = k
              /\ Mode2(g.mode) => AttrAt(p, l) # ColourAt(q, k)
              /\ Mode2(g.mode) /\ ColourAt(p, l) = ColourAt(q, k) => p = q /\ l = k
         /\ Mode2(g.mode) => /\ ColourAt(p, l) # PatternAt
                             /\ \A sy \in SprLines : LET row == IF g.mode = 6 THEN 128 ELSE 256 IN
                                  /\ sy * row + row - 1 < ColourAt(p, l)
                                  /\ sy * row + row - 1 < AttrAt(p, l)
                                  /\ sy * row + row - 1 < PatternAt
<1>1. CASE g.mode = 3
  BY <1>1, Modes_, Attrs, Gens DEF AttrAt, ColourAt, PatternAt, Mode2
<1>2. CASE g.mode = 6
  BY <1>2, Modes_, Attrs, Gens DEF AttrAt, ColourAt, PatternAt, Mode2
<1>3. CASE g.mode = 9
  <2>1. /\ Mode2(g.mode) /\ PatternAt = 61504
        /\ \A q \in SprTables, k \in Layers :
             /\ k \in Nat /\ k < 32
             /\ \/ AttrAt(q, k) = 64000 + 4 * k /\ ColourAt(q, k) = 63488 + 16 * k /\ q = 0
                \/ AttrAt(q, k) = 65024 + 4 * k /\ ColourAt(q, k) = 64512 + 16 * k /\ q = 1
                \/ AttrAt(q, k) = 59904 + 4 * k /\ ColourAt(q, k) = 59392 + 16 * k /\ q = 2
    BY <1>3, Modes_, Attrs, Gens DEF AttrAt, ColourAt, PatternAt, Mode2
  <2>2. /\ AttrAt(p, l) \in Nat /\ AttrAt(p, l) # PatternAt /\ ColourAt(p, l) # PatternAt
        /\ \A sy \in SprLines : sy * 256 + 256 - 1 < ColourAt(p, l) /\ sy * 256 + 256 - 1 < AttrAt(p, l)
                             /\ sy * 256 + 256 - 1 < PatternAt
    BY <2>1, Modes_
  <2>3. ASSUME NEW q \in SprTables, NEW k \in Layers
        PROVE  /\ AttrAt(p, l) = AttrAt(q, k) => p = q /\ l = k
               /\ AttrAt(p, l) # ColourAt(q, k)
               /\ ColourAt(p, l) = ColourAt(q, k) => p = q /\ l = k
    BY <2>1
  <2> QED
    BY <1>3, <2>2, <2>3
<1> QED
  BY <1>1, <1>2, <1>3, Modes_

(* The video processor finds the table the registers were set to.          *)
LEMMA Found ==
  ASSUME g.mode \in SprModes, NEW p \in SprTables, Views(p)
  PROVE  HwAttr = TableSpriteAttr(g.mode, p)
<1>1. CASE g.mode = 3
  BY <1>1, Modes_, Attrs DEF Views, HwAttr, Mode2, AttrFix, Reg5, Reg11
<1>2. CASE g.mode = 6
  BY <1>2, Modes_, Attrs DEF Views, HwAttr, Mode2, AttrFix, Reg5, Reg11
<1>3. CASE g.mode = 9
  BY <1>3, Modes_, Attrs DEF Views, HwAttr, Mode2, AttrFix, Reg5, Reg11
<1> QED
  BY <1>1, <1>2, <1>3, Modes_

LEMMA PatternFound ==
  ASSUME g.mode \in SprModes, regs.r6 = Reg6(g.mode)
  PROVE  regs.r6 * 2048 = TableSpriteGen(g.mode, 0)
  BY Modes_, Gens DEF Reg6

(* A sprite is at its line or one below, and not at the end of the list.   *)
LEMMA Lines ==
  ASSUME NEW sy \in Nat, sy < 256, g.scroll \in 0..255
  PROVE  /\ SpriteY(sy) \in Nat /\ SpriteY(sy) # 216
         /\ (SpriteY(sy) + 1 + 512 - g.scroll - sy) % 256 \in {0, 1}
<1> DEFINE t == (sy + g.scroll) % 256
<1>0. g.scroll \in Nat /\ g.scroll < 256
  OBVIOUS
<1>1. t \in Nat /\ t < 256 /\ (t = sy + g.scroll \/ t = sy + g.scroll - 256)
  BY <1>0
<1>2. CASE t # 217
  <2>1. SpriteY(sy) = (t + 255) % 256
    BY <1>2 DEF SpriteY
  <2>2. (t = 0 /\ (t + 255) % 256 = 255) \/ (t > 0 /\ (t + 255) % 256 = t - 1)
    BY <1>1
  <2> HIDE DEF t
  <2>3. CASE t = 0
    BY <1>0, <1>1, <2>1, <2>2, <2>3
  <2>4. CASE t > 0
    <3>1. SpriteY(sy) = t - 1
      BY <1>1, <2>1, <2>2, <2>4
    <3>2. SpriteY(sy) + 1 + 512 - g.scroll - sy \in {256, 512}
      BY <1>0, <1>1, <3>1
    <3>3. 256 % 256 = 0 /\ 512 % 256 = 0
      OBVIOUS
    <3>4. (SpriteY(sy) + 1 + 512 - g.scroll - sy) % 256 = 0
      BY <3>2, <3>3
    <3>5. SpriteY(sy) \in Nat /\ SpriteY(sy) # 216
      BY <1>1, <1>2, <2>4, <3>1
    <3> QED
      BY <3>4, <3>5
  <2> QED
    BY <1>1, <2>3, <2>4
<1>3. CASE t = 217
  <2>1. SpriteY(sy) = 217
    BY <1>3 DEF SpriteY
  <2> HIDE DEF t
  <2> QED
    BY <1>0, <1>1, <1>3, <2>1
<1> QED
  BY <1>2, <1>3

(***************************************************************************)
(* The palette                                                             *)
(***************************************************************************)
LEMMA Digit3 ==
  ASSUME NEW r \in 0..7, NEW gr \in 0..7, NEW bl \in 0..7
  PROVE  LET v == gr * 256 + r * 16 + bl IN
         /\ v \in Nat /\ v \div 256 = gr /\ (v \div 16) % 16 = r /\ v % 16 = bl
         /\ (v \div 256) % 16 = gr /\ (v \div 16) % 8 = r /\ (v \div 256) % 8 = gr /\ v % 8 = bl
<1> DEFINE v == gr * 256 + r * 16 + bl
<1>1. v \in Nat /\ v \div 256 = gr /\ v \div 16 = gr * 16 + r
  OBVIOUS
<1>2. v % 16 = bl /\ v % 8 = bl
  OBVIOUS
<1>3. (gr * 16 + r) % 16 = r /\ (gr * 16 + r) % 8 = r /\ gr % 16 = gr /\ gr % 8 = gr
  OBVIOUS
<1> QED
  BY <1>1, <1>2, <1>3

LEMMA Initial16 ==
  ASSUME NEW n \in 0..15 PROVE Init16(n) \in Nat /\ Digits(Init16(n))
<1> DEFINE D(r, gr, bl) == gr * 256 + r * 16 + bl
<1>1. /\ D(0, 0, 0) = 0 /\ D(1, 6, 1) = 1553 /\ D(3, 7, 3) = 1843 /\ D(1, 1, 7) = 279 /\ D(2, 3, 7) = 807
      /\ D(5, 1, 1) = 337 /\ D(2, 6, 7) = 1575 /\ D(7, 1, 1) = 369 /\ D(7, 3, 3) = 883 /\ D(6, 6, 1) = 1633
      /\ D(6, 6, 4) = 1636 /\ D(1, 4, 1) = 1041 /\ D(6, 2, 5) = 613 /\ D(5, 5, 5) = 1365 /\ D(7, 7, 7) = 1911
  OBVIOUS
<1>2. \A r, gr, bl \in 0..7 : Digits(D(r, gr, bl))
  BY DEF Digits
<1>3. Init16(n) \in {0, 1553, 1843, 279, 807, 337, 1575, 369, 883, 1633, 1636, 1041, 613, 1365, 1911}
  BY DEF Init16
<1> HIDE DEF D
<1>4. \A v \in {0, 1553, 1843, 279, 807, 337, 1575, 369, 883, 1633, 1636, 1041, 613, 1365, 1911} : Digits(v)
  BY <1>1, <1>2
<1> QED
  BY <1>3, <1>4

(* Monochrome is the brightness, rounded, in one or two colours.           *)
LEMMA Greys ==
  ASSUME NEW v, Digits(v), NEW m \in 1..4
  PROVE  Effected(<<"none", "amber", "green", "redblue", "white">>[m + 1], v, Mono(m, v))
<1>1. PICK r \in 0..7, gr \in 0..7, bl \in 0..7 : v = gr * 256 + r * 16 + bl
  BY DEF Digits
<1> DEFINE sy == (r * 299 + gr * 587 + bl * 114 + 500) \div 1000
           h == Mono(m, v)
<1>2. /\ (v \div 16) % 8 = r /\ (v \div 256) % 8 = gr /\ v % 8 = bl
      /\ v \div 256 = gr /\ (v \div 16) % 16 = r /\ v % 16 = bl
  BY <1>1, Digit3
<1>3. /\ sy \in 0..7 /\ 1000 * sy <= r * 299 + gr * 587 + bl * 114 + 500
      /\ r * 299 + gr * 587 + bl * 114 + 500 < 1000 * sy + 1000
  OBVIOUS
<1>4. Luma(v) = r * 299 + gr * 587 + bl * 114
  BY <1>2 DEF Luma, Parts
<1> HIDE DEF sy
<1>5. Near(sy, v)
  BY <1>3, <1>4 DEF Near
<1>6. h = CASE m = 1 -> sy * 16 + (sy \div 2) * 256 [] m = 2 -> sy * 256 [] m = 3 -> sy + (sy \div 2) * 16 [] OTHER -> sy * 273
  BY <1>2 DEF Mono, sy
<1>7. sy \div 2 \in 0..7
  BY <1>3
<1> HIDE DEF h
<1>8. CASE m = 1
  <2>1. h = (sy \div 2) * 256 + sy * 16 + 0
    BY <1>3, <1>6, <1>7, <1>8
  <2>2. h \div 256 = sy \div 2 /\ (h \div 16) % 16 = sy /\ h % 16 = 0
    BY <1>3, <1>7, <2>1, Digit3
  <2> QED
    BY <1>5, <1>8, <2>2 DEF Effected, Parts, h
<1>9. CASE m = 2
  <2>1. h = sy * 256 + 0 * 16 + 0
    BY <1>3, <1>6, <1>9
  <2>2. h \div 256 = sy /\ (h \div 16) % 16 = 0 /\ h % 16 = 0
    BY <1>3, <2>1, Digit3
  <2> QED
    BY <1>5, <1>9, <2>2 DEF Effected, Parts, h
<1>10. CASE m = 3
  <2>1. h = 0 * 256 + (sy \div 2) * 16 + sy
    BY <1>3, <1>6, <1>7, <1>10
  <2>2. h \div 256 = 0 /\ (h \div 16) % 16 = sy \div 2 /\ h % 16 = sy
    BY <1>3, <1>7, <2>1, Digit3
  <2> QED
    BY <1>5, <1>10, <2>2 DEF Effected, Parts, h
<1>11. CASE m = 4
  <2>1. h = sy * 256 + sy * 16 + sy
    BY <1>3, <1>6, <1>11
  <2>2. h \div 256 = sy /\ (h \div 16) % 16 = sy /\ h % 16 = sy
    BY <1>3, <2>1, Digit3
  <2> QED
    BY <1>5, <1>11, <2>2 DEF Effected, Parts, h
<1> QED
  BY <1>8, <1>9, <1>10, <1>11

(***************************************************************************)
(* The calls                                                               *)
(***************************************************************************)
LEMMA AttrNat ==
  ASSUME NEW m \in SprModes, NEW p \in SprTables
  PROVE  /\ TableSpriteAttr(m, p) \in Nat /\ TableSpriteGen(m, 0) \in Nat
         /\ Reg5(m, p) \in Nat
         /\ Reg11(m, p) \in Nat /\ Reg6(m) \in Nat
<1>1. TableSpriteAttr(m, p) \in Nat /\ TableSpriteGen(m, 0) \in Nat
  BY Modes_, Attrs, Gens
<1> DEFINE a == TableSpriteAttr(m, p)
           d == TableSpriteGen(m, 0)
<1> HIDE DEF a, d
<1>2. a \in Nat /\ d \in Nat
  BY <1>1 DEF a, d
<1>3. AttrFix(m, a) \in Nat
  BY <1>2 DEF AttrFix
<1>4. (AttrFix(m, a) \div 128) % 256 \in Nat
  BY <1>3
<1>5. (a \div 32768) % 2 \in Nat /\ (d \div 2048) % 32 \in Nat
  BY <1>2
<1> QED
  BY <1>2, <1>4, <1>5 DEF a, d, Reg5, Reg11, Reg6

(* f and r are bl_grp and the registers of a mode that was just set.       *)
JustSet(m, f, r) ==
  /\ f \in [mode : SprModes, scroll : 0..255, big : Magnified, table : SprTables, attr : Nat, gen : Nat]
  /\ f.mode = m /\ f.attr = TableSpriteAttr(m, 0) /\ f.table = 0 /\ f.gen = TableSpriteGen(m, 0)
  /\ r \in [r5 : Nat, r6 : Nat, r11 : Nat]
  /\ r.r5 = Reg5(m, 0) /\ r.r11 = Reg11(m, 0) /\ r.r6 = Reg6(m)

LEMMA ModeSet ==
  ASSUME NEW m \in SprModes, NEW scroll \in 0..255, NEW big \in Magnified
  PROVE  JustSet(m, SprFields(m, scroll, big), SprRegs(m))
<1> DEFINE r5 == Reg5(m, 0)
           r11 == Reg11(m, 0)
           r6 == Reg6(m)
<1>1. /\ TableSpriteAttr(m, 0) \in Nat /\ TableSpriteGen(m, 0) \in Nat /\ r5 \in Nat /\ r6 \in Nat /\ r11 \in Nat
      /\ 0 \in SprTables
  BY AttrNat, Modes_
<1>2. SprRegs(m) = [r5 |-> r5, r11 |-> r11, r6 |-> r6]
  BY DEF SprRegs, Reg5, Reg11, Reg6
<1> HIDE DEF r5, r6, r11
<1>3. SprRegs(m) \in [r5 : Nat, r6 : Nat, r11 : Nat] /\ SprRegs(m).r5 = r5 /\ SprRegs(m).r11 = r11 /\ SprRegs(m).r6 = r6
  BY <1>1, <1>2
<1>4. LET f == SprFields(m, scroll, big) IN
        /\ f \in [mode : SprModes, scroll : 0..255, big : Magnified, table : SprTables, attr : Nat, gen : Nat]
        /\ f.mode = m /\ f.attr = TableSpriteAttr(m, 0) /\ f.table = 0 /\ f.gen = TableSpriteGen(m, 0)
  BY <1>1 DEF SprFields
<1> QED
  BY <1>3, <1>4, Zenon DEF r5, r6, r11, JustSet

LEMMA InitialPalette ==
  ASSUME pal = [own |-> [n \in Entries |-> Init16(n)], hw |-> [n \in Entries |-> Init16(n)]]
  PROVE  /\ pal \in [own : [Entries -> Nat], hw : [Entries -> Nat]]
         /\ \A n \in Entries : Digits(pal.own[n]) /\ pal.hw[n] = pal.own[n]
<1>1. \A n \in Entries : n \in 0..15
  BY SpriteAssumption, Zenon
<1>2. \A n \in Entries : Init16(n) \in Nat /\ Digits(Init16(n))
  BY <1>1, Initial16, Zenon
<1> QED
  BY <1>2

LEMMA SprInitial == SprInit => SprInv
<1> SUFFICES ASSUME SprInit PROVE SprInv
  OBVIOUS
<1>1. PICK m \in SprModes : g = SprFields(m, 0, FALSE) /\ regs = SprRegs(m)
  BY DEF SprInit
<1>0. /\ pal = [own |-> [n \in Entries |-> Init16(n)], hw |-> [n \in Entries |-> Init16(n)]]
      /\ effect = [kind |-> "none", since |-> {}]
      /\ put = [p \in SprTables |-> [l \in Layers |-> NoSprite]] /\ made = {}
  BY DEF SprInit
<1>2. 0 \in 0..255 /\ FALSE \in Magnified
  BY DEF Magnified
<1>3. JustSet(m, g, regs)
  BY <1>1, <1>2, ModeSet, Zenon
<1>4. /\ pal \in [own : [Entries -> Nat], hw : [Entries -> Nat]]
      /\ \A n \in Entries : Digits(pal.own[n]) /\ pal.hw[n] = pal.own[n]
  BY <1>0, InitialPalette
<1>5. SprTypes
  <2>1. put \in [SprTables -> [Layers -> Wish]] /\ effect \in [kind : Kinds, since : SUBSET Entries]
    BY <1>0 DEF Wish, Kinds
  <2> QED
    BY <1>3, <1>4, <2>1 DEF SprTypes, JustSet
<1>6. ViewInv
  <2>1. Views(0)
    BY <1>3 DEF Views, JustSet
  <2> QED
    BY <1>3, <2>1, Modes_ DEF ViewInv, JustSet
<1>7. SpriteInv /\ ColourInv /\ PatternInv
  BY <1>0 DEF SpriteInv, ColourInv, PatternInv, PatternMade
<1>8. PaletteInv
  BY <1>0, <1>4 DEF PaletteInv, EntryOK, Effected
<1> QED
  BY <1>5, <1>6, <1>7, <1>8 DEF SprInv

(* A screen mode is set: the effect is taken back too.                     *)
LEMMA ScreenKeeps ==
  ASSUME SprInv, NEW m \in SprModes, SprScreen(m) PROVE SprInv'
<1>0. /\ g' = SprFields(m, g.scroll, g.big) /\ regs' = SprRegs(m)
      /\ pal' = [pal EXCEPT !.hw = pal.own] /\ effect' = [kind |-> "none", since |-> {}]
      /\ put' = [p \in SprTables |-> [l \in Layers |-> NoSprite]] /\ made' = {}
  BY Zenon DEF SprScreen
<1>s. PICK sc, bg : sc = g.scroll /\ bg = g.big
  OBVIOUS
<1>1. sc \in 0..255 /\ bg \in Magnified /\ g' = SprFields(m, sc, bg) /\ regs' = SprRegs(m)
  BY <1>0, <1>s DEF SprInv, SprTypes
<1>2. JustSet(m, g', regs')
  BY <1>1, ModeSet, Zenon
<1>3. pal.own \in [Entries -> Nat] /\ \A n \in Entries : Digits(pal.own[n])
  BY DEF SprInv, SprTypes, PaletteInv, EntryOK
<1>4. pal' \in [own : [Entries -> Nat], hw : [Entries -> Nat]] /\ pal'.own = pal.own /\ pal'.hw = pal.own
  BY <1>0, <1>3 DEF SprInv, SprTypes
<1>5. SprTypes'
  <2>1. put' \in [SprTables -> [Layers -> Wish]] /\ effect' \in [kind : Kinds, since : SUBSET Entries]
    BY <1>0 DEF Wish, Kinds
  <2> QED
    BY <1>2, <1>4, <2>1 DEF SprTypes, JustSet
<1>6. ViewInv'
  <2>1. Views(0)'
    BY <1>2 DEF Views, JustSet
  <2> QED
    BY <1>2, <2>1, Modes_ DEF ViewInv, JustSet
<1>7. SpriteInv' /\ ColourInv' /\ PatternInv'
  BY <1>0 DEF SpriteInv, ColourInv, PatternInv, PatternMade
<1>8. PaletteInv'
  <2>1. \A n \in Entries : Digits(pal'.own[n]) /\ pal'.hw[n] = pal'.own[n]
    BY <1>3, <1>4
  <2> QED
    BY <1>0, <2>1 DEF PaletteInv, EntryOK, Effected, Digits
<1> QED
  BY <1>5, <1>6, <1>7, <1>8 DEF SprInv

(* What is in VRAM, for table and mode, does not depend on the registers.  *)
LEMMA HeldStays ==
  ASSUME SpriteInv, ColourInv, PatternInv, UNCHANGED <<vmem, put, made>>, g'.mode = g.mode
  PROVE  SpriteInv' /\ ColourInv' /\ PatternInv'
  BY DEF SpriteInv, ColourInv, PatternInv, PatternMade, AttrAt, ColourAt, PatternAt, Stands

LEMMA PaletteStays ==
  ASSUME PaletteInv, UNCHANGED <<pal, effect>> PROVE PaletteInv'
  BY DEF PaletteInv, EntryOK

(* A table or a pattern table is chosen to be shown.                       *)
LEMMA ViewKeeps ==
  ASSUME SprInv, NEW p \in SprTables, regs' = SprView(p), UNCHANGED <<g, pal, vmem, put, made, effect>>
  PROVE  SprInv'
<1>1. /\ regs'.r5 = Reg5(g.mode, p)
      /\ regs'.r11 = Reg11(g.mode, p)
      /\ regs' \in [r5 : Nat, r6 : Nat, r11 : Nat] /\ regs'.r6 = regs.r6
  <2> DEFINE r5 == Reg5(g.mode, p)
             r11 == Reg11(g.mode, p)
  <2>1. regs \in [r5 : Nat, r6 : Nat, r11 : Nat] /\ regs' = [regs EXCEPT !.r5 = r5, !.r11 = r11]
    BY DEF SprInv, SprTypes, SprView, Reg5, Reg11
  <2>2. g.mode \in SprModes
    BY DEF SprInv, SprTypes
  <2>3. r5 \in Nat /\ r11 \in Nat
    BY <2>2, AttrNat
  <2> HIDE DEF r5, r11
  <2>4. regs'.r5 = r5 /\ regs'.r11 = r11 /\ regs' \in [r5 : Nat, r6 : Nat, r11 : Nat] /\ regs'.r6 = regs.r6
    BY <2>1, <2>3
  <2> QED
    BY <2>4 DEF r5, r11
<1>2. ViewInv'
  BY <1>1 DEF SprInv, ViewInv, Views
<1>3. SprTypes'
  BY <1>1 DEF SprInv, SprTypes
<1> QED
  BY <1>2, <1>3, HeldStays, PaletteStays DEF SprInv

LEMMA GenViewKeeps ==
  ASSUME SprInv, NEW p \in GenTables, regs' = GenView(p), UNCHANGED <<g, pal, vmem, put, made, effect>>
  PROVE  SprInv'
<1>0. p = 0
  BY SpriteAssumption
<1>1. /\ regs'.r5 = regs.r5 /\ regs'.r11 = regs.r11 /\ regs'.r6 = Reg6(g.mode)
      /\ regs' \in [r5 : Nat, r6 : Nat, r11 : Nat]
  BY <1>0, AttrNat, Modes_ DEF SprInv, SprTypes, GenView, Reg6
<1>2. ViewInv'
  BY <1>1 DEF SprInv, ViewInv, Views
<1>3. SprTypes'
  BY <1>1 DEF SprInv, SprTypes
<1> QED
  BY <1>2, <1>3, HeldStays, PaletteStays DEF SprInv

(* What bl_grp says: the table written, the scroll, the sprites' size.     *)
LEMMA FieldsKeep ==
  ASSUME SprInv, UNCHANGED <<regs, pal, vmem, put, made, effect>>,
         g' \in [mode : SprModes, scroll : 0..255, big : Magnified, table : SprTables, attr : Nat, gen : Nat],
         g'.mode = g.mode, g'.attr = TableSpriteAttr(g'.mode, g'.table), g'.gen = TableSpriteGen(g'.mode, 0)
  PROVE  SprInv'
<1>1. SprTypes'
  BY DEF SprInv, SprTypes
<1>2. ViewInv'
  BY DEF SprInv, ViewInv, Views
<1> QED
  BY <1>1, <1>2, HeldStays, PaletteStays DEF SprInv

LEMMA ActiveKeeps ==
  ASSUME SprInv, NEW p \in SprTables, g' = SprActive(p), UNCHANGED <<regs, pal, vmem, put, made, effect>>
  PROVE  SprInv'
<1>1. /\ g' \in [mode : SprModes, scroll : 0..255, big : Magnified, table : SprTables, attr : Nat, gen : Nat]
      /\ g'.mode = g.mode /\ g'.attr = TableSpriteAttr(g'.mode, g'.table) /\ g'.gen = TableSpriteGen(g'.mode, 0)
  <2> DEFINE a == TableSpriteAttr(g.mode, p)
  <2>1. g.mode \in SprModes
    BY DEF SprInv, SprTypes
  <2>2. a \in Nat
    BY <2>1, AttrNat
  <2>3. g' = [g EXCEPT !.attr = a, !.table = p]
    BY Zenon DEF SprActive
  <2>4. /\ g \in [mode : SprModes, scroll : 0..255, big : Magnified, table : SprTables, attr : Nat, gen : Nat]
        /\ g.gen = TableSpriteGen(g.mode, 0)
    BY DEF SprInv, SprTypes
  <2> HIDE DEF a
  <2>5. /\ g' \in [mode : SprModes, scroll : 0..255, big : Magnified, table : SprTables, attr : Nat, gen : Nat]
        /\ g'.mode = g.mode /\ g'.attr = a /\ g'.table = p /\ g'.gen = g.gen
    BY <2>2, <2>3, <2>4
  <2> QED
    BY <2>4, <2>5 DEF a
<1> QED
  BY <1>1, FieldsKeep

LEMMA OtherFieldKeeps ==
  ASSUME SprInv, UNCHANGED <<regs, pal, vmem, put, made, effect>>,
         \/ \E p \in GenTables : g' = [g EXCEPT !.gen = TableSpriteGen(g.mode, p)]
         \/ \E on \in BOOLEAN : g' = [g EXCEPT !.big = on]
         \/ \E v \in SprScrolls : g' = [g EXCEPT !.scroll = v]
  PROVE  SprInv'
<1>1. \A p \in GenTables : p = 0
  BY SpriteAssumption
<1>2. \A v \in SprScrolls : v \in 0..255
  BY SpriteAssumption
<1>3. TableSpriteGen(g.mode, 0) \in Nat
  BY AttrNat, Modes_ DEF SprInv, SprTypes
<1>4. /\ g' \in [mode : SprModes, scroll : 0..255, big : Magnified, table : SprTables, attr : Nat, gen : Nat]
      /\ g'.mode = g.mode /\ g'.attr = TableSpriteAttr(g'.mode, g'.table) /\ g'.gen = TableSpriteGen(g'.mode, 0)
  BY <1>1, <1>2, <1>3 DEF SprInv, SprTypes, Magnified
<1> QED
  BY <1>4, FieldsKeep

(* W is put, as V, at the layers L of the table written.                   *)
LEMMA SpritesPut ==
  ASSUME SprInv, NEW L \in SUBSET Layers, NEW V, NEW W \in Wish, Stands(V, W),
         UNCHANGED <<g, regs, pal, made, effect>>,
         put' \in [SprTables -> [Layers -> Wish]],
         \A p \in SprTables, k \in Layers : put'[p][k] = IF p = g.table /\ k \in L THEN W ELSE put[p][k],
         vmem' = [ad \in DOMAIN vmem \cup {VramAddrAttr(k) : k \in L} |->
                    IF ad \in {VramAddrAttr(k) : k \in L} THEN V ELSE vmem[ad]]
  PROVE  SprInv'
<1> DEFINE at == {VramAddrAttr(k) : k \in L}
<1>0. g.mode \in SprModes /\ g.table \in SprTables
  BY DEF SprInv, SprTypes
<1>1. at = {AttrAt(g.table, k) : k \in L}
  <2>1. \A k \in L : VramAddrAttr(k) = AttrAt(g.table, k)
    <3> SUFFICES ASSUME NEW k \in L PROVE VramAddrAttr(k) = AttrAt(g.table, k)
      OBVIOUS
    <3>1. g.attr = TableSpriteAttr(g.mode, g.table)
      BY Zenon DEF SprInv, SprTypes
    <3>2. k * 4 = 4 * k
      BY Modes_
    <3> QED
      BY <3>1, <3>2, Zenon DEF VramAddrAttr, AttrAt
  <2> QED
    BY <2>1
<1>2. /\ \A ad \in at : ad \in DOMAIN vmem' /\ vmem'[ad] = V
      /\ \A ad \in DOMAIN vmem : ad \notin at => ad \in DOMAIN vmem' /\ vmem'[ad] = vmem[ad]
  OBVIOUS
<1> HIDE DEF at
<1>s. /\ \A p \in SprTables, k \in Layers : AttrAt(p, k)' = AttrAt(p, k) /\ ColourAt(p, k)' = ColourAt(p, k)
      /\ \A p \in SprTables, k \in Layers :
           Stands(vmem[AttrAt(p, k)], put[p][k])' <=> Stands(vmem'[AttrAt(p, k)], put'[p][k])
      /\ Mode2(g.mode)' <=> Mode2(g.mode)
  <2>1. g' = g
    OBVIOUS
  <2>2. \A p \in SprTables, k \in Layers : AttrAt(p, k)' = AttrAt(p, k) /\ ColourAt(p, k)' = ColourAt(p, k)
    BY <2>1 DEF AttrAt, ColourAt
  <2>3. Mode2(g.mode)' <=> Mode2(g.mode)
    BY <2>1 DEF Mode2
  <2>4. ASSUME NEW p \in SprTables, NEW k \in Layers
        PROVE  Stands(vmem[AttrAt(p, k)], put[p][k])' <=> Stands(vmem'[AttrAt(p, k)], put'[p][k])
    <3>1. AttrAt(p, k)' = AttrAt(p, k)
      BY <2>2
    <3>2. Stands(vmem[AttrAt(p, k)], put[p][k])' <=> Stands(vmem'[AttrAt(p, k)'], put'[p][k])
      BY <2>3, Zenon DEF Stands
    <3> QED
      BY <3>1, <3>2, Zenon
  <2> QED
    BY <2>2, <2>3, <2>4
<1>a. \A p, q \in SprTables, k, j \in Layers :
        /\ AttrAt(p, k) = AttrAt(q, j) => p = q /\ k = j
        /\ Mode2(g.mode) => AttrAt(p, k) # ColourAt(q, j)
  <2> SUFFICES ASSUME NEW p \in SprTables, NEW k \in Layers
               PROVE  \A q \in SprTables, j \in Layers :
                        /\ AttrAt(p, k) = AttrAt(q, j) => p = q /\ k = j
                        /\ Mode2(g.mode) => AttrAt(p, k) # ColourAt(q, j)
    OBVIOUS
  <2> QED
    BY <1>0, Apart
<1>3. SpriteInv'
  <2> SUFFICES ASSUME NEW p \in SprTables, NEW k \in Layers, put'[p][k] # NoSprite
               PROVE  AttrAt(p, k) \in DOMAIN vmem' /\ Stands(vmem'[AttrAt(p, k)], put'[p][k])
    <3>1. \A p \in SprTables, k \in Layers : AttrAt(p, k)' = AttrAt(p, k)
      BY <1>s, Zenon
    <3>2. SpriteInv' <=> \A p \in SprTables, k \in Layers :
            put'[p][k] # NoSprite => AttrAt(p, k)' \in DOMAIN vmem' /\ Stands(vmem[AttrAt(p, k)], put[p][k])'
      BY Zenon DEF SpriteInv
    <3>3. ASSUME NEW p \in SprTables, NEW k \in Layers,
                 put'[p][k] # NoSprite =>
                   AttrAt(p, k) \in DOMAIN vmem' /\ Stands(vmem'[AttrAt(p, k)], put'[p][k])
          PROVE  put'[p][k] # NoSprite => AttrAt(p, k)' \in DOMAIN vmem' /\ Stands(vmem[AttrAt(p, k)], put[p][k])'
      <4>1. Stands(vmem[AttrAt(p, k)], put[p][k])' <=> Stands(vmem'[AttrAt(p, k)], put'[p][k])
        BY <1>s
      <4> QED
        BY <3>1, <3>3, <4>1
    <3> QED
      BY <3>2, <3>3
  <2>1. CASE p = g.table /\ k \in L
    <3>1. AttrAt(p, k) \in at /\ put'[p][k] = W
      BY <1>1, <2>1
    <3> QED
      BY <1>2, <3>1, Zenon
  <2>2. CASE ~(p = g.table /\ k \in L)
    <3>1. put'[p][k] = put[p][k]
      BY <2>2, Zenon
    <3>2. AttrAt(p, k) \notin at
      <4> SUFFICES ASSUME NEW j \in L, AttrAt(p, k) = AttrAt(g.table, j) PROVE FALSE
        BY <1>1
      <4> QED
        BY <1>0, <1>a, <2>2
    <3>3. AttrAt(p, k) \in DOMAIN vmem /\ Stands(vmem[AttrAt(p, k)], put[p][k])
      BY <3>1, Zenon DEF SprInv, SpriteInv
    <3> QED
      BY <1>2, <3>1, <3>2, <3>3, Zenon
  <2> QED
    BY <2>1, <2>2
<1>4. ColourInv'
  <2> SUFFICES ASSUME NEW p \in SprTables, NEW k \in Layers, <<p, k>> \in made
               PROVE  Mode2(g.mode) /\ ColourAt(p, k) \in DOMAIN vmem' /\ vmem'[ColourAt(p, k)] = Tint
    <3>1. ColourInv' <=> \A p \in SprTables, k \in Layers :
            <<p, k>> \in made' => Mode2(g.mode)' /\ ColourAt(p, k)' \in DOMAIN vmem' /\ vmem'[ColourAt(p, k)'] = Tint
      BY Zenon DEF ColourInv
    <3>2. made' = made /\ (Mode2(g.mode)' <=> Mode2(g.mode))
      BY <1>s
    <3>3. \A p \in SprTables, k \in Layers : ColourAt(p, k)' = ColourAt(p, k)
      BY <1>s
    <3>4. ASSUME NEW p \in SprTables, NEW k \in Layers,
                 <<p, k>> \in made => Mode2(g.mode) /\ ColourAt(p, k) \in DOMAIN vmem' /\ vmem'[ColourAt(p, k)] = Tint
          PROVE  <<p, k>> \in made' => Mode2(g.mode)' /\ ColourAt(p, k)' \in DOMAIN vmem' /\ vmem'[ColourAt(p, k)'] = Tint
      BY <3>2, <3>3, <3>4
    <3> QED
      BY <3>1, <3>4
  <2>1. Mode2(g.mode) /\ ColourAt(p, k) \in DOMAIN vmem /\ vmem[ColourAt(p, k)] = Tint
    BY Zenon DEF SprInv, ColourInv
  <2>2. ColourAt(p, k) \notin at
    <3> SUFFICES ASSUME NEW j \in L, ColourAt(p, k) = AttrAt(g.table, j) PROVE FALSE
      BY <1>1
    <3> QED
      BY <1>0, <1>a, <2>1
  <2> QED
    BY <1>2, <2>1, <2>2, Zenon
<1>5. PatternInv'
  <2> SUFFICES ASSUME PatternMade PROVE PatternAt \in DOMAIN vmem' /\ vmem'[PatternAt] = Pattern
    BY Zenon DEF PatternInv, PatternAt, PatternMade
  <2>1. PatternAt \in DOMAIN vmem /\ vmem[PatternAt] = Pattern
    BY Zenon DEF SprInv, PatternInv
  <2>2. PatternAt \notin at
    BY <1>0, <1>1, Apart
  <2> QED
    BY <1>2, <2>1, <2>2, Zenon
<1>6. SprTypes'
  BY Zenon DEF SprInv, SprTypes
<1>7. ViewInv' /\ PaletteInv'
  BY PaletteStays DEF SprInv, ViewInv, Views
<1> QED
  BY <1>3, <1>4, <1>5, <1>6, <1>7, Zenon DEF SprInv

LEMMA SpritePutKeeps ==
  ASSUME SprInv, NEW l \in Layers, NEW sy \in SprYs, NEW tint \in Nat, PutSprite(l, 10, sy, tint, 2)
  PROVE  SprInv'
<1> DEFINE V == [kind |-> "sprite", y |-> SpriteY(sy), x |-> 10, no |-> IF g.big THEN (2 * 4) % 256 ELSE 2, c |-> tint]
           W == [line |-> sy, x |-> 10, no |-> IF g.big THEN 2 * 4 ELSE 2, colour |-> tint, scroll |-> g.scroll]
<1>0. sy \in Nat /\ sy < 256 /\ g.scroll \in 0..255 /\ g.table \in SprTables /\ put \in [SprTables -> [Layers -> Wish]]
  BY Modes_ DEF SprInv, SprTypes
<1>1. /\ vmem' = Write(VramAddrAttr(l), V) /\ put' = [put EXCEPT ![g.table][l] = W]
      /\ UNCHANGED <<g, regs, pal, made, effect>>
  BY Zenon DEF PutSprite
<1>2. W \in Wish
  <2>1. PICK no : no = IF g.big THEN 2 * 4 ELSE 2
    OBVIOUS
  <2>2. no \in Nat
    BY <2>1
  <2>3. [line |-> sy, x |-> 10, no |-> no, colour |-> tint, scroll |-> g.scroll] \in Wish
    BY <1>0, <2>2 DEF Wish
  <2> QED
    BY <2>1, <2>3, Zenon
<1>3. Stands(V, W)
  <2>1. /\ SpriteY(sy) \in Nat /\ SpriteY(sy) # 216
        /\ (SpriteY(sy) + 1 + 512 - g.scroll - sy) % 256 \in {0, 1}
    BY <1>0, Lines
  <2>2. (IF g.big THEN (2 * 4) % 256 ELSE 2) = (IF g.big THEN 2 * 4 ELSE 2) % 256
    OBVIOUS
  <2>3. V.kind = "sprite" /\ V.x = W.x /\ V.c = W.colour /\ V.y = SpriteY(sy) /\ W.scroll = g.scroll /\ W.line = sy
        /\ V.no = (IF g.big THEN (2 * 4) % 256 ELSE 2) /\ W.no = (IF g.big THEN 2 * 4 ELSE 2)
    BY Zenon
  <2> HIDE DEF V, W
  <2>4. V.no = W.no % 256
    BY <2>2, <2>3, Zenon
  <2> QED
    BY <2>1, <2>3, <2>4 DEF Stands
<1> HIDE DEF V, W
<1>4. put' \in [SprTables -> [Layers -> Wish]]
      /\ \A p \in SprTables, k \in Layers : put'[p][k] = IF p = g.table /\ k \in {l} THEN W ELSE put[p][k]
  BY <1>0, <1>1, <1>2
<1>5. vmem' = [ad \in DOMAIN vmem \cup {VramAddrAttr(k) : k \in {l}} |->
                    IF ad \in {VramAddrAttr(k) : k \in {l}} THEN V ELSE vmem[ad]]
  <2>1. {VramAddrAttr(k) : k \in {l}} = {VramAddrAttr(l)}
    OBVIOUS
  <2> QED
    BY <1>1, <2>1 DEF Write
<1>6. {l} \in SUBSET Layers
  OBVIOUS
<1> QED
  BY <1>1, <1>2, <1>3, <1>4, <1>5, <1>6, SpritesPut, Zenon

LEMMA ClearKeeps ==
  ASSUME SprInv, ClearSprite PROVE SprInv'
<1> DEFINE V == [kind |-> "sprite", y |-> SpriteY(228), x |-> 0, no |-> 0, c |-> 0]
           W == [line |-> 228, x |-> 0, no |-> 0, colour |-> 0, scroll |-> g.scroll]
<1>0. g.scroll \in 0..255 /\ g.table \in SprTables /\ put \in [SprTables -> [Layers -> Wish]]
  BY DEF SprInv, SprTypes
<1>1. /\ vmem' = [ad \in DOMAIN vmem \cup {VramAddrAttr(k) : k \in Layers} |->
                    IF ad \in {VramAddrAttr(k) : k \in Layers} THEN V ELSE vmem[ad]]
      /\ put' = [put EXCEPT ![g.table] = [k \in Layers |-> W]]
      /\ UNCHANGED <<g, regs, pal, made, effect>>
  BY Zenon DEF ClearSprite, SpriteY
<1>2. W \in Wish
  BY <1>0 DEF Wish
<1>3. Stands(V, W)
  <2>1. /\ SpriteY(228) \in Nat /\ SpriteY(228) # 216
        /\ (SpriteY(228) + 1 + 512 - g.scroll - 228) % 256 \in {0, 1}
    <3>1. 228 \in Nat /\ 228 < 256
      OBVIOUS
    <3> QED
      BY <1>0, <3>1, Lines
  <2>2. V.kind = "sprite" /\ V.x = W.x /\ V.c = W.colour /\ V.y = SpriteY(228) /\ W.scroll = g.scroll /\ W.line = 228
        /\ V.no = 0 /\ W.no = 0
    BY Zenon
  <2>3. 0 % 256 = 0
    OBVIOUS
  <2> HIDE DEF V, W
  <2> QED
    BY <2>1, <2>2, <2>3 DEF Stands
<1> HIDE DEF V, W
<1>4. put' \in [SprTables -> [Layers -> Wish]]
      /\ \A p \in SprTables, k \in Layers : put'[p][k] = IF p = g.table /\ k \in Layers THEN W ELSE put[p][k]
  BY <1>0, <1>1, <1>2
<1>5. Layers \in SUBSET Layers
  OBVIOUS
<1> QED
  BY <1>1, <1>2, <1>3, <1>4, <1>5, SpritesPut, Zenon

(* The addresses in Z are written, and no sprite of a table is there.      *)
LEMMA SpritesKept ==
  ASSUME SprInv, NEW Z, UNCHANGED <<g, regs, pal, put, effect>>,
         \A ad \in DOMAIN vmem : ad \notin Z => ad \in DOMAIN vmem' /\ vmem'[ad] = vmem[ad],
         \A p \in SprTables, l \in Layers : put[p][l] # NoSprite => AttrAt(p, l) \notin Z
  PROVE  SprTypes' /\ ViewInv' /\ PaletteInv' /\ SpriteInv'
<1>1. SprTypes'
  BY Zenon DEF SprInv, SprTypes
<1>2. ViewInv' /\ PaletteInv'
  BY PaletteStays DEF SprInv, ViewInv, Views
<1>3. SpriteInv'
  <2>1. ASSUME NEW p \in SprTables, NEW l \in Layers, put[p][l] # NoSprite
        PROVE  AttrAt(p, l) \in DOMAIN vmem' /\ Stands(vmem'[AttrAt(p, l)], put[p][l])
    <3>1. AttrAt(p, l) \in DOMAIN vmem /\ Stands(vmem[AttrAt(p, l)], put[p][l])
      BY <2>1, Zenon DEF SprInv, SpriteInv
    <3> QED
      BY <2>1, <3>1, Zenon
  <2>2. \A p \in SprTables, l \in Layers : AttrAt(p, l)' = AttrAt(p, l)
    BY Zenon DEF AttrAt
  <2>3. ASSUME NEW p \in SprTables, NEW l \in Layers
        PROVE  Stands(vmem[AttrAt(p, l)], put[p][l])' <=> Stands(vmem'[AttrAt(p, l)], put[p][l])
    <3>1. Stands(vmem[AttrAt(p, l)], put[p][l])' <=> Stands(vmem'[AttrAt(p, l)'], put'[p][l])
      BY DEF Stands
    <3> QED
      BY <2>2, <3>1
  <2>4. ASSUME NEW p \in SprTables, NEW l \in Layers, put[p][l] # NoSprite
        PROVE  AttrAt(p, l)' \in DOMAIN vmem' /\ Stands(vmem[AttrAt(p, l)], put[p][l])'
    BY <2>1, <2>2, <2>3, <2>4
  <2>5. SpriteInv' <=> \A p \in SprTables, l \in Layers :
          put'[p][l] # NoSprite => AttrAt(p, l)' \in DOMAIN vmem' /\ Stands(vmem[AttrAt(p, l)], put[p][l])'
    BY Zenon DEF SpriteInv
  <2> QED
    BY <2>4, <2>5
<1> QED
  BY <1>1, <1>2, <1>3

(* The colours of the entries of made are kept, but in Z.                  *)
LEMMA ColoursKept ==
  ASSUME SprInv, NEW Z, NEW p \in SprTables, NEW l \in Layers, g' = g,
         \A ad \in DOMAIN vmem : ad \notin Z => ad \in DOMAIN vmem' /\ vmem'[ad] = vmem[ad],
         <<p, l>> \in made, ColourAt(p, l) \notin Z
  PROVE  Mode2(g'.mode) /\ ColourAt(p, l)' \in DOMAIN vmem' /\ vmem'[ColourAt(p, l)'] = Tint
<1>1. Mode2(g.mode) /\ ColourAt(p, l) \in DOMAIN vmem /\ vmem[ColourAt(p, l)] = Tint
  BY Zenon DEF SprInv, ColourInv
<1>2. ColourAt(p, l)' = ColourAt(p, l)
  BY Zenon DEF ColourAt
<1> QED
  BY <1>1, <1>2, Zenon

LEMMA PatternKept ==
  ASSUME SprInv, NEW Z, g' = g,
         \A ad \in DOMAIN vmem : ad \notin Z => ad \in DOMAIN vmem' /\ vmem'[ad] = vmem[ad],
         PatternMade' => PatternMade, PatternMade => PatternAt \notin Z
  PROVE  PatternInv'
<1>1. PatternAt' = PatternAt
  BY Zenon DEF PatternAt
<1>2. PatternMade => PatternAt \in DOMAIN vmem /\ vmem[PatternAt] = Pattern
  BY Zenon DEF SprInv, PatternInv
<1> QED
  BY <1>1, <1>2, Zenon DEF PatternInv

(* Colours are kept in sprite mode 2, where they are written.              *)
LEMMA ColourKeeps ==
  ASSUME SprInv, NEW l \in Layers, SetSpriteColor(l) PROVE SprInv'
<1> DEFINE a == ColourAt(g.table, l)
<1>0. g.mode \in SprModes /\ g.table \in SprTables /\ g' = g
  BY DEF SprInv, SprTypes, SetSpriteColor
<1>1. VramAddrCol(l) = a
  <2>1. g.attr = TableSpriteAttr(g.mode, g.table)
    BY Zenon DEF SprInv, SprTypes
  <2>2. l * 16 = 16 * l
    BY Modes_
  <2> QED
    BY <2>1, <2>2, Zenon DEF VramAddrCol, ColourAt
<1>2. /\ Mode2(g.mode) /\ vmem' = Write(a, Tint) /\ made' = made \cup {<<g.table, l>>}
      /\ UNCHANGED <<g, regs, pal, put, effect>>
  BY <1>1, Zenon DEF SetSpriteColor
<1>3. /\ a \in DOMAIN vmem' /\ vmem'[a] = Tint
      /\ \A ad \in DOMAIN vmem : ad \notin {a} => ad \in DOMAIN vmem' /\ vmem'[ad] = vmem[ad]
  BY <1>2 DEF Write
<1>4. \A p \in SprTables, k \in Layers :
        AttrAt(p, k) # a /\ (ColourAt(p, k) = a => p = g.table /\ k = l)
  BY <1>0, <1>2, Apart
<1>5. PatternAt # a
  BY <1>0, <1>2, Apart
<1> HIDE DEF a
<1>6. SprTypes' /\ ViewInv' /\ PaletteInv' /\ SpriteInv'
  <2>1. \A p \in SprTables, k \in Layers : put[p][k] # NoSprite => AttrAt(p, k) \notin {a}
    BY <1>4
  <2> QED
    BY <1>2, <1>3, <2>1, SpritesKept, Zenon
<1>7. ColourInv'
  <2> SUFFICES ASSUME NEW p \in SprTables, NEW k \in Layers, <<p, k>> \in made'
               PROVE  Mode2(g'.mode) /\ ColourAt(p, k)' \in DOMAIN vmem' /\ vmem'[ColourAt(p, k)'] = Tint
    BY Zenon DEF ColourInv
  <2>1. CASE p = g.table /\ k = l
    <3>1. ColourAt(p, k)' = a
      BY <1>0, <2>1, Zenon DEF ColourAt, a
    <3> QED
      BY <1>0, <1>2, <1>3, <3>1, Zenon
  <2>2. CASE ~(p = g.table /\ k = l)
    <3>1. <<p, k>> \in made /\ ColourAt(p, k) \notin {a}
      BY <1>2, <1>4, <2>2
    <3> QED
      BY <1>0, <1>3, <3>1, ColoursKept, Zenon
  <2> QED
    BY <2>1, <2>2
<1>8. PatternInv'
  <2>1. PatternMade' => PatternMade
    <3>1. \A x, sy : <<0>> # <<x, sy>>
      OBVIOUS
    <3> QED
      BY <1>2, <3>1, Zenon DEF PatternMade
  <2>2. PatternMade => PatternAt \notin {a}
    BY <1>5
  <2> QED
    BY <1>0, <1>3, <2>1, <2>2, PatternKept, Zenon
<1> QED
  BY <1>6, <1>7, <1>8, Zenon DEF SprInv

LEMMA PatternKeeps ==
  ASSUME SprInv, SetSpritePattern PROVE SprInv'
<1>0. g.mode \in SprModes /\ g' = g /\ g.gen = TableSpriteGen(g.mode, 0) /\ TableSpriteGen(g.mode, 0) \in Nat
  BY AttrNat, Modes_ DEF SprInv, SprTypes, SetSpritePattern
<1>1. VramAddrGen(8) = PatternAt
  BY <1>0 DEF VramAddrGen, PatternAt
<1>2. /\ vmem' = Write(PatternAt, Pattern) /\ made' = made \cup {<<0>>}
      /\ UNCHANGED <<g, regs, pal, put, effect>>
  <2>1. (TableSpriteGen(g.mode, 0) - g.gen) \div 2048 = 0
    BY <1>0
  <2> QED
    BY <1>1, <2>1 DEF SetSpritePattern
<1>3. /\ PatternAt \in DOMAIN vmem' /\ vmem'[PatternAt] = Pattern
      /\ \A ad \in DOMAIN vmem : ad \notin {PatternAt} => ad \in DOMAIN vmem' /\ vmem'[ad] = vmem[ad]
  BY <1>2, Zenon DEF Write
<1>4. \A p \in SprTables, k \in Layers : put[p][k] # NoSprite => AttrAt(p, k) \notin {PatternAt}
  BY <1>0, Apart
<1>5. SprTypes' /\ ViewInv' /\ PaletteInv' /\ SpriteInv'
  <2>1. UNCHANGED <<g, regs, pal, put, effect>>
    BY <1>2
  <2> QED
    BY <1>3, <1>4, <2>1, SpritesKept, Zenon
<1>6. ColourInv'
  <2> SUFFICES ASSUME NEW p \in SprTables, NEW k \in Layers, <<p, k>> \in made'
               PROVE  Mode2(g'.mode) /\ ColourAt(p, k)' \in DOMAIN vmem' /\ vmem'[ColourAt(p, k)'] = Tint
    BY Zenon DEF ColourInv
  <2>1. <<p, k>> \in made
    <3>1. <<p, k>> # <<0>>
      OBVIOUS
    <3> QED
      BY <1>2, <3>1, Zenon
  <2>2. ColourAt(p, k) \notin {PatternAt}
    <3>1. Mode2(g.mode)
      BY <2>1, Zenon DEF SprInv, ColourInv
    <3> QED
      BY <1>0, <3>1, Apart
  <2> QED
    BY <1>0, <1>3, <2>1, <2>2, ColoursKept, Zenon
<1>7. PatternInv'
  <2>1. PatternAt' = PatternAt
    BY <1>0, Zenon DEF PatternAt
  <2> QED
    BY <1>3, <2>1, Zenon DEF PatternInv
<1> QED
  BY <1>5, <1>6, <1>7, Zenon DEF SprInv

(* The picture's lines are below the tables.                               *)
LEMMA LineKeeps ==
  ASSUME SprInv, NEW sy \in SprLines, SprWriteLine(sy) PROVE SprInv'
<1> DEFINE row == IF g.mode = 6 THEN 128 ELSE 256
           Z == (sy * row)..(sy * row + row - 1)
<1>0. g.mode \in SprModes /\ Mode2(g.mode) /\ UNCHANGED <<g, regs, pal, put, made, effect>>
  BY Zenon DEF SprInv, SprTypes, SprWriteLine
<1>1. \A ad \in DOMAIN vmem : ad \notin Z => ad \in DOMAIN vmem' /\ vmem'[ad] = vmem[ad]
  BY Zenon DEF SprWriteLine, Overwrite
<1>2. row \in Nat /\ sy \in Nat
  BY Modes_
<1>3. \A p \in SprTables, l \in Layers : AttrAt(p, l) \notin Z /\ ColourAt(p, l) \notin Z
  <2> SUFFICES ASSUME NEW p \in SprTables, NEW l \in Layers
               PROVE  AttrAt(p, l) \notin Z /\ ColourAt(p, l) \notin Z
    BY Zenon
  <2>1. sy * row + row - 1 < ColourAt(p, l) /\ sy * row + row - 1 < AttrAt(p, l)
    BY <1>0, Apart
  <2> QED
    BY <1>2, <2>1
<1>4. PatternAt \notin Z
  BY <1>0, Modes_, Gens DEF PatternAt, Mode2
<1> HIDE DEF Z
<1>5. SprTypes' /\ ViewInv' /\ PaletteInv' /\ SpriteInv'
  <2>1. UNCHANGED <<g, regs, pal, put, effect>>
    BY <1>0
  <2>2. \A p \in SprTables, l \in Layers : put[p][l] # NoSprite => AttrAt(p, l) \notin Z
    BY <1>3
  <2> QED
    BY <1>1, <2>1, <2>2, SpritesKept, Zenon
<1>6. ColourInv'
  <2> SUFFICES ASSUME NEW p \in SprTables, NEW l \in Layers, <<p, l>> \in made'
               PROVE  Mode2(g'.mode) /\ ColourAt(p, l)' \in DOMAIN vmem' /\ vmem'[ColourAt(p, l)'] = Tint
    BY Zenon DEF ColourInv
  <2>1. <<p, l>> \in made /\ g' = g
    BY <1>0
  <2> QED
    BY <1>1, <1>3, <2>1, ColoursKept, Zenon
<1>7. PatternInv'
  <2>1. g' = g /\ (PatternMade' => PatternMade)
    BY <1>0 DEF PatternMade
  <2> QED
    BY <1>1, <1>4, <2>1, PatternKept, Zenon
<1> QED
  BY <1>5, <1>6, <1>7, Zenon DEF SprInv

(* Only the palette, and what became of it, changes.                       *)
LEMMA PaletteChanges ==
  ASSUME SprInv, UNCHANGED <<g, regs, vmem, put, made>>,
         pal' \in [own : [Entries -> Nat], hw : [Entries -> Nat]],
         effect' \in [kind : Kinds, since : SUBSET Entries], PaletteInv'
  PROVE  SprInv'
<1>1. SprTypes'
  BY Zenon DEF SprInv, SprTypes
<1>2. ViewInv'
  BY DEF SprInv, ViewInv, Views
<1> QED
  BY <1>1, <1>2, HeldStays DEF SprInv

LEMMA SetPaletteKeeps ==
  ASSUME SprInv, NEW no \in Entries, NEW tint \in Colours, SetPalette(no, tint) PROVE SprInv'
<1> DEFINE v == Packed(tint)
<1>0. /\ pal' = [own |-> [pal.own EXCEPT ![no] = v], hw |-> [pal.hw EXCEPT ![no] = v]]
      /\ effect' = [effect EXCEPT !.since = @ \cup {no}]
      /\ UNCHANGED <<g, regs, vmem, put, made>>
  BY Zenon DEF SetPalette
<1>1. v \in Nat /\ Digits(v)
  <2>1. tint.r \in 0..7 /\ tint.g \in 0..7 /\ tint.b \in 0..7
    <3>1. tint \in [r : 0..7, g : 0..7, b : 0..7]
      BY SpriteAssumption, Zenon
    <3> QED
      BY <3>1, Zenon
  <2> QED
    BY <2>1, Digit3 DEF Packed, Digits
<1> HIDE DEF v
<1>2. /\ pal \in [own : [Entries -> Nat], hw : [Entries -> Nat]]
      /\ effect \in [kind : Kinds, since : SUBSET Entries]
  BY DEF SprInv, SprTypes
<1>3. /\ pal' \in [own : [Entries -> Nat], hw : [Entries -> Nat]]
      /\ pal'.own[no] = v /\ pal'.hw[no] = v
      /\ \A n \in Entries : n # no => pal'.own[n] = pal.own[n] /\ pal'.hw[n] = pal.hw[n]
  BY <1>0, <1>1, <1>2
<1>4. /\ effect' \in [kind : Kinds, since : SUBSET Entries]
      /\ effect'.kind = effect.kind /\ no \in effect'.since
      /\ \A n \in Entries : n # no => (n \in effect'.since <=> n \in effect.since)
  BY <1>0, <1>2
<1>5. PaletteInv'
  <2> SUFFICES ASSUME NEW n \in Entries
               PROVE  /\ Digits(pal'.own[n])
                      /\ Effected(IF n \in effect'.since THEN "none" ELSE effect'.kind, pal'.own[n], pal'.hw[n])
    BY Zenon DEF PaletteInv, EntryOK, Digits, Effected, Near, Luma, Parts
  <2>1. CASE n = no
    <3>1. Effected("none", v, v)
      BY DEF Effected
    <3> QED
      BY <1>1, <1>3, <1>4, <2>1, <3>1, Zenon
  <2>2. CASE n # no
    <3>1. EntryOK(n)
      BY Zenon DEF SprInv, PaletteInv
    <3> QED
      BY <1>3, <1>4, <2>2, <3>1, Zenon DEF EntryOK
  <2> QED
    BY <2>1, <2>2
<1> QED
  BY <1>0, <1>3, <1>4, <1>5, PaletteChanges, Zenon

LEMMA ResetKeeps ==
  ASSUME SprInv, ResetPalette PROVE SprInv'
<1>1. /\ pal' = [own |-> [n \in Entries |-> Init16(n)], hw |-> [n \in Entries |-> Init16(n)]]
      /\ effect' = [kind |-> "none", since |-> {}]
      /\ UNCHANGED <<g, regs, vmem, put, made>>
  BY Zenon DEF ResetPalette
<1>2. \A n \in Entries : Init16(n) \in Nat /\ Digits(Init16(n))
  <2>1. \A n \in Entries : n \in 0..15
    BY SpriteAssumption, Zenon
  <2> QED
    BY <2>1, Initial16, Zenon
<1>3. /\ pal' \in [own : [Entries -> Nat], hw : [Entries -> Nat]]
      /\ \A n \in Entries : Digits(pal'.own[n]) /\ pal'.hw[n] = pal'.own[n]
  BY <1>1, <1>2
<1>4. effect' \in [kind : Kinds, since : SUBSET Entries]
  BY <1>1 DEF Kinds
<1>5. PaletteInv'
  BY <1>1, <1>3 DEF PaletteInv, EntryOK, Effected, Digits
<1> QED
  BY <1>1, <1>3, <1>4, <1>5, PaletteChanges, Zenon

(* An effect changes the video processor's palette only: entry n to E(n).  *)
LEMMA EffectKeeps ==
  ASSUME SprInv, NEW hw \in [Entries -> Nat], NEW kind \in Kinds,
         pal' = Shows(hw), effect' = [kind |-> kind, since |-> {}],
         UNCHANGED <<g, regs, vmem, put, made>>,
         \A n \in Entries : Effected(kind, pal.own[n], hw[n])
  PROVE  SprInv'
<1>1. /\ pal' \in [own : [Entries -> Nat], hw : [Entries -> Nat]]
      /\ pal'.own = pal.own /\ pal'.hw = hw
  BY DEF SprInv, SprTypes, Shows
<1>2. effect' \in [kind : Kinds, since : SUBSET Entries] /\ effect'.kind = kind /\ effect'.since = {}
  OBVIOUS
<1>3. PaletteInv'
  <2> SUFFICES ASSUME NEW n \in Entries
               PROVE  /\ Digits(pal'.own[n])
                      /\ Effected(IF n \in effect'.since THEN "none" ELSE effect'.kind, pal'.own[n], pal'.hw[n])
    BY Zenon DEF PaletteInv, EntryOK, Digits, Effected, Near, Luma, Parts
  <2>1. Digits(pal.own[n])
    BY Zenon DEF SprInv, PaletteInv, EntryOK
  <2>2. (IF n \in effect'.since THEN "none" ELSE effect'.kind) = kind
    BY <1>2
  <2> QED
    BY <1>1, <2>1, <2>2, Zenon
<1> QED
  BY <1>1, <1>2, <1>3, PaletteChanges, Zenon

LEMMA MuteKeeps ==
  ASSUME SprInv, NEW on \in BOOLEAN, SetPaletteMute(on) PROVE SprInv'
<1> DEFINE hw == [n \in Entries |-> IF on THEN 0 ELSE pal.own[n]]
           kind == IF on THEN "mute" ELSE "none"
<1>1. /\ pal' = Shows(hw) /\ effect' = [kind |-> kind, since |-> {}]
      /\ UNCHANGED <<g, regs, vmem, put, made>>
  BY Zenon DEF SetPaletteMute
<1>2. pal.own \in [Entries -> Nat]
  BY DEF SprInv, SprTypes
<1>3. hw \in [Entries -> Nat] /\ kind \in Kinds
  BY <1>2 DEF Kinds
<1>4. \A n \in Entries : Effected(kind, pal.own[n], hw[n])
  BY DEF Effected
<1> HIDE DEF hw, kind
<1> QED
  BY <1>1, <1>3, <1>4, EffectKeeps, Zenon

LEMMA MonoKeeps ==
  ASSUME SprInv, NEW m \in 0..4, SetPaletteMono(m) PROVE SprInv'
<1> DEFINE hw == [n \in Entries |-> IF m = 0 THEN pal.own[n] ELSE Mono(m, pal.own[n])]
           kind == <<"none", "amber", "green", "redblue", "white">>[m + 1]
<1>1. /\ pal' = Shows(hw) /\ effect' = [kind |-> kind, since |-> {}]
      /\ UNCHANGED <<g, regs, vmem, put, made>>
  BY Zenon DEF SetPaletteMono
<1>2. pal.own \in [Entries -> Nat] /\ \A n \in Entries : Digits(pal.own[n])
  BY DEF SprInv, SprTypes, PaletteInv, EntryOK
<1>3. kind \in Kinds
  BY DEF Kinds
<1>4. ASSUME NEW n \in Entries
      PROVE  hw[n] \in Nat /\ Effected(kind, pal.own[n], hw[n])
  <2>1. CASE m = 0
    <3>1. kind = "none" /\ hw[n] = pal.own[n]
      BY <2>1
    <3> QED
      BY <1>2, <3>1 DEF Effected
  <2>2. CASE m # 0
    <3>1. m \in 1..4 /\ hw[n] = Mono(m, pal.own[n])
      BY <2>2
    <3>2. Effected(kind, pal.own[n], Mono(m, pal.own[n]))
      BY <1>2, <3>1, Greys
    <3>3. Mono(m, pal.own[n]) \in Nat
      <4>1. ASSUME NEW v, Digits(v) PROVE Mono(m, v) \in Nat
        <5>1. v \in Nat
          BY <4>1 DEF Digits
        <5> DEFINE sy == (((v \div 16) % 8) * 299 + ((v \div 256) % 8) * 587 + (v % 8) * 114 + 500) \div 1000
        <5>2. sy \in Nat
          BY <5>1
        <5>3. Mono(m, v) = CASE m = 1 -> sy * 16 + (sy \div 2) * 256
                             [] m = 2 -> sy * 256
                             [] m = 3 -> sy + (sy \div 2) * 16
                             [] OTHER -> sy * 273
          BY Zenon DEF Mono
        <5> HIDE DEF sy
        <5> QED
          BY <5>2, <5>3
      <4> QED
        BY <1>2, <4>1
    <3> QED
      BY <3>1, <3>2, <3>3
  <2> QED
    BY <2>1, <2>2
<1>5. hw \in [Entries -> Nat]
  BY <1>4
<1> HIDE DEF hw, kind
<1> QED
  BY <1>1, <1>3, <1>4, <1>5, EffectKeeps, Zenon

LEMMA SprNextKeeps == SprInv /\ [SprNext]_sprVars => SprInv'
<1> SUFFICES ASSUME SprInv, [SprNext]_sprVars PROVE SprInv'
  OBVIOUS
<1>1. CASE UNCHANGED sprVars
  <2>1. UNCHANGED <<g, regs, pal, vmem, put, made, effect>>
    BY <1>1 DEF sprVars
  <2> QED
    BY <2>1, HeldStays, PaletteStays DEF SprInv, SprTypes, ViewInv, Views
<1>2. CASE SprCall
  <2>0. \A l \in Layers : l % 16 \in Nat
    BY Modes_
  <2> QED
    BY <1>2, <2>0, ScreenKeeps, ViewKeeps, ActiveKeeps, GenViewKeeps, OtherFieldKeeps, SpritePutKeeps, ClearKeeps,
       ColourKeeps, PatternKeeps, LineKeeps, SetPaletteKeeps, ResetKeeps, MuteKeeps, MonoKeeps, Zenon DEF SprCall
<1> QED
  BY <1>1, <1>2 DEF SprNext

(***************************************************************************)
(* What is shown                                                           *)
(***************************************************************************)
LEMMA SprShows == SprInv => SpritesShown
<1> SUFFICES ASSUME SprInv PROVE SpritesShown
  OBVIOUS
<1>0. g.mode \in SprModes
  BY DEF SprInv, SprTypes
<1>1. PICK p \in SprTables : Views(p)
  BY DEF SprInv, ViewInv
<1>2. HwAttr = TableSpriteAttr(g.mode, p)
  BY <1>0, <1>1, Found
<1>3. ShownTable = {p}
  <2>1. \A q \in SprTables : TableSpriteAttr(g.mode, q) = TableSpriteAttr(g.mode, p) => q = p
    BY <1>0, Modes_, Attrs
  <2> QED
    BY <1>2, <2>1 DEF ShownTable
<1>4. Cardinality(ShownTable) = 1
  BY <1>3, FS_Singleton
<1>5. ASSUME NEW l \in Layers
      PROVE  LET want == put[p][l]
                 a == HwAttr + 4 * l
             IN /\ want # NoSprite =>
                     /\ a \in DOMAIN vmem /\ vmem[a].kind = "sprite"
                     /\ vmem[a].x = want.x /\ vmem[a].no = want.no % 256 /\ vmem[a].c = want.colour
                     /\ (vmem[a].y + 1 + 512 - want.scroll - want.line) % 256 \in {0, 1}
                     /\ Mode2(g.mode) => vmem[a].y # EndOfList
                /\ <<p, l>> \in made => vmem[HwColour + 16 * l] = Tint
  <2>1. HwAttr + 4 * l = AttrAt(p, l) /\ HwColour + 16 * l = ColourAt(p, l)
    BY <1>2, Zenon DEF AttrAt, ColourAt, HwColour
  <2>2. Mode2(g.mode) => EndOfList = 216
    BY DEF EndOfList
  <2>3. put[p][l] # NoSprite => AttrAt(p, l) \in DOMAIN vmem /\ Stands(vmem[AttrAt(p, l)], put[p][l])
    BY Zenon DEF SprInv, SpriteInv
  <2>4. <<p, l>> \in made => vmem[ColourAt(p, l)] = Tint
    BY Zenon DEF SprInv, ColourInv
  <2> QED
    BY <2>1, <2>2, <2>3, <2>4 DEF Stands
<1>6. ASSUME NEW q \in GenTables, <<q>> \in made, TableSpriteGen(g.mode, q) = regs.r6 * 2048
      PROVE  vmem[regs.r6 * 2048 + 64] = Pattern
  <2>1. q = 0
    BY SpriteAssumption
  <2>2. PatternInv
    BY DEF SprInv
  <2> QED
    BY <1>6, <2>1, <2>2 DEF PatternInv, PatternMade, PatternAt
<1>7. ASSUME NEW n \in Entries
      PROVE  /\ Effected(IF n \in effect.since THEN "none" ELSE effect.kind, pal.own[n], pal.hw[n])
             /\ LET rgb == Parts(pal.own[n]) IN GetPalette(n) = rgb.r * 256 + rgb.g * 16 + rgb.b
  <2>1. EntryOK(n)
    BY DEF SprInv, PaletteInv
  <2>2. PICK r \in 0..7, gr \in 0..7, bl \in 0..7 : pal.own[n] = gr * 256 + r * 16 + bl
    BY <2>1 DEF EntryOK, Digits
  <2>3. LET v == pal.own[n] IN v \div 256 = gr /\ (v \div 16) % 16 = r /\ v % 16 = bl /\ (v \div 256) % 16 = gr
    BY <2>2, Digit3
  <2>4. LET rgb == Parts(pal.own[n]) IN GetPalette(n) = rgb.r * 256 + rgb.g * 16 + rgb.b
    BY <2>3 DEF Parts, GetPalette
  <2> QED
    BY <2>1, <2>4, Zenon DEF EntryOK
<1>8. \A q \in ShownTable : q = p
  BY <1>3
<1> QED
  BY <1>4, <1>5, <1>6, <1>7, <1>8 DEF SpritesShown

(* The table shown holds the sprites, colours and patterns put there, and  *)
(* the palette shown is the program's under its last effect.               *)
THEOREM SpritesTheorem == SprSpec => []SpritesShown
<1>1. SprInit => SprInv
  BY SprInitial
<1>2. SprInv /\ [SprNext]_sprVars => SprInv'
  BY SprNextKeeps
<1>3. SprInv => SpritesShown
  BY SprShows
<1> QED
  BY <1>1, <1>2, <1>3, PTL DEF SprSpec

-----------------------------------------------------------------------------
(***************************************************************************)
(* Quotients and remainders.                                               *)
(***************************************************************************)
LEMMA QuotientOf ==
  ASSUME NEW m \in Nat, m > 0, NEW q \in Int, NEW r \in 0..m - 1
  PROVE  (q * m + r) \div m = q /\ (q * m + r) % m = r
<1> DEFINE n == q * m + r
           d == n \div m
           e == n % m
<1>1. n \in Int
  OBVIOUS
<1>2. n = m * d + e /\ e \in 0..m - 1 /\ d \in Int
  <2> HIDE DEF n
  <2> QED
    BY <1>1
<1>3. q * m + r = m * d + e
  BY <1>2
<1> HIDE DEF n, d, e
<1>4. (q - d) * m = e - r /\ q - d \in Int
  BY <1>2, <1>3
<1> DEFINE k == q - d
<1>5. k \in Int /\ k * m = e - r
  BY <1>4
<1> HIDE DEF k
<1>6. k >= 1 => k * m >= m
  BY <1>5
<1>7. k <= -1 => k * m <= -m
  BY <1>5
<1>8. k = 0
  BY <1>2, <1>5, <1>6, <1>7
<1>9. q = d
  BY <1>2, <1>8 DEF k
<1>10. r = e
  BY <1>2, <1>5, <1>8
<1> QED
  BY <1>9, <1>10 DEF d, e, n

LEMMA DivisionOf ==
  ASSUME NEW m \in Nat, m > 0, NEW n \in Nat
  PROVE  n \div m \in Nat /\ n % m \in 0..m - 1 /\ n = (n \div m) * m + (n % m)
<1>1. n \div m \in Int /\ n % m \in 0..m - 1
  OBVIOUS
<1>2. n = m * (n \div m) + (n % m)
  OBVIOUS
<1> DEFINE d == n \div m
           e == n % m
<1>3. d \in Int /\ e \in 0..m - 1 /\ n = d * m + e
  BY <1>1, <1>2
<1> HIDE DEF d, e
<1>4. d <= -1 => d * m <= -m
  BY <1>3
<1>5. d >= 0
  BY <1>3, <1>4
<1> QED
  BY <1>3, <1>5 DEF d, e

(***************************************************************************)
(* Loading.  Rows are drawn from the top, Depth lines of the buffer at a   *)
(* time; pos is where the next row is in the file.                         *)
(***************************************************************************)
Depth == Shared \div job.wide
Aligned == Shared % job.wide = 0

JobOK ==
  /\ job.kind \in {"load_ge5_pic", "load_ge5_pat", "romload_ge5_pic", "romload_ge5_pat"}
  /\ job.wide \in 1..RowBytes /\ job.high \in Nat /\ job.start \in Starts
  /\ ~Rows => job.wide = RowBytes

Loaded ==
  \A row \in 0..y - 1, column \in 0..job.wide - 1 :
    row < job.high => vram[Place(row, column)] = Data + row * job.wide + column + 1
Within ==
  \A a \in VramBytes :
    vram[a] # 0 => \E row \in 0..y - 1, column \in 0..job.wide - 1 : a = Place(row, column)

LoadingOK ==
  /\ lines = Depth /\ pos \in Nat
  /\ \E k \in Nat : y = k * Depth
  /\ (job.high % Depth = 0) => y <= job.high
  /\ (y <= job.high /\ Aligned) => pos = Data + y * job.wide
DoneOK ==
  /\ Drawn <= y
  /\ (job.high % Depth = 0 \/ job.high >= ScreenLines) => y <= Drawn
PaletteOK ==
  (palette[0] # 0 /\ (job.kind = "load_ge5_pic" \/ job.wide * job.high < 32768)) =>
    palette[PalBytes - 1] = FileBytes(job, Data)

GrcInv ==
  /\ stage \in {"idle", "load", "done"} /\ DOMAIN vram = VramBytes /\ y \in 0..ScreenLines
  /\ stage = "idle" => y = 0 /\ \A a \in VramBytes : vram[a] = 0
  /\ stage # "done" => palette[0] = 0
  /\ stage # "idle" => JobOK /\ Within /\ (Aligned => Loaded)
  /\ stage = "load" => LoadingOK
  /\ stage = "done" => DoneOK
  /\ PaletteOK

LEMMA Sized ==
  /\ RowBytes \in Nat /\ RowBytes > 0 /\ Shared \in Nat /\ Shared >= RowBytes /\ ScreenLines \in Nat
  /\ Starts \subseteq Nat
<1>1. RowBytes \in Nat /\ RowBytes > 0 /\ Shared \in Nat /\ Shared > 0 /\ ScreenLines \in Nat /\ Shared % RowBytes = 0 /\ Starts \subseteq Nat
  BY GrcAssumption
<1> DEFINE q == Shared \div RowBytes
<1>2. q \in Nat /\ Shared = q * RowBytes
  BY <1>1, DivisionOf
<1> HIDE DEF q
<1>3. q # 0
  BY <1>1, <1>2
<1>4. q * RowBytes >= RowBytes
  BY <1>1, <1>2, <1>3
<1> QED
  BY <1>1, <1>2, <1>4

LEMMA JobIs ==
  ASSUME JobOK
  PROVE  /\ job.wide \in Nat /\ job.wide > 0 /\ job.wide <= RowBytes /\ job.high \in Nat /\ job.start \in Nat
         /\ ~Rows => job.wide = RowBytes
<1>1. job.start \in Nat
  BY Sized DEF JobOK
<1>2. job.wide \in Nat /\ job.wide > 0 /\ job.wide <= RowBytes
  BY Sized DEF JobOK
<1> QED
  BY <1>1, <1>2 DEF JobOK

LEMMA DepthIs ==
  ASSUME JobOK
  PROVE  /\ Depth \in Nat /\ Depth >= 1 /\ Depth * job.wide \in Nat /\ Depth * job.wide <= Shared
         /\ Aligned => Depth * job.wide = Shared
         /\ ~Rows => Aligned
<1> DEFINE w == job.wide
           d == Depth
           r == Shared % w
<1>1. w \in Nat /\ w > 0 /\ w <= RowBytes /\ (~Rows => w = RowBytes)
  BY Sized DEF JobOK
<1>2. d \in Nat /\ r \in 0..w - 1 /\ Shared = d * w + r
  BY <1>1, Sized, DivisionOf DEF Depth
<1> HIDE DEF w, d, r
<1>3. d # 0
  <2>1. d = 0 => d * w = 0
    BY <1>1, <1>2
  <2> QED
    BY <1>1, <1>2, <2>1, Sized
<1>4. d * w \in Nat
  BY <1>1, <1>2
<1>5. ~Rows => Aligned
  BY <1>1, GrcAssumption DEF Aligned, w
<1>6. d >= 1 /\ d * w <= Shared /\ (r = 0 => d * w = Shared)
  BY <1>1, <1>2, <1>3, <1>4, Sized
<1> QED
  BY <1>2, <1>4, <1>5, <1>6 DEF d, w, r, Aligned

(* Addresses of rows.                                                      *)
LEMMA PlaceIs ==
  ASSUME JobOK, NEW row \in 0..ScreenLines - 1, NEW column \in 0..job.wide - 1
  PROVE  Place(row, column) \in VramBytes /\ column \in 0..RowBytes - 1
<1>1. column \in 0..RowBytes - 1 /\ row \in Nat /\ column \in Nat /\ row <= ScreenLines
  BY Sized DEF JobOK
<1>2. row * RowBytes <= ScreenLines * RowBytes /\ row * RowBytes \in Nat /\ ScreenLines * RowBytes \in Nat
  BY <1>1, Sized
<1>3. (ScreenLines + 2) * RowBytes = ScreenLines * RowBytes + 2 * RowBytes
  BY Sized
<1> DEFINE rel == row * RowBytes + column
           size == (ScreenLines + 2) * RowBytes
<1>4. rel \in 0..size
  BY <1>1, <1>2, <1>3, Sized
<1>5. Place(row, column) = job.start + rel /\ job.start \in Starts
  <2>1. job.start \in Nat
    BY Sized DEF JobOK
  <2> QED
    BY <1>1, <1>2, <2>1 DEF Place, JobOK
<1> HIDE DEF rel, size
<1>6. \A j \in 0..size : job.start + j \in VramBytes
  BY <1>5 DEF VramBytes, size
<1> QED
  BY <1>1, <1>4, <1>5, <1>6

LEMMA InVram == ASSUME NEW a \in VramBytes PROVE a \in Nat
<1>1. PICK from \in Starts, rel \in 0..(ScreenLines + 2) * RowBytes : a = from + rel
  BY DEF VramBytes
<1>2. (ScreenLines + 2) * RowBytes \in Nat
  BY Sized
<1> QED
  BY <1>1, <1>2, Sized

(* What a pass of n rows copies.                                           *)
LEMMA CopiesRow ==
  ASSUME JobOK, y \in Nat, NEW n \in Nat, NEW bytes \in Nat, n * job.wide <= bytes, NEW from,
         NEW row \in 0..n - 1, NEW column \in 0..job.wide - 1, y + n <= ScreenLines
  PROVE  /\ Place(y + row, column) \in VramBytes
         /\ Copied(bytes, n, from)[Place(y + row, column)] = from[row * job.wide + column]
<1> DEFINE a == Place(y + row, column)
           w == job.wide
           rel == a - job.start - y * RowBytes
           j == row * w + column
<1>1. a \in VramBytes /\ column \in 0..RowBytes - 1 /\ column \in Nat /\ row \in Nat /\ row < n
  BY PlaceIs, Sized
<1>2. w \in Nat /\ w > 0 /\ job.start \in Nat /\ (~Rows => w = RowBytes)
  BY JobIs
<1>3. rel = row * RowBytes + column /\ row * RowBytes \in Nat
  <2>1. a = job.start + (y + row) * RowBytes + column
    BY DEF Place
  <2>2. (y + row) * RowBytes = y * RowBytes + row * RowBytes /\ y * RowBytes \in Nat /\ row * RowBytes \in Nat
    BY <1>1, Sized
  <2> QED
    BY <1>1, <1>2, <2>1, <2>2
<1>4. rel \div RowBytes = row /\ rel % RowBytes = column /\ rel \in Nat
  BY <1>1, <1>3, Sized, QuotientOf
<1>5. j \in Nat /\ j < bytes
  <2>1. row * w <= (n - 1) * w /\ row * w \in Nat
    BY <1>1, <1>2
  <2>2. (n - 1) * w = n * w - w /\ n * w \in Nat
    BY <1>2
  <2> QED
    BY <1>1, <1>2, <2>1, <2>2
<1>6. ~Rows => rel = j /\ rel \in 0..bytes - 1
  BY <1>2, <1>3, <1>4, <1>5
<1>7. Rows => rel >= 0 /\ rel \div RowBytes < n /\ rel % RowBytes < w /\ (rel \div RowBytes) * w + (rel % RowBytes) = j
  BY <1>1, <1>2, <1>4
<1>8. Copied(bytes, n, from)[a] =
        CASE ~Rows /\ rel \in 0..bytes - 1 -> from[rel]
          [] Rows /\ rel >= 0 /\ rel \div RowBytes < n /\ rel % RowBytes < job.wide ->
               from[(rel \div RowBytes) * job.wide + (rel % RowBytes)]
          [] OTHER -> vram[a]
  BY <1>1 DEF Copied
<1> HIDE DEF a, w, rel, j
<1>9. Copied(bytes, n, from)[a] = from[j]
  <2>1. CASE Rows
    BY <1>7, <1>8, <2>1 DEF w
  <2>2. CASE ~Rows
    BY <1>6, <1>8, <2>2
  <2> QED
    BY <2>1, <2>2
<1> QED
  BY <1>1, <1>9 DEF a, j, w

(* It leaves the rows above as they are.                                   *)
LEMMA KeepsAbove ==
  ASSUME JobOK, y \in 0..ScreenLines, NEW n \in Nat, NEW bytes \in Nat, NEW from,
         NEW row \in 0..y - 1, NEW column \in 0..job.wide - 1
  PROVE  Copied(bytes, n, from)[Place(row, column)] = vram[Place(row, column)]
<1> DEFINE a == Place(row, column)
           rel == a - job.start - y * RowBytes
<1>1. a \in VramBytes /\ column \in 0..RowBytes - 1 /\ row \in Nat /\ row <= y - 1 /\ y \in Nat /\ job.start \in Nat
  <2>1. row \in 0..ScreenLines - 1
    BY Sized
  <2>2. a \in VramBytes /\ column \in 0..RowBytes - 1
    BY <2>1, PlaceIs
  <2> QED
    BY <2>1, <2>2, JobIs, Sized
<1>2. row * RowBytes <= (y - 1) * RowBytes /\ row * RowBytes \in Nat
  BY <1>1, Sized
<1>3. (y - 1) * RowBytes = y * RowBytes - RowBytes /\ y * RowBytes \in Nat
  BY <1>1, Sized
<1>4. a = job.start + row * RowBytes + column
  BY DEF Place
<1>5. rel < 0 /\ rel \in Int
  BY <1>1, <1>2, <1>3, <1>4, Sized
<1>6. Copied(bytes, n, from)[a] =
        CASE ~Rows /\ rel \in 0..bytes - 1 -> from[rel]
          [] Rows /\ rel >= 0 /\ rel \div RowBytes < n /\ rel % RowBytes < job.wide ->
               from[(rel \div RowBytes) * job.wide + (rel % RowBytes)]
          [] OTHER -> vram[a]
  BY <1>1 DEF Copied
<1> HIDE DEF a, rel
<1>7. ~(rel \in 0..bytes - 1) /\ ~(rel >= 0)
  BY <1>5
<1>8. Copied(bytes, n, from)[a] = vram[a]
  BY <1>6, <1>7, Zenon
<1> QED
  BY <1>8 DEF a

(* Nothing but those rows changes, if a picture's bytes are whole rows.    *)
LEMMA CopiesOnly ==
  ASSUME JobOK, y \in Nat, NEW n \in Nat, NEW bytes \in Nat, ~Rows => bytes = n * RowBytes, NEW from,
         NEW a \in VramBytes, Copied(bytes, n, from)[a] # vram[a]
  PROVE  \E row \in 0..n - 1, column \in 0..job.wide - 1 : a = Place(y + row, column)
<1> DEFINE rel == a - job.start - y * RowBytes
           row == rel \div RowBytes
           column == rel % RowBytes
<1>1. a \in Nat /\ job.start \in Nat /\ y * RowBytes \in Nat /\ (~Rows => job.wide = RowBytes)
  <2>1. y * RowBytes \in Nat
    BY Sized
  <2> QED
    BY <2>1, InVram, JobIs
<1>2. Copied(bytes, n, from)[a] =
        CASE ~Rows /\ rel \in 0..bytes - 1 -> from[rel]
          [] Rows /\ rel >= 0 /\ rel \div RowBytes < n /\ rel % RowBytes < job.wide ->
               from[(rel \div RowBytes) * job.wide + (rel % RowBytes)]
          [] OTHER -> vram[a]
  BY DEF Copied
<1>3. (~Rows /\ rel \in 0..bytes - 1) \/ (Rows /\ rel >= 0 /\ row < n /\ column < job.wide)
  BY <1>2, Zenon
<1>4. rel \in Nat
  BY <1>1, <1>3
<1>5. row \in Nat /\ column \in 0..RowBytes - 1 /\ rel = row * RowBytes + column
  BY <1>4, Sized, DivisionOf
<1>6. row < n /\ column < job.wide
  <2>1. CASE Rows
    BY <1>3, <2>1
  <2>2. CASE ~Rows
    <3>1. rel < n * RowBytes /\ job.wide = RowBytes
      BY <1>1, <1>3, <2>2
    <3> HIDE DEF rel, row, column
    <3>2. row >= n => row * RowBytes >= n * RowBytes
      BY <1>5, Sized
    <3>3. n * RowBytes \in Nat /\ row * RowBytes \in Nat
      BY <1>5, Sized
    <3> QED
      BY <1>4, <1>5, <3>1, <3>2, <3>3, Sized
  <2> QED
    BY <2>1, <2>2
<1>7. a = Place(y + row, column)
  <2>1. (y + row) * RowBytes = y * RowBytes + row * RowBytes /\ row * RowBytes \in Nat
    BY <1>5, Sized
  <2>2. a = job.start + y * RowBytes + rel
    BY <1>1
  <2> HIDE DEF rel, row, column
  <2> QED
    BY <1>1, <1>5, <2>1, <2>2 DEF Place
<1>8. row \in 0..n - 1 /\ column \in 0..job.wide - 1
  <2> HIDE DEF row, column
  <2>1. job.wide \in Nat
    BY Sized DEF JobOK
  <2> QED
    BY <1>5, <1>6, <2>1, Sized
<1> QED
  BY <1>7, <1>8
-----------------------------------------------------------------------------
JobSized == Depth \in Nat /\ Depth >= 1 /\ job.wide \in Nat /\ job.high \in Nat

LEMMA JobIsSized == JobOK => JobSized
  BY DepthIs, JobIs DEF JobSized

LEMMA JobsOK == ASSUME job' \in Jobs PROVE JobOK'
<1>2. CASE \E at \in Starts : job' = [kind |-> "load_ge5_pic", wide |-> RowBytes, high |-> ScreenLines, start |-> at]
  BY <1>2, Sized DEF JobOK, Rows
<1>3. CASE \E w \in 1..RowBytes, h \in 1..MaxHigh, at \in Starts :
             job' = [kind |-> "load_ge5_pat", wide |-> w, high |-> h, start |-> at]
  BY <1>3, Sized, GrcAssumption DEF JobOK, Rows
<1>4. CASE \E at \in Starts : job' = [kind |-> "romload_ge5_pic", wide |-> RowBytes, high |-> RomPic, start |-> at]
  BY <1>4, Sized, GrcAssumption DEF JobOK, Rows
<1>5. CASE \E at \in Starts : job' = [kind |-> "romload_ge5_pat", wide |-> RomPatRow, high |-> RomPat, start |-> at]
  BY <1>5, Sized, GrcAssumption DEF JobOK, Rows
<1> QED
  BY <1>2, <1>3, <1>4, <1>5 DEF Jobs

LEMMA GrcInitial == GrcInit => GrcInv
<1> SUFFICES ASSUME GrcInit PROVE GrcInv
  OBVIOUS
<1>1. palette[0] = 0
  BY DEF GrcInit, PalBytes
<1>2. DOMAIN vram = VramBytes /\ \A a \in VramBytes : vram[a] = 0
  BY DEF GrcInit
<1> QED
  BY <1>1, <1>2, Sized DEF GrcInit, GrcInv, PaletteOK

LEMMA OpenKeeps == ASSUME GrcInv, Open PROVE GrcInv'
<1>1. stage = "idle" /\ job' \in Jobs /\ lines' = Shared \div job'.wide /\ pos' = Data' /\ stage' = "load"
      /\ UNCHANGED <<y, buffer, vram, palette>>
  BY DEF Open
<1>2. y = 0 /\ (\A a \in VramBytes : vram[a] = 0) /\ palette[0] = 0 /\ DOMAIN vram = VramBytes
  BY <1>1 DEF GrcInv
<1>3. JobOK'
  BY <1>1, JobsOK
<1>4. Depth' \in Nat /\ Depth' >= 1 /\ job'.wide \in Nat /\ job'.high \in Nat
  <2>1. JobSized'
    BY <1>3, JobIsSized, PTL
  <2> QED
    BY <2>1 DEF JobSized
<1>5. Within' /\ Loaded'
  <2>1. y' = 0 /\ (\A a \in VramBytes : vram'[a] = 0) /\ 0..0 - 1 = {}
    BY <1>1, <1>2
  <2>2. Within'
    BY <2>1 DEF Within
  <2>3. \A row \in 0..y' - 1 : FALSE
    BY <2>1
  <2> QED
    BY <2>2, <2>3 DEF Loaded
<1>6. LoadingOK'
  <2>1. lines' = Depth'
    BY <1>1 DEF Depth
  <2> DEFINE d == Depth'
             w == job'.wide
             from == Data'
  <2>2. d \in Nat /\ w \in Nat /\ y' = 0
    BY <1>1, <1>2, <1>4
  <2>3. from \in Nat /\ pos' = from
    BY <1>1 DEF Data, PicHeader, PatHeader
  <2> HIDE DEF d, w, from
  <2>4. y' = 0 * d /\ pos' = from + y' * w
    BY <2>2, <2>3
  <2>5. \E k \in Nat : y' = k * d
    BY <2>4
  <2>6. y' <= job'.high /\ pos' \in Nat
    BY <1>4, <2>2, <2>3
  <2> QED
    BY <2>1, <2>4, <2>5, <2>6 DEF LoadingOK, d, w, from
<1> QED
  BY <1>1, <1>2, <1>3, <1>5, <1>6, Sized DEF GrcInv, PaletteOK
LEMMA CloseKeeps == ASSUME GrcInv, Close PROVE GrcInv'
<1>1. stage = "load" /\ y >= job.high /\ stage' = "done" /\ UNCHANGED <<job, y, lines, pos, buffer, vram, palette>>
  BY DEF Close
<1>2. LoadingOK /\ JobOK /\ job.high \in Nat /\ ScreenLines \in Nat /\ y \in 0..ScreenLines
  BY <1>1, JobIs, Sized DEF GrcInv
<1>3. DoneOK
  BY <1>1, <1>2 DEF DoneOK, LoadingOK, Drawn
<1> QED
  BY <1>1, <1>3 DEF GrcInv, JobOK, Rows, Within, Loaded, Place, Data, FromRom, Aligned, DoneOK, Drawn, Depth, PaletteOK

LEMMA PaletteKeeps == ASSUME GrcInv, LoadPalette PROVE GrcInv'
<1>1. /\ stage = "done" /\ ~FromRom /\ UNCHANGED <<job, y, lines, pos, buffer, vram, stage>>
      /\ palette' = [rel \in 0..PalBytes - 1 |->
                       (IF job.kind = "load_ge5_pic" THEN FileBytes(job, Data) - PalBytes
                        ELSE PatHeader + ((job.wide * job.high) % 32768)) + rel + 1]
  BY DEF LoadPalette
<1>2. JobOK
  BY <1>1 DEF GrcInv
<1> DEFINE area == job.wide * job.high
<1>3. area \in Nat
  BY <1>2, JobIs
<1>4. PaletteOK'
  <2> SUFFICES ASSUME job.kind = "load_ge5_pic" \/ area < 32768
               PROVE  palette'[PalBytes - 1] = FileBytes(job, Data)
    BY <1>1 DEF PaletteOK, FileBytes, Data, FromRom
  <2> HIDE DEF area
  <2>1. CASE job.kind = "load_ge5_pic"
    BY <1>1, <1>3, <2>1 DEF FileBytes, Data, FromRom, PalBytes, PicHeader, area
  <2>2. CASE job.kind # "load_ge5_pic" /\ area < 32768
    <3>1. area % 32768 = area
      BY <1>3, <2>2
    <3>2. palette'[PalBytes - 1] = PatHeader + area + 31 + 1
      BY <1>1, <2>2, <3>1 DEF PalBytes, area
    <3>3. FileBytes(job, Data) = PatHeader + area + 32
      BY <1>1, <2>2 DEF FileBytes, Data, PalBytes, area
    <3> QED
      BY <1>3, <3>2, <3>3 DEF PatHeader
  <2> QED
    BY <2>1, <2>2
<1> QED
  BY <1>1, <1>4 DEF GrcInv, JobOK, Rows, Within, Loaded, Place, Data, FromRom, Aligned, DoneOK, Drawn, Depth

(* A pass draws the next rows of the source, n of them.                    *)
PassRows == IF y + lines >= ScreenLines THEN ScreenLines - y ELSE lines

LEMMA PassIs ==
  ASSUME GrcInv, Pass
  PROVE  /\ stage = "load" /\ JobOK /\ LoadingOK /\ y \in 0..ScreenLines /\ y < job.high
         /\ PassRows \in Nat /\ PassRows <= Depth /\ y + PassRows <= ScreenLines
         /\ PassBytes(PassRows) \in Nat /\ PassBytes(PassRows) <= Shared
         /\ PassRows * job.wide <= PassBytes(PassRows) /\ PassRows * job.wide \in Nat
         /\ ~Rows => PassBytes(PassRows) = PassRows * RowBytes
         /\ ~(y + Depth >= ScreenLines) => PassRows = Depth /\ PassBytes(PassRows) = Shared
         /\ y + Depth >= ScreenLines => PassRows = ScreenLines - y
         /\ buffer' = Fetched(PassBytes(PassRows)) /\ pos' = FilePos(PassBytes(PassRows))
         /\ vram' = Copied(PassBytes(PassRows), PassRows, buffer')
         /\ lines' = PassRows /\ y' = y + PassRows
         /\ stage' = (IF y + Depth >= ScreenLines THEN "done" ELSE "load")
         /\ UNCHANGED <<job, palette>>
<1>1. stage = "load" /\ y < job.high /\ UNCHANGED <<job, palette>> /\ lines' = PassRows /\ y' = y + PassRows
      /\ buffer' = Fetched(PassBytes(PassRows)) /\ pos' = FilePos(PassBytes(PassRows))
      /\ vram' = Copied(PassBytes(PassRows), PassRows, buffer')
      /\ stage' = (IF y + lines >= ScreenLines THEN "done" ELSE "load")
  BY DEF Pass, PassRows
<1>2. JobOK /\ LoadingOK /\ y \in 0..ScreenLines /\ lines = Depth
  BY <1>1 DEF GrcInv, LoadingOK
<1> DEFINE n == PassRows
           d == Depth
           w == job.wide
           bytes == PassBytes(n)
<1>3. /\ d \in Nat /\ d * w <= Shared /\ d * w \in Nat /\ w \in Nat /\ ScreenLines \in Nat /\ Shared \in Nat
      /\ ~Rows => d * w = Shared /\ w = RowBytes
  BY <1>2, DepthIs, JobIs, Sized
<1>4. n = IF y + d >= ScreenLines THEN ScreenLines - y ELSE d
  BY <1>2 DEF PassRows
<1>5. bytes = IF y + d >= ScreenLines THEN n * w ELSE Shared
  BY <1>2 DEF PassBytes
<1> HIDE DEF n, d, w, bytes
<1>6. n \in Nat /\ n <= d /\ y + n <= ScreenLines
  BY <1>2, <1>3, <1>4
<1>7. n * w <= d * w /\ n * w \in Nat
  BY <1>3, <1>6
<1>8. bytes \in Nat /\ bytes <= Shared /\ n * w <= bytes /\ (~Rows => bytes = n * w)
  BY <1>3, <1>4, <1>5, <1>7
<1>9. ~Rows => bytes = n * RowBytes
  BY <1>3, <1>8
<1> QED
  BY <1>1, <1>2, <1>4, <1>5, <1>6, <1>7, <1>8, <1>9 DEF n, d, w, bytes

(* With whole lines in the buffer, it holds the next rows of the source.   *)
LEMMA PassFetches ==
  ASSUME GrcInv, Pass, Aligned, NEW row \in 0..PassRows - 1, NEW column \in 0..job.wide - 1, y + row < job.high
  PROVE  buffer'[row * job.wide + column] = Data + (y + row) * job.wide + column + 1
<1> DEFINE w == job.wide
           n == PassRows
           bytes == PassBytes(n)
           at == row * w
           rel == at + column
           base == y * w
           area == w * job.high
           size == FileBytes(job, Data)
<1>1. /\ JobOK /\ LoadingOK /\ y \in Nat /\ y < job.high /\ n \in Nat /\ bytes \in Nat /\ bytes <= Shared
      /\ n * w <= bytes /\ n * w \in Nat /\ buffer' = Fetched(bytes)
  BY PassIs, Sized
<1>2. w \in Nat /\ w > 0 /\ job.high \in Nat /\ row \in Nat /\ column \in Nat /\ column < w /\ Data \in Nat /\ Shared \in Nat
  BY <1>1, JobIs, Sized DEF Data, PicHeader, PatHeader
<1>3. at \in Nat /\ base \in Nat /\ (y + row) * w = base + at
  BY <1>1, <1>2
<1>4. at <= n * w - w
  <2>1. row <= n - 1 /\ n - 1 \in Int
    BY <1>1, <1>2
  <2>2. row * w <= (n - 1) * w
    BY <1>2, <2>1
  <2>3. (n - 1) * w = n * w - w
    BY <1>1, <1>2
  <2> QED
    BY <2>2, <2>3
<1>5. base + at <= area - w /\ area \in Nat
  <2>1. y + row <= job.high - 1 /\ y + row \in Nat /\ job.high - 1 \in Int
    BY <1>1, <1>2
  <2>2. (y + row) * w <= (job.high - 1) * w
    BY <1>2, <2>1
  <2>3. (job.high - 1) * w = area - w /\ area \in Nat
    BY <1>2
  <2> QED
    BY <1>3, <2>2, <2>3
<1>6. pos = Data + base
  BY <1>1, <1>2 DEF LoadingOK
<1>7. size = Data + area + PalBytes
  BY DEF FileBytes
<1>8. \A k \in 0..Shared - 1 :
        buffer'[k] = IF k < bytes /\ (FromRom \/ pos + k < size) THEN pos + k + 1 ELSE buffer[k]
  BY <1>1 DEF Fetched
<1> HIDE DEF w, bytes, at, rel, base, area, size
<1>9. rel \in 0..Shared - 1 /\ rel < bytes /\ pos + rel < size
  BY <1>1, <1>2, <1>3, <1>4, <1>5, <1>6, <1>7 DEF rel, PalBytes
<1>10. buffer'[rel] = pos + rel + 1
  BY <1>8, <1>9
<1>11. pos + rel + 1 = Data + (y + row) * w + column + 1
  BY <1>2, <1>3, <1>6 DEF rel
<1> QED
  BY <1>10, <1>11 DEF rel, at, w

LEMMA PassLoads == ASSUME GrcInv, Pass, Aligned PROVE Loaded'
<1> DEFINE n == PassRows
<1>1. /\ JobOK /\ y \in 0..ScreenLines /\ n \in Nat /\ y + n <= ScreenLines /\ PassBytes(n) \in Nat
      /\ n * job.wide <= PassBytes(n) /\ vram' = Copied(PassBytes(n), n, buffer') /\ y' = y + n /\ job' = job
      /\ Loaded /\ y \in Nat
  BY PassIs, Sized DEF GrcInv
<1> SUFFICES ASSUME NEW row \in 0..y' - 1, NEW column \in 0..job.wide - 1, row < job.high
             PROVE  vram'[Place(row, column)] = Data + row * job.wide + column + 1
  BY <1>1 DEF Loaded, Place, Data, FromRom
<1>2. CASE row < y
  <2>1. row \in 0..y - 1
    BY <1>1, <1>2
  <2>2. vram[Place(row, column)] = Data + row * job.wide + column + 1
    BY <1>1, <2>1 DEF Loaded
  <2>3. vram'[Place(row, column)] = vram[Place(row, column)]
    BY <1>1, <2>1, KeepsAbove
  <2> QED
    BY <2>2, <2>3
<1>3. CASE row >= y
  <2> DEFINE r == row - y
  <2>1. r \in 0..n - 1 /\ row = y + r
    BY <1>1, <1>3
  <2> HIDE DEF r
  <2>2. vram'[Place(y + r, column)] = buffer'[r * job.wide + column]
    BY <1>1, <2>1, CopiesRow
  <2>3. buffer'[r * job.wide + column] = Data + (y + r) * job.wide + column + 1
    BY <2>1, PassFetches
  <2> QED
    BY <2>1, <2>2, <2>3
<1> QED
  BY <1>1, <1>2, <1>3

LEMMA PassWithin == ASSUME GrcInv, Pass PROVE Within'
<1> DEFINE n == PassRows
<1>1. /\ JobOK /\ y \in Nat /\ n \in Nat /\ PassBytes(n) \in Nat /\ (~Rows => PassBytes(n) = n * RowBytes)
      /\ vram' = Copied(PassBytes(n), n, buffer') /\ y' = y + n /\ job' = job /\ Within
  BY PassIs, Sized DEF GrcInv
<1> SUFFICES ASSUME NEW a \in VramBytes, vram'[a] # 0
             PROVE  \E row \in 0..y' - 1, column \in 0..job.wide - 1 : a = Place(row, column)
  BY <1>1 DEF Within, Place
<1>2. CASE vram'[a] = vram[a]
  <2>1. PICK row \in 0..y - 1, column \in 0..job.wide - 1 : a = Place(row, column)
    BY <1>1, <1>2 DEF Within
  <2>2. row \in 0..y' - 1
    BY <1>1
  <2> QED
    BY <2>1, <2>2
<1>3. CASE vram'[a] # vram[a]
  <2> HIDE DEF n
  <2>1. Copied(PassBytes(n), n, buffer')[a] # vram[a]
    BY <1>1, <1>3
  <2>2. PICK row \in 0..n - 1, column \in 0..job.wide - 1 : a = Place(y + row, column)
    BY <1>1, <2>1, CopiesOnly
  <2>3. y + row \in 0..y' - 1
    BY <1>1
  <2> QED
    BY <2>2, <2>3
<1> QED
  BY <1>2, <1>3

(* The loop draws whole buffers: it is never past the end of a source of   *)
(* whole buffers, and where the file is read is where the rows are drawn.  *)
LEMMA PassProgress ==
  ASSUME GrcInv, Pass
  PROVE  /\ stage' = "load" => LoadingOK'
         /\ stage' = "done" => DoneOK'
<1> DEFINE n == PassRows
           d == Depth
           w == job.wide
           h == job.high
<1>1. /\ JobOK /\ LoadingOK /\ y \in Nat /\ y <= ScreenLines /\ y < h /\ n \in Nat /\ n <= d /\ y + n <= ScreenLines
      /\ ~(y + d >= ScreenLines) => n = d /\ PassBytes(n) = Shared
      /\ y + d >= ScreenLines => n = ScreenLines - y
      /\ stage' = (IF y + d >= ScreenLines THEN "done" ELSE "load")
      /\ pos' = FilePos(PassBytes(n)) /\ lines' = n /\ y' = y + n /\ job' = job /\ PassBytes(n) \in Nat
  BY PassIs, Sized
<1>2. d \in Nat /\ d >= 1 /\ w \in Nat /\ w > 0 /\ h \in Nat /\ (Aligned => d * w = Shared) /\ ScreenLines \in Nat /\ Shared \in Nat
  BY <1>1, DepthIs, JobIs, Sized
<1>3. PICK k \in Nat : y = k * d
  BY <1>1 DEF LoadingOK
<1>4. h % d = 0 => y + d <= h
  <2> DEFINE q == h \div d
             m == h % d
  <2>1. q \in Nat /\ h = q * d + m
    BY <1>2, DivisionOf
  <2> HIDE DEF q, m, h, d
  <2>2. m = 0 => k < q
    <3>1. k >= q => k * d >= q * d
      BY <1>2, <1>3, <2>1
    <3> QED
      BY <1>1, <1>2, <1>3, <2>1, <3>1
  <2>3. m = 0 => (k + 1) * d <= q * d
    BY <1>2, <2>1, <2>2
  <2>4. (k + 1) * d = y + d
    BY <1>2, <1>3
  <2> QED
    BY <1>2, <2>1, <2>3, <2>4 DEF m
<1>5. ASSUME stage' = "load" PROVE LoadingOK'
  <2>1. ~(y + d >= ScreenLines) /\ n = d /\ PassBytes(n) = Shared /\ y' = y + d
    BY <1>1, <1>5
  <2>2. lines' = Depth' /\ pos' \in Nat
    <3>1. FilePos(PassBytes(n)) \in Nat
      <4>1. pos \in Nat /\ FileBytes(job, Data) \in Nat
        <5>1. w * h \in Nat
          BY <1>2
        <5> QED
          BY <1>1, <5>1 DEF LoadingOK, FileBytes, Data, PicHeader, PatHeader, PalBytes
      <4> QED
        BY <1>1, <1>2, <4>1 DEF FilePos
    <3> QED
      BY <1>1, <2>1, <3>1 DEF Depth
  <2>3. y' = (k + 1) * d /\ k + 1 \in Nat
    <3> HIDE DEF d
    <3> QED
      BY <1>2, <1>3, <2>1
  <2>4. ASSUME y' <= h, Aligned PROVE pos' = Data + y' * w
    <3> DEFINE area == w * h
               base == y * w
    <3>1. pos = Data + base /\ Data \in Nat
      <4>1. Data \in Nat
        BY DEF Data, PicHeader, PatHeader
      <4>2. y <= job.high
        BY <1>1, <1>2
      <4> QED
        BY <1>1, <2>4, <4>1, <4>2 DEF LoadingOK
    <3>2. (y + d) * w = base + Shared /\ base \in Nat
      BY <1>1, <1>2, <2>4
    <3>3. (y + d) * w <= h * w /\ h * w = area /\ area \in Nat
      <4>1. y + d <= h /\ y + d \in Nat
        BY <1>1, <1>2, <2>1, <2>4
      <4> HIDE DEF h, w, d
      <4> QED
        BY <1>2, <4>1 DEF h, w
    <3>4. pos' = IF FromRom THEN pos + Shared
                 ELSE IF pos + Shared > FileBytes(job, Data) THEN FileBytes(job, Data) ELSE pos + Shared
      BY <1>1, <2>1 DEF FilePos
    <3>5. FileBytes(job, Data) = Data + area + PalBytes
      BY DEF FileBytes
    <3> HIDE DEF area, base
    <3>6. pos + Shared <= FileBytes(job, Data)
      BY <1>2, <3>1, <3>2, <3>3, <3>5 DEF PalBytes
    <3>7. FileBytes(job, Data) \in Nat /\ pos + Shared \in Nat
      BY <1>2, <3>1, <3>2, <3>3, <3>5 DEF PalBytes
    <3>8. pos' = pos + Shared
      BY <3>4, <3>6, <3>7
    <3> HIDE DEF d, w
    <3> QED
      BY <1>2, <2>1, <3>1, <3>2, <3>8
  <2>5. h % d = 0 => y' <= h
    BY <1>4, <2>1
  <2> QED
    BY <1>1, <2>2, <2>3, <2>4, <2>5 DEF LoadingOK, Depth, Aligned, Data, FromRom
<1>6. ASSUME stage' = "done" PROVE DoneOK'
  <2>1. y + d >= ScreenLines /\ y' = ScreenLines
    BY <1>1, <1>2, <1>6
  <2>2. Drawn <= ScreenLines
    BY <1>2 DEF Drawn
  <2>3. (h % d = 0 \/ h >= ScreenLines) => ScreenLines <= Drawn
    BY <1>1, <1>2, <1>4, <2>1 DEF Drawn
  <2> QED
    BY <1>1, <2>1, <2>2, <2>3 DEF DoneOK, Drawn, Depth
<1> QED
  BY <1>5, <1>6

LEMMA PassKeeps == ASSUME GrcInv, Pass PROVE GrcInv'
<1>1. /\ stage = "load" /\ JobOK /\ y' = y + PassRows /\ y \in 0..ScreenLines /\ PassRows \in Nat
      /\ y + PassRows <= ScreenLines /\ UNCHANGED <<job, palette>> /\ stage' \in {"load", "done"}
      /\ vram' = Copied(PassBytes(PassRows), PassRows, buffer')
  BY PassIs
<1>2. Within' /\ (Aligned => Loaded')
  BY PassWithin, PassLoads
<1>3. DOMAIN vram' = VramBytes
  BY <1>1 DEF Copied
<1>4. PaletteOK' /\ palette[0] = 0
  BY <1>1 DEF GrcInv, PaletteOK
<1>5. JobOK' /\ (Aligned' <=> Aligned)
  BY <1>1 DEF JobOK, Rows, Aligned
<1>6. y' \in 0..ScreenLines
  BY <1>1, Sized
<1> QED
  BY <1>1, <1>2, <1>3, <1>4, <1>5, <1>6, PassProgress DEF GrcInv

LEMMA GrcStep == GrcInv /\ [GrcNext]_grcVars => GrcInv'
<1> SUFFICES ASSUME GrcInv, [GrcNext]_grcVars PROVE GrcInv'
  OBVIOUS
<1>1. CASE UNCHANGED grcVars
  BY <1>1 DEF grcVars, GrcInv, JobOK, Rows, Within, Loaded, Place, Data, FromRom, Aligned, DoneOK, LoadingOK, Drawn, Depth, PaletteOK
<1> QED
  BY <1>1, OpenKeeps, PassKeeps, CloseKeeps, PaletteKeeps DEF GrcNext

LEMMA GrcExact == GrcInv => LoadExact
<1> SUFFICES ASSUME GrcInv, stage = "done"
             PROVE  /\ Shared % job.wide = 0 =>
                         \A row \in 0..Drawn - 1, column \in 0..job.wide - 1 :
                           vram[Place(row, column)] = Data + row * job.wide + column + 1
                    /\ job.high % (Shared \div job.wide) = 0 \/ job.high >= ScreenLines =>
                         \A a \in VramBytes :
                           vram[a] # 0 => \E row \in 0..Drawn - 1, column \in 0..job.wide - 1 : a = Place(row, column)
                    /\ PaletteOK
  BY DEF LoadExact, PaletteOK
<1>1. JobOK /\ Within /\ (Aligned => Loaded) /\ DoneOK /\ PaletteOK
  BY DEF GrcInv
<1>2. Drawn \in Int /\ Drawn <= y /\ Drawn <= job.high /\ y \in Int /\ job.high \in Nat
  BY <1>1, JobIs, Sized DEF GrcInv, DoneOK, Drawn
<1>3. ASSUME Aligned, NEW row \in 0..Drawn - 1, NEW column \in 0..job.wide - 1
      PROVE  vram[Place(row, column)] = Data + row * job.wide + column + 1
  <2>1. row \in 0..y - 1 /\ row < job.high
    BY <1>2, <1>3
  <2> QED
    BY <1>1, <1>3, <2>1 DEF Loaded
<1>4. ASSUME job.high % Depth = 0 \/ job.high >= ScreenLines, NEW a \in VramBytes, vram[a] # 0
      PROVE  \E row \in 0..Drawn - 1, column \in 0..job.wide - 1 : a = Place(row, column)
  <2>1. PICK row \in 0..y - 1, column \in 0..job.wide - 1 : a = Place(row, column)
    BY <1>1, <1>4 DEF Within
  <2>2. y <= Drawn
    BY <1>1, <1>4 DEF DoneOK
  <2>3. row \in 0..Drawn - 1
    BY <1>2, <2>2
  <2> QED
    BY <2>1, <2>3
<1> QED
  BY <1>1, <1>3, <1>4 DEF Aligned, Depth

(* A picture or a pattern is in place when it is loaded, each byte in the  *)
(* line it belongs to and nothing else overwritten, and its palette is the *)
(* one at the end of the file, for every size of the screen, the buffer    *)
(* and the source (bl_grp_load_ge5_pic, bl_grp_load_ge5_pat, their _pal    *)
(* and bl_grp_romload_ forms).                                             *)
THEOREM LoadTheorem == GrcSpec => []LoadExact
  BY GrcInitial, GrcStep, GrcExact, PTL DEF GrcSpec
=============================================================================
