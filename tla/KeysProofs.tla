----------------------------- MODULE KeysProofs -----------------------------
(***************************************************************************)
(* For every group and every sequence of derivations: the watcher follows  *)
(* the owner, a tweaked keypair opens its commitment, and its signatures   *)
(* verify.  At the end, the heap sort of ec_pubkey_sort, for arrays of     *)
(* every length, and the scalars of a single word, for every prime order:  *)
(* one representation of the numbers that keys are.                        *)
(***************************************************************************)
EXTENDS Keys, HSort, ScalarLow, CurveLemmas, SequenceTheorems

-----------------------------------------------------------------------------
(* Scalars and points *)

Units == 1 .. N-1

LEMMA UnitsAreScalars ==
    /\ 0 \in Scalars /\ 1 \in Scalars /\ 1 \in Units
    /\ \A a \in Units : a \in Scalars /\ a \in Int /\ a \in Nat /\ a # 0
    /\ \A a \in Scalars : a \in Int /\ a \in Nat /\ (a # 0 => a \in Units)
BY CurveAssumption DEF Units, Scalars

LEMMA BytesAreNat == \A b \in Bytes : b \in Nat
BY KeysAssumption

LEMMA SetB32Type ==
    ASSUME NEW b \in Nat
    PROVE  SetB32(b) \in Scalars
<1>1. N \in Nat \ {0} /\ b \in Int  BY CurveAssumption
<1>2. b % N \in Nat /\ b % N < N  BY ONLY <1>1, DivMod
<1> QED  BY <1>1, <1>2 DEF SetB32, Scalars

\* A valid secret key is a scalar and its own name for its point.
LEMMA SeckeyIsUnit ==
    ASSUME NEW b \in Nat
    PROVE  /\ IsSeckey(b) <=> b \in Units
           /\ IsSeckey(b) => SetB32(b) = b /\ Created(b) = b
           /\ ~IsSeckey(b) => Created(b) = 0
           /\ Created(b) \in Scalars
<1>1. IsSeckey(b) <=> b \in Units
  BY CurveAssumption DEF IsSeckey, Overflow, Units
<1>2. IsSeckey(b) => b \in Scalars  BY <1>1, UnitsAreScalars
<1>3. IsSeckey(b) => SetB32(b) = b  BY <1>2, SmallMod DEF SetB32
<1>4. IsSeckey(b) => Times(b, G) = b  BY <1>2, TimesOne DEF G
<1> QED  BY <1>1, <1>2, <1>3, <1>4, UnitsAreScalars DEF Created

LEMMA ZeroIsNoSeckey == ~IsSeckey(0) /\ Created(0) = 0
BY DEF IsSeckey, Created

LEMMA EvenYType ==
    ASSUME NEW P \in Units
    PROVE  /\ EvenY(P) \in Units /\ Neg(P) \in Units
           /\ ~IsOdd(EvenY(P))
<1>1. P \in Scalars /\ P # 0  BY UnitsAreScalars
<1>2. Neg(P) \in Units /\ Neg(P) = N - P  BY <1>1, NegType DEF Units, Neg
<1>3. (P \in OddY) # (N - P \in OddY)  BY CurveAssumption DEF Units
<1> QED  BY <1>2, <1>3 DEF EvenY, IsOdd

\* Tweaking the secret key and the point is the same.
LEMMA TweakIsTweak ==
    ASSUME NEW a \in Scalars, NEW t \in Nat
    PROVE  /\ SecTweaks(a, t) <=> PubTweaks(a, t)
           /\ SecTweaked(a, t) = PubTweaked(a, t)
           /\ PubTweaked(a, t) \in Scalars
           /\ PubTweaks(a, t) => PubTweaked(a, t) # 0
<1>1. SetB32(t) \in Scalars  BY SetB32Type
<1>2. Times(SetB32(t), G) = SetB32(t)  BY <1>1, TimesOne DEF G
<1>3. a \in Int /\ SetB32(t) \in Int  BY <1>1, UnitsAreScalars
<1>4. Plus(a, SetB32(t)) \in Scalars  BY <1>3, PlusType
<1> QED  BY <1>2, <1>4 DEF SecTweaks, SecTweaked, PubTweaks, PubTweaked, Infinity

\* N is prime.
LEMMA ProductOfUnits ==
    ASSUME NEW a \in Units, NEW b \in Units
    PROVE  Times(a, b) \in Units
<1>1. Times(a, b) # 0  BY KeysAssumption DEF Units
<1>2. Times(a, b) \in Scalars  BY TimesType, UnitsAreScalars
<1> QED  BY <1>1, <1>2, UnitsAreScalars

-----------------------------------------------------------------------------
(* The invariant *)

\* What the watcher's function for an operation returns, and its result.
FollowRet(kind, P, t) ==
    \/ kind = "negate" /\ P # 0
    \/ kind = "add" /\ P # 0 /\ PubTweaks(P, t)
    \/ kind = "mul" /\ P # 0 /\ ~Overflow(t) /\ SetB32(t) # 0
    \/ kind = "xonly" /\ P # 0 /\ PubTweaks(EvenY(P), t)

FollowKey(kind, P, t) ==
    IF kind = "negate" THEN Neg(P)
    ELSE IF kind = "add" THEN PubTweaked(P, t)
    ELSE IF kind = "mul" THEN Times(P, SetB32(t))
    ELSE PubTweaked(EvenY(P), t)

Kinds == {"none", "create", "negate", "add", "mul", "xonly", "output"}

TypeInv ==
    /\ form \in {"seckey", "keypair"}
    /\ seckey \in Nat
    /\ keypair \in [sec : Scalars, pub : Scalars]
    /\ internal \in Scalars \cup {None} /\ tweak \in Nat \cup {None}
    /\ pubkey \in Scalars /\ xonly \in Scalars
    /\ op \in [kind : Kinds, tweak : Nat, ret : BOOLEAN]

\* What the watcher will have when he has followed: the second step of the
\* x-only tweak counts as its first.
FollowInv ==
    /\ agreed = TRUE
    /\ keypair.pub = keypair.sec
    /\ op.kind = "none" => op = NoOp /\ pubkey = Public
    /\ op.kind = "create" => form = "seckey" /\ (op.ret <=> IsSeckey(seckey))
    /\ op.kind \in {"negate", "add", "mul"} => form = "seckey"
    /\ op.kind \in {"xonly", "output"} => form = "keypair"
    /\ op.kind = "output" => pubkey # 0 /\ xonly = EvenY(pubkey)
    /\ op.kind \in {"negate", "add", "mul", "xonly"} =>
          /\ op.ret <=> FollowRet(op.kind, pubkey, op.tweak)
          /\ Public = IF op.ret THEN FollowKey(op.kind, pubkey, op.tweak) ELSE 0
    /\ op.kind = "output" =>
          /\ op.ret <=> FollowRet("xonly", pubkey, op.tweak)
          /\ Public = IF op.ret THEN FollowKey("xonly", pubkey, op.tweak) ELSE 0

\* The keypair is what the published key and the tweak make it.
CommitInv ==
    form = "keypair" /\ internal # None =>
        IF tweak = None
            THEN internal = IF keypair.pub # 0 THEN EvenY(keypair.pub) ELSE 0
            ELSE keypair.pub = IF internal # 0 /\ PubTweaks(internal, tweak)
                                   THEN PubTweaked(internal, tweak) ELSE 0

\* r is the point of the even nonce k, with which s was made.
SigInv ==
    form = "keypair" /\ sig # NoSig =>
        IF sig.ret
            THEN /\ keypair.pub # 0
                 /\ sig.e \in Scalars /\ sig.r \in Units /\ ~IsOdd(sig.r)
                 /\ sig.s = Plus(Times(sig.e, EvenY(keypair.pub)), sig.r)
            ELSE sig.r = 0

IInv == TypeInv /\ FollowInv /\ CommitInv /\ SigInv

LEMMA InitInv == Init => IInv
<1> SUFFICES ASSUME Init PROVE IInv  OBVIOUS
<1>1. seckey \in Nat /\ IsSeckey(seckey) \in BOOLEAN  BY BytesAreNat DEF Init, IsSeckey
<1>2. TypeInv  BY <1>1, UnitsAreScalars DEF Init, TypeInv, Kinds
<1>3. FollowInv  BY <1>1 DEF Init, FollowInv
<1> QED  BY <1>2, <1>3 DEF Init, IInv, CommitInv, SigInv

-----------------------------------------------------------------------------
(* The steps of the owner *)

LEMMA DeriveStep ==
    ASSUME IInv, NEW kind \in {"negate", "add", "mul"}, NEW t \in Nat, NEW ret \in BOOLEAN,
           NEW key,
           ret <=> FollowRet(kind, pubkey, t),
           ret => key \in Units /\ key = FollowKey(kind, pubkey, t),
           Derive(kind, t, ret, key)
    PROVE  IInv'
<1>1. form' = "seckey" /\ seckey' = (IF ret THEN key ELSE 0) /\ seckey' \in Nat
  BY UnitsAreScalars DEF Derive
<1>2. op' = [kind |-> kind, tweak |-> t, ret |-> ret]  BY DEF Derive
<1>3. TypeInv'
  BY <1>1, <1>2 DEF Derive, IInv, TypeInv, Kinds, watcher
<1>4. Created(seckey') = IF ret THEN key ELSE 0
  BY <1>1, SeckeyIsUnit, ZeroIsNoSeckey
<1>5. Public' = IF ret THEN key ELSE 0  BY <1>1, <1>4 DEF Public, Created, IsSeckey, Overflow
<1>6. FollowInv'
  <2>1. agreed' = agreed /\ keypair' = keypair /\ pubkey' = pubkey /\ xonly' = xonly
    BY DEF Derive, watcher
  <2> QED  BY <1>1, <1>2, <1>5, <2>1 DEF IInv, FollowInv
<1>7. CommitInv' /\ SigInv'  BY <1>1 DEF CommitInv, SigInv
<1> QED  BY <1>3, <1>6, <1>7 DEF IInv

\* With nothing left to follow both have the same key.
LEMMA InStep ==
    ASSUME IInv, form = "seckey", op = NoOp
    PROVE  /\ pubkey = Created(seckey)
           /\ IsSeckey(seckey) => pubkey \in Units /\ SetB32(seckey) = pubkey /\ seckey = pubkey
           /\ ~IsSeckey(seckey) => pubkey = 0
<1>1. pubkey = Public /\ seckey \in Nat  BY DEF IInv, FollowInv, NoOp, TypeInv
<1> QED  BY <1>1, SeckeyIsUnit DEF Public

LEMMA SeckeyNegateStep == IInv /\ SeckeyNegate => IInv'
<1> SUFFICES ASSUME IInv, SeckeyNegate PROVE IInv'  OBVIOUS
<1>1. form = "seckey" /\ op = NoOp  BY DEF SeckeyNegate, Derive
<1>2. IsSeckey(seckey) \in BOOLEAN  BY DEF IsSeckey
<1>3. IsSeckey(seckey) <=> FollowRet("negate", pubkey, 0)
  BY <1>1, InStep, UnitsAreScalars DEF FollowRet
<1>4. IsSeckey(seckey) => /\ Neg(SetB32(seckey)) \in Units
                          /\ Neg(SetB32(seckey)) = FollowKey("negate", pubkey, 0)
  BY <1>1, InStep, EvenYType DEF FollowKey
<1> QED  BY <1>2, <1>3, <1>4, DeriveStep DEF SeckeyNegate

LEMMA SeckeyTweakAddStep ==
    ASSUME IInv, NEW t \in Bytes, SeckeyTweakAdd(t)
    PROVE  IInv'
<1> DEFINE ret == IsSeckey(seckey) /\ SecTweaks(SetB32(seckey), t)
<1>1. form = "seckey" /\ op = NoOp /\ t \in Nat  BY BytesAreNat DEF SeckeyTweakAdd, Derive
<1>2. ret \in BOOLEAN  OBVIOUS
<1>3. IsSeckey(seckey) => /\ pubkey \in Scalars /\ pubkey # 0
                          /\ SetB32(seckey) = pubkey
                          /\ SecTweaks(pubkey, t) <=> PubTweaks(pubkey, t)
                          /\ SecTweaked(pubkey, t) = PubTweaked(pubkey, t)
                          /\ PubTweaks(pubkey, t) => PubTweaked(pubkey, t) \in Units
  BY <1>1, InStep, TweakIsTweak, UnitsAreScalars
<1>4. ret <=> FollowRet("add", pubkey, t)
  BY <1>1, <1>3, InStep DEF FollowRet
<1>5. ret => /\ SecTweaked(SetB32(seckey), t) \in Units
             /\ SecTweaked(SetB32(seckey), t) = FollowKey("add", pubkey, t)
  BY <1>3 DEF FollowKey
<1>6. Derive("add", t, ret, SecTweaked(SetB32(seckey), t))  BY DEF SeckeyTweakAdd
<1> HIDE DEF ret
<1> QED  BY <1>1, <1>2, <1>4, <1>5, <1>6, DeriveStep

LEMMA SeckeyTweakMulStep ==
    ASSUME IInv, NEW t \in Bytes, SeckeyTweakMul(t)
    PROVE  IInv'
<1> DEFINE ret == IsSeckey(seckey) /\ ~Overflow(t) /\ SetB32(t) # 0
<1>1. form = "seckey" /\ op = NoOp /\ t \in Nat  BY BytesAreNat DEF SeckeyTweakMul, Derive
<1>2. ret \in BOOLEAN  OBVIOUS
<1>3. SetB32(t) # 0 => SetB32(t) \in Units  BY <1>1, SetB32Type, UnitsAreScalars
<1>4. IsSeckey(seckey) => pubkey \in Units /\ pubkey # 0 /\ SetB32(seckey) = pubkey
  BY <1>1, InStep, UnitsAreScalars
<1>5. ret <=> FollowRet("mul", pubkey, t)
  BY <1>1, <1>4, InStep DEF FollowRet
<1>6. ret => /\ Times(SetB32(seckey), SetB32(t)) \in Units
             /\ Times(SetB32(seckey), SetB32(t)) = FollowKey("mul", pubkey, t)
  BY <1>3, <1>4, ProductOfUnits DEF FollowKey
<1>7. Derive("mul", t, ret, Times(SetB32(seckey), SetB32(t)))  BY DEF SeckeyTweakMul
<1> HIDE DEF ret
<1> QED  BY <1>1, <1>2, <1>5, <1>6, <1>7, DeriveStep

LEMMA KeypairCreateStep == IInv /\ KeypairCreate => IInv'
<1> SUFFICES ASSUME IInv, KeypairCreate PROVE IInv'  OBVIOUS
<1> DEFINE sec == IF IsSeckey(seckey) THEN seckey ELSE 0
<1>1. form = "seckey" /\ op = NoOp /\ op' = op /\ seckey' = seckey /\ form' = "keypair"
      /\ pubkey' = pubkey /\ xonly' = xonly /\ agreed' = agreed
      /\ internal' = None /\ tweak' = None /\ sig' = NoSig
  BY DEF KeypairCreate, watcher
<1>2. sec \in Scalars /\ Created(seckey) = sec
  BY SeckeyIsUnit, UnitsAreScalars DEF IInv, TypeInv
<1>3. keypair' = [sec |-> sec, pub |-> sec]  BY <1>2 DEF KeypairCreate
<1> HIDE DEF sec
<1>4. TypeInv'  BY <1>1, <1>2, <1>3 DEF IInv, TypeInv
<1>5. Public' = sec /\ pubkey = sec  BY <1>1, <1>2, <1>3, InStep DEF Public
<1>6. FollowInv'  BY <1>1, <1>3, <1>5 DEF IInv, FollowInv, NoOp
<1>7. CommitInv' /\ SigInv'  BY <1>1 DEF CommitInv, SigInv
<1> QED  BY <1>4, <1>6, <1>7 DEF IInv

LEMMA KeypairSecStep == IInv /\ KeypairSec => IInv'
<1> SUFFICES ASSUME IInv, KeypairSec PROVE IInv'  OBVIOUS
<1>1. form = "keypair" /\ op = NoOp /\ op' = op /\ form' = "seckey"
      /\ seckey' = keypair.sec /\ keypair' = keypair
      /\ pubkey' = pubkey /\ xonly' = xonly /\ agreed' = agreed
      /\ internal' = internal /\ tweak' = tweak
  BY DEF KeypairSec, watcher
<1>2. keypair.sec \in Scalars /\ keypair.pub = keypair.sec /\ pubkey = keypair.pub
  BY <1>1 DEF IInv, TypeInv, FollowInv, NoOp, Public
<1>3. Created(keypair.sec) = keypair.sec
  BY <1>2, SeckeyIsUnit, UnitsAreScalars
<1>4. TypeInv'  BY <1>1, <1>2, UnitsAreScalars DEF IInv, TypeInv
<1>5. Public' = keypair.sec  BY <1>1, <1>3 DEF Public, Created, IsSeckey, Overflow
<1>6. FollowInv'  BY <1>1, <1>2, <1>5 DEF IInv, FollowInv, NoOp
<1>7. CommitInv' /\ SigInv'  BY <1>1 DEF CommitInv, SigInv
<1> QED  BY <1>4, <1>6, <1>7 DEF IInv

LEMMA KeypairXonlyPubStep == IInv /\ KeypairXonlyPub => IInv'
<1> SUFFICES ASSUME IInv, KeypairXonlyPub PROVE IInv'  OBVIOUS
<1>1. form' = form /\ op' = op /\ seckey' = seckey /\ keypair' = keypair /\ sig' = sig
      /\ pubkey' = pubkey /\ xonly' = xonly /\ agreed' = agreed /\ tweak' = None
      /\ internal' = IF keypair.pub # 0 THEN EvenY(keypair.pub) ELSE 0
  BY DEF KeypairXonlyPub, watcher
<1>2. internal' \in Scalars
  BY <1>1, EvenYType, UnitsAreScalars DEF IInv, TypeInv
<1>3. TypeInv'  BY <1>1, <1>2 DEF IInv, TypeInv
<1>4. Public' = Public  BY <1>1 DEF Public, Created, IsSeckey, Overflow
<1>5. FollowInv'  BY <1>1, <1>4 DEF IInv, FollowInv
<1>6. CommitInv'  BY <1>1 DEF CommitInv
<1>7. SigInv'  BY <1>1 DEF IInv, SigInv
<1> QED  BY <1>3, <1>5, <1>6, <1>7 DEF IInv

\* What is loaded from a keypair that is valid.
LEMMA LoadedKeypair ==
    ASSUME IInv, form = "keypair"
    PROVE  /\ Loads <=> keypair.pub # 0
           /\ Loads => /\ LoadedPk = keypair.pub /\ LoadedPk \in Units
                       /\ EvenSk = EvenY(keypair.pub) /\ EvenY(keypair.pub) \in Units
<1>1. keypair.sec \in Scalars /\ keypair.pub = keypair.sec
  BY DEF IInv, TypeInv, FollowInv
<1>2. Loads <=> keypair.pub # 0
  BY <1>1, SeckeyIsUnit, UnitsAreScalars DEF Loads
<1>3. Loads => keypair.pub \in Units  BY <1>1, <1>2, UnitsAreScalars
<1>4. Loads => EvenY(keypair.pub) \in Units  BY <1>3, EvenYType
<1> QED  BY <1>1, <1>2, <1>3, <1>4 DEF LoadedPk, LoadedSk, EvenSk, EvenY

LEMMA KeypairXonlyTweakAddStep ==
    ASSUME IInv, NEW t \in Bytes, KeypairXonlyTweakAdd(t)
    PROVE  IInv'
<1> DEFINE P   == EvenY(keypair.pub)
           ret == keypair.pub # 0 /\ PubTweaks(P, t)
           K   == IF ret THEN PubTweaked(P, t) ELSE 0
<1>1. form = "keypair" /\ form' = form /\ op = NoOp /\ seckey' = seckey
      /\ pubkey' = pubkey /\ xonly' = xonly /\ agreed' = agreed /\ sig' = NoSig
      /\ tweak' = (IF internal # None /\ tweak = None THEN t ELSE None)
      /\ internal' = (IF tweak = None THEN internal ELSE None)
  BY DEF KeypairXonlyTweakAdd, watcher
<1>2. t \in Nat /\ t # None  BY BytesAreNat DEF None
<1>3. keypair.pub # 0 => P \in Scalars /\ P \in Units /\ P # 0
  BY <1>1, LoadedKeypair, UnitsAreScalars
<1>4. Loads => /\ LoadedPk = keypair.pub /\ EvenSk = P
               /\ SecTweaks(P, t) <=> PubTweaks(P, t)
               /\ SecTweaked(P, t) = PubTweaked(P, t)
  BY <1>1, <1>2, <1>3, LoadedKeypair, TweakIsTweak
<1>5. ret <=> Loads /\ SecTweaks(EvenSk, t) /\ PubTweaks(EvenY(LoadedPk), t)
  BY <1>1, <1>4, LoadedKeypair
<1>6. keypair' = [sec |-> K, pub |-> K]
  BY <1>4, <1>5 DEF KeypairXonlyTweakAdd
<1>7. op'.kind = "xonly" /\ op'.tweak = t /\ (op'.ret <=> ret) /\ op' \in [kind : Kinds, tweak : Nat, ret : BOOLEAN]
  BY <1>2, <1>5 DEF KeypairXonlyTweakAdd, Kinds
<1>8. K \in Scalars  BY <1>2, <1>3, TweakIsTweak, UnitsAreScalars
<1>9. TypeInv'  BY <1>1, <1>2, <1>6, <1>7, <1>8 DEF IInv, TypeInv
<1>10. FollowInv'
  <2>1. pubkey = keypair.pub  BY <1>1 DEF IInv, FollowInv, NoOp, Public
  <2>2. ret <=> FollowRet("xonly", pubkey, t)  BY <2>1 DEF FollowRet
  <2>3. K = IF ret THEN FollowKey("xonly", pubkey, t) ELSE 0  BY <2>1 DEF FollowKey
  <2>4. Public' = K /\ keypair'.pub = keypair'.sec  BY <1>1, <1>6 DEF Public
  <2> HIDE DEF K, ret, P
  <2> QED  BY <1>1, <1>7, <2>2, <2>3, <2>4 DEF IInv, FollowInv
<1>11. CommitInv'
  <2>1. ASSUME internal # None, tweak = None
        PROVE  K = IF internal # 0 /\ PubTweaks(internal, t) THEN PubTweaked(internal, t) ELSE 0
    <3>1. internal = IF keypair.pub # 0 THEN P ELSE 0
      BY <1>1, <2>1 DEF IInv, CommitInv
    <3> QED  BY <1>3, <3>1
  <2>2. keypair'.pub = K  BY <1>6
  <2> HIDE DEF K, ret, P
  <2> QED  BY <1>1, <1>2, <2>1, <2>2 DEF CommitInv
<1>12. SigInv'  BY <1>1 DEF SigInv
<1> QED  BY <1>9, <1>10, <1>11, <1>12 DEF IInv

LEMMA SchnorrsigSignStep ==
    ASSUME IInv, NEW ok \in BOOLEAN, NEW b \in Bytes, NEW e \in Scalars, SchnorrsigSign(ok, b, e)
    PROVE  IInv'
<1> DEFINE k == Nonce(ok, b)
<1>1. form = "keypair" /\ form' = form /\ op' = op /\ seckey' = seckey /\ keypair' = keypair
      /\ pubkey' = pubkey /\ xonly' = xonly /\ agreed' = agreed
      /\ tweak' = tweak /\ internal' = internal
  BY DEF SchnorrsigSign, watcher
<1>2. k \in Units
  BY BytesAreNat, SetB32Type, UnitsAreScalars DEF Nonce
<1>3. Times(k, G) = k  BY <1>2, TimesOne, UnitsAreScalars DEF G
<1>4. EvenY(k) \in Units /\ ~IsOdd(EvenY(k))  BY <1>2, EvenYType
<1>5. TypeInv' /\ FollowInv' /\ CommitInv'
  <2>1. Public' = Public  BY <1>1 DEF Public, Created, IsSeckey, Overflow
  <2> QED  BY <1>1, <2>1 DEF IInv, TypeInv, FollowInv, CommitInv
<1>6. SigInv'
  <2>1. CASE Loads /\ ok /\ SetB32(b) # 0
    <3>1. sig' = [r |-> EvenY(k), s |-> Plus(Times(e, EvenSk), EvenY(k)), e |-> e, ret |-> TRUE]
      BY <1>3, <2>1 DEF SchnorrsigSign, EvenY
    <3>2. keypair.pub # 0 /\ EvenSk = EvenY(keypair.pub)  BY <1>1, <2>1, LoadedKeypair
    <3> HIDE DEF k
    <3> QED  BY <1>1, <1>4, <3>1, <3>2 DEF SigInv
  <2>2. CASE ~(Loads /\ ok /\ SetB32(b) # 0)
    <3>1. sig'.r = 0 /\ sig'.ret = FALSE  BY <2>2 DEF SchnorrsigSign
    <3> QED  BY <3>1 DEF SigInv
  <2> QED  BY <2>1, <2>2
<1> QED  BY <1>5, <1>6 DEF IInv

-----------------------------------------------------------------------------
(* The steps of the watcher *)

LEMMA FollowStep ==
    ASSUME IInv, NEW ret \in BOOLEAN, NEW key, Follow(ret, key),
           ret <=> op.ret, ret => key \in Scalars,
           Public = IF ret THEN key ELSE 0
    PROVE  IInv'
<1>1. form' = form /\ op' = NoOp /\ seckey' = seckey /\ keypair' = keypair /\ sig' = sig
      /\ xonly' = xonly /\ tweak' = tweak /\ internal' = internal
      /\ pubkey' = (IF ret THEN key ELSE 0)
  BY DEF Follow, owner
<1>2. agreed' = TRUE
  BY Zenon DEF Follow, IInv, TypeInv
<1>3. NoOp \in [kind : Kinds, tweak : Nat, ret : BOOLEAN]  BY DEF NoOp, Kinds
<1>4. TypeInv'  BY <1>1, <1>3, UnitsAreScalars DEF IInv, TypeInv
<1>5. Public' = Public  BY <1>1 DEF Public, Created, IsSeckey, Overflow
<1>6. FollowInv'  BY <1>1, <1>2, <1>5 DEF IInv, FollowInv, NoOp
<1>7. CommitInv' /\ SigInv'  BY <1>1 DEF IInv, CommitInv, SigInv
<1> QED  BY <1>4, <1>6, <1>7 DEF IInv

LEMMA PubkeyCreateStep == IInv /\ PubkeyCreate => IInv'
<1> SUFFICES ASSUME IInv, PubkeyCreate PROVE IInv'  OBVIOUS
<1>1. op.kind = "create" /\ Follow(IsSeckey(seckey), Created(seckey))  BY DEF PubkeyCreate
<1>2. form = "seckey" /\ (op.ret <=> IsSeckey(seckey)) /\ seckey \in Nat
  BY <1>1 DEF IInv, FollowInv, TypeInv
<1>3. Public = IF IsSeckey(seckey) THEN Created(seckey) ELSE 0
  BY <1>2 DEF Public, Created
<1>4. IsSeckey(seckey) \in BOOLEAN /\ Created(seckey) \in Scalars
  BY <1>2, SeckeyIsUnit DEF IsSeckey
<1> QED  BY <1>1, <1>2, <1>3, <1>4, FollowStep

LEMMA PubkeyNegateStep == IInv /\ PubkeyNegate => IInv'
<1> SUFFICES ASSUME IInv, PubkeyNegate PROVE IInv'  OBVIOUS
<1> DEFINE ret == pubkey # 0
<1>1. op.kind = "negate" /\ Follow(ret, Neg(pubkey)) /\ ret \in BOOLEAN  BY DEF PubkeyNegate
<1>2. ret <=> op.ret  BY <1>1 DEF IInv, FollowInv, FollowRet
<1>3. Public = IF ret THEN Neg(pubkey) ELSE 0
  BY <1>1, <1>2 DEF IInv, FollowInv, FollowKey
<1>4. Neg(pubkey) \in Scalars  BY NegType DEF IInv, TypeInv
<1> HIDE DEF ret
<1> QED  BY <1>1, <1>2, <1>3, <1>4, FollowStep

LEMMA PubkeyTweakAddStep == IInv /\ PubkeyTweakAdd => IInv'
<1> SUFFICES ASSUME IInv, PubkeyTweakAdd PROVE IInv'  OBVIOUS
<1> DEFINE ret == pubkey # 0 /\ PubTweaks(pubkey, op.tweak)
<1>1. op.kind = "add" /\ Follow(ret, PubTweaked(pubkey, op.tweak)) /\ ret \in BOOLEAN
  BY DEF PubkeyTweakAdd
<1>2. ret <=> op.ret  BY <1>1 DEF IInv, FollowInv, FollowRet
<1>3. Public = IF ret THEN PubTweaked(pubkey, op.tweak) ELSE 0
  BY <1>1, <1>2 DEF IInv, FollowInv, FollowKey
<1>4. PubTweaked(pubkey, op.tweak) \in Scalars  BY TweakIsTweak DEF IInv, TypeInv
<1> HIDE DEF ret
<1> QED  BY <1>1, <1>2, <1>3, <1>4, FollowStep

\* Adding the point of the tweak is tweaking.
LEMMA PubkeyCombineStep == IInv /\ PubkeyCombine => IInv'
<1> SUFFICES ASSUME IInv, PubkeyCombine PROVE IInv'  OBVIOUS
<1> DEFINE Q   == Plus(pubkey, Created(op.tweak))
           ret == Q # Infinity
<1>1. op.kind = "add" /\ pubkey # 0 /\ IsSeckey(op.tweak) /\ Follow(ret, Q) /\ ret \in BOOLEAN
  BY DEF PubkeyCombine
<1>2. pubkey \in Scalars /\ op.tweak \in Nat  BY DEF IInv, TypeInv
<1>3. Created(op.tweak) = Times(SetB32(op.tweak), G)
  BY <1>1, <1>2, SeckeyIsUnit DEF Created
<1>4. Q = PubTweaked(pubkey, op.tweak)  BY <1>3 DEF PubTweaked
<1>5. ret <=> PubTweaks(pubkey, op.tweak)
  BY <1>1, <1>3 DEF PubTweaks, IsSeckey
<1>6. ret <=> op.ret  BY <1>1, <1>5 DEF IInv, FollowInv, FollowRet
<1>7. Public = IF ret THEN Q ELSE 0
  BY <1>1, <1>4, <1>6 DEF IInv, FollowInv, FollowKey
<1>8. Q \in Scalars  BY <1>2, <1>4, TweakIsTweak
<1> HIDE DEF ret, Q
<1> QED  BY <1>1, <1>6, <1>7, <1>8, FollowStep

LEMMA PubkeyTweakMulStep == IInv /\ PubkeyTweakMul => IInv'
<1> SUFFICES ASSUME IInv, PubkeyTweakMul PROVE IInv'  OBVIOUS
<1> DEFINE ret == ~Overflow(op.tweak) /\ pubkey # 0 /\ SetB32(op.tweak) # 0
           K   == Times(pubkey, SetB32(op.tweak))
<1>1. op.kind = "mul" /\ Follow(ret, K) /\ ret \in BOOLEAN  BY DEF PubkeyTweakMul
<1>2. ret <=> op.ret  BY <1>1 DEF IInv, FollowInv, FollowRet
<1>3. Public = IF ret THEN K ELSE 0
  BY <1>1, <1>2 DEF IInv, FollowInv, FollowKey
<1>4. K \in Scalars  BY SetB32Type, TimesType, UnitsAreScalars DEF IInv, TypeInv
<1> HIDE DEF ret, K
<1> QED  BY <1>1, <1>2, <1>3, <1>4, FollowStep

LEMMA XonlyFromPubkeyStep == IInv /\ XonlyFromPubkey => IInv'
<1> SUFFICES ASSUME IInv, XonlyFromPubkey PROVE IInv'  OBVIOUS
<1>1. form' = form /\ seckey' = seckey /\ keypair' = keypair /\ sig' = sig
      /\ tweak' = tweak /\ internal' = internal /\ pubkey' = pubkey /\ agreed' = agreed
      /\ xonly' = EvenY(pubkey) /\ op.kind = "xonly" /\ pubkey # 0
  BY DEF XonlyFromPubkey, owner
<1>2. op \in [kind : Kinds, tweak : Nat, ret : BOOLEAN] /\ pubkey \in Scalars
  BY DEF IInv, TypeInv
<1>3. /\ op' \in [kind : Kinds, tweak : Nat, ret : BOOLEAN]
      /\ op'.kind = "output" /\ op'.tweak = op.tweak /\ op'.ret = op.ret
  BY <1>2 DEF XonlyFromPubkey, Kinds
<1>4. xonly' \in Scalars  BY <1>1, <1>2, EvenYType, UnitsAreScalars
<1>5. TypeInv'  BY <1>1, <1>3, <1>4 DEF IInv, TypeInv
<1>6. Public' = Public  BY <1>1 DEF Public, Created, IsSeckey, Overflow
<1>7. FollowInv'  BY <1>1, <1>3, <1>6 DEF IInv, FollowInv
<1>8. CommitInv' /\ SigInv'  BY <1>1 DEF IInv, CommitInv, SigInv
<1> QED  BY <1>5, <1>7, <1>8 DEF IInv

LEMMA XonlyFromInvalidStep == IInv /\ XonlyFromInvalid => IInv'
<1> SUFFICES ASSUME IInv, XonlyFromInvalid PROVE IInv'  OBVIOUS
<1>1. op.kind = "xonly" /\ pubkey = 0 /\ Follow(FALSE, 0)  BY DEF XonlyFromInvalid
<1>2. ~op.ret  BY <1>1 DEF IInv, FollowInv, FollowRet
<1>3. Public = 0  BY <1>1, <1>2 DEF IInv, FollowInv
<1> QED  BY <1>1, <1>2, <1>3, FollowStep

LEMMA XonlyTweakAddStep == IInv /\ XonlyTweakAdd => IInv'
<1> SUFFICES ASSUME IInv, XonlyTweakAdd PROVE IInv'  OBVIOUS
<1> DEFINE ret == xonly # 0 /\ PubTweaks(xonly, op.tweak)
           K   == PubTweaked(xonly, op.tweak)
<1>1. op.kind = "output" /\ Follow(ret, K) /\ ret \in BOOLEAN  BY DEF XonlyTweakAdd
<1>2. pubkey # 0 /\ pubkey \in Units /\ xonly = EvenY(pubkey) /\ op.tweak \in Nat
  BY <1>1, UnitsAreScalars DEF IInv, FollowInv, TypeInv
<1>3. xonly \in Units /\ xonly # 0  BY <1>2, EvenYType, UnitsAreScalars
<1>4. ret <=> op.ret  BY <1>1, <1>2, <1>3 DEF IInv, FollowInv, FollowRet
<1>5. Public = IF ret THEN K ELSE 0
  BY <1>1, <1>2, <1>4 DEF IInv, FollowInv, FollowKey
<1>6. K \in Scalars  BY <1>2, <1>3, TweakIsTweak, UnitsAreScalars
<1> HIDE DEF ret, K
<1> QED  BY <1>1, <1>4, <1>5, <1>6, FollowStep

LEMMA KeypairPubStep == IInv /\ KeypairPub => IInv'
<1> SUFFICES ASSUME IInv, KeypairPub PROVE IInv'  OBVIOUS
<1>1. form' = form /\ seckey' = seckey /\ keypair' = keypair /\ sig' = sig
      /\ tweak' = tweak /\ internal' = internal /\ pubkey' = keypair.pub
      /\ agreed' = agreed /\ xonly' = xonly /\ op' = NoOp /\ op.kind = "xonly"
  BY DEF KeypairPub, owner
<1>2. NoOp \in [kind : Kinds, tweak : Nat, ret : BOOLEAN]  BY DEF NoOp, Kinds
<1>3. TypeInv'  BY <1>1, <1>2 DEF IInv, TypeInv
<1>4. form = "keypair"  BY <1>1 DEF IInv, FollowInv
<1>5. Public' = keypair.pub  BY <1>1, <1>4 DEF Public
<1>6. FollowInv'  BY <1>1, <1>5 DEF IInv, FollowInv, NoOp
<1>7. CommitInv' /\ SigInv'  BY <1>1 DEF IInv, CommitInv, SigInv
<1> QED  BY <1>3, <1>6, <1>7 DEF IInv

LEMMA StutterStep == IInv /\ UNCHANGED vars => IInv'
<1> SUFFICES ASSUME IInv, UNCHANGED vars PROVE IInv'  OBVIOUS
<1>1. form' = form /\ seckey' = seckey /\ keypair' = keypair /\ sig' = sig
      /\ tweak' = tweak /\ internal' = internal /\ pubkey' = pubkey
      /\ agreed' = agreed /\ xonly' = xonly /\ op' = op
  BY DEF vars, owner, watcher
<1>2. Public' = Public  BY <1>1 DEF Public, Created, IsSeckey, Overflow
<1> QED  BY <1>1, <1>2 DEF IInv, TypeInv, FollowInv, CommitInv, SigInv

-----------------------------------------------------------------------------
(* The theorems *)

LEMMA IInvInductive == Spec => []IInv
<1>1. Init => IInv  BY InitInv
<1>2. IInv /\ [Next]_vars => IInv'
  <2> SUFFICES ASSUME IInv, [Next]_vars PROVE IInv'  OBVIOUS
  <2>1. CASE SeckeyNegate  BY <2>1, SeckeyNegateStep
  <2>2. CASE KeypairCreate  BY <2>2, KeypairCreateStep
  <2>3. CASE KeypairSec  BY <2>3, KeypairSecStep
  <2>4. CASE KeypairXonlyPub  BY <2>4, KeypairXonlyPubStep
  <2>5. CASE \E t \in Bytes : SeckeyTweakAdd(t) \/ SeckeyTweakMul(t) \/ KeypairXonlyTweakAdd(t)
    BY <2>5, SeckeyTweakAddStep, SeckeyTweakMulStep, KeypairXonlyTweakAddStep
  <2>6. CASE \E ok \in BOOLEAN, b \in Bytes, e \in Scalars : SchnorrsigSign(ok, b, e)
    BY <2>6, SchnorrsigSignStep
  <2>7. CASE PubkeyCreate  BY <2>7, PubkeyCreateStep
  <2>8. CASE PubkeyNegate  BY <2>8, PubkeyNegateStep
  <2>9. CASE PubkeyTweakAdd  BY <2>9, PubkeyTweakAddStep
  <2>10. CASE PubkeyCombine  BY <2>10, PubkeyCombineStep
  <2>11. CASE PubkeyTweakMul  BY <2>11, PubkeyTweakMulStep
  <2>12. CASE XonlyFromPubkey  BY <2>12, XonlyFromPubkeyStep
  <2>13. CASE XonlyFromInvalid  BY <2>13, XonlyFromInvalidStep
  <2>14. CASE XonlyTweakAdd  BY <2>14, XonlyTweakAddStep
  <2>15. CASE KeypairPub  BY <2>15, KeypairPubStep
  <2>16. CASE UNCHANGED vars  BY <2>16, StutterStep
  <2> QED
    BY <2>1, <2>2, <2>3, <2>4, <2>5, <2>6, <2>7, <2>8, <2>9, <2>10, <2>11, <2>12, <2>13,
       <2>14, <2>15, <2>16 DEF Next
<1> QED  BY <1>1, <1>2, PTL DEF Spec

(***************************************************************************)
(* The functions for secret keys and for public keys keep in step, for     *)
(* every group of prime order and every sequence of derivations, failing   *)
(* ones included, and ECDH agrees on a point.                              *)
(***************************************************************************)
THEOREM KeysWatcherFollows == Spec => []WatcherFollows
<1>1. IInv => WatcherFollows
  <2> SUFFICES ASSUME IInv PROVE WatcherFollows  OBVIOUS
  <2>1. agreed /\ keypair.pub = keypair.sec /\ keypair.sec \in Scalars
    BY DEF IInv, FollowInv, TypeInv
  <2>2. Created(keypair.sec) = keypair.sec  BY <2>1, SeckeyIsUnit, UnitsAreScalars
  <2>3. op = NoOp => pubkey = Public  BY DEF IInv, FollowInv, NoOp
  <2>4. ASSUME op = NoOp, form = "seckey", pubkey # 0, NEW b \in Bytes, IsSeckey(b)
        PROVE  /\ EcdhReturns(seckey)
               /\ EcdhPoint(Created(b), seckey) = EcdhPoint(pubkey, b)
    <3>1. IsSeckey(seckey) /\ seckey = pubkey /\ pubkey \in Units  BY <2>4, InStep
    <3>2. Created(b) = b /\ b \in Units  BY <2>4, SeckeyIsUnit, BytesAreNat
    <3>3. Times(seckey, b) = Times(b, seckey)  BY <3>1, <3>2, TimesComm, UnitsAreScalars
    <3> QED  BY <2>4, <3>1, <3>2, <3>3 DEF EcdhReturns, EcdhPoint
  <2> QED  BY <2>1, <2>2, <2>3, <2>4 DEF WatcherFollows
<1> QED  BY <1>1, IInvInductive, PTL

(***************************************************************************)
(* A tweaked keypair opens the commitment of the key published before, and *)
(* nothing else does, for every group, key and tweak.                      *)
(***************************************************************************)
THEOREM KeysCommitmentOpens == Spec => []CommitmentOpens
<1>1. IInv => CommitmentOpens
  <2> SUFFICES ASSUME IInv, form = "keypair", internal # None, tweak # None,
                      NEW P \in 1 .. N-1, NEW parity \in {0, 1}
               PROVE  TweakAddCheck(EvenY(P), parity, internal, tweak)
                        <=> /\ keypair.pub # 0
                            /\ EvenY(P) = EvenY(keypair.pub) /\ parity = Parity(keypair.pub)
    BY DEF CommitmentOpens
  <2>1. keypair.pub = IF internal # 0 /\ PubTweaks(internal, tweak)
                        THEN PubTweaked(internal, tweak) ELSE 0
    BY DEF IInv, CommitInv
  <2>2. internal \in Scalars /\ tweak \in Nat  BY DEF IInv, TypeInv
  <2>3. PubTweaks(internal, tweak) => PubTweaked(internal, tweak) # 0  BY <2>2, TweakIsTweak
  <2> QED  BY <2>1, <2>3 DEF TweakAddCheck
<1> QED  BY <1>1, IInvInductive, PTL

(***************************************************************************)
(* A BIP-340 signature made with any keypair, nonce and challenge verifies *)
(* under the watcher's x-only key, and what a failed call leaves under no  *)
(* key.                                                                    *)
(***************************************************************************)
THEOREM KeysSignaturesVerify == Spec => []SignaturesVerify
<1>1. IInv => SignaturesVerify
  <2> SUFFICES ASSUME IInv, form = "keypair", sig # NoSig
               PROVE  IF sig.ret
                        THEN op = NoOp => SchnorrVerify(sig.r, sig.s, sig.e, EvenY(pubkey))
                        ELSE \A e \in Scalars, P \in 1 .. N-1 :
                                ~SchnorrVerify(sig.r, sig.s, e, EvenY(P))
    BY DEF SignaturesVerify
  <2>1. ASSUME sig.ret, op = NoOp
        PROVE  SchnorrVerify(sig.r, sig.s, sig.e, EvenY(pubkey))
    <3> DEFINE d == EvenY(keypair.pub)
               x == Times(sig.e, d)
               k == sig.r
    <3>1. pubkey = keypair.pub /\ keypair.pub # 0 /\ keypair.pub \in Units
      BY <2>1, UnitsAreScalars DEF IInv, FollowInv, TypeInv, SigInv, Public, NoOp
    <3>2. sig.e \in Scalars /\ k \in Units /\ ~IsOdd(k) /\ sig.s = Plus(x, k)
      BY <2>1 DEF IInv, SigInv
    <3>3. d \in Units  BY <3>1, EvenYType
    <3>4. x \in Scalars  BY <3>2, <3>3, TimesType, UnitsAreScalars
    <3> HIDE DEF x
    <3>5. x \in Int /\ k \in Int /\ k \in Scalars /\ k # 0 /\ Neg(x) \in Int
      BY <3>2, <3>4, NegType, UnitsAreScalars
    <3> HIDE DEF k
    <3>6. Plus(Plus(x, k), Neg(x)) = Plus(Plus(k, x), Neg(x))  BY <3>5, PlusComm
    <3>7. Plus(Plus(k, x), Neg(x)) = Plus(k, Plus(x, Neg(x)))  BY <3>5, PlusAssoc
    <3>8. Plus(Plus(x, k), Neg(x)) = k  BY <3>4, <3>5, <3>6, <3>7, PlusNeg, PlusZero
    <3>9. Plus(sig.s, Neg(Times(sig.e, EvenY(pubkey)))) = k  BY <3>1, <3>2, <3>8 DEF x
    <3> QED  BY <3>2, <3>5, <3>9 DEF SchnorrVerify, Infinity, k
  <2>2. ASSUME ~sig.ret, NEW e \in Scalars, NEW P \in 1 .. N-1
        PROVE  ~SchnorrVerify(sig.r, sig.s, e, EvenY(P))
    <3>1. sig.r = 0  BY <2>2 DEF IInv, SigInv
    <3> QED  BY <3>1 DEF SchnorrVerify, Infinity
  <2> QED  BY <2>1, <2>2
<1> QED  BY <1>1, IInvInductive, PTL

-----------------------------------------------------------------------------
(* The heap sort, for arrays of every length *)

SortSpec == SortInit /\ [][SortNext]_sortVars

Elements == [key : SortKeys, pos : Nat]

Children(n) == {child1(n), child2(n)}

\* From lo on, in the first size elements, no child is larger than its parent,
\* except perhaps those of d.
Heap(a, lo, size, d) ==
    \A n \in lo .. size-1 : n # d =>
        \A c \in Children(n) : c < size => a[c].key <= a[n].key

\* The children of d are not larger than its parent.
Bridged(a, lo, size, d) ==
    \A n \in lo .. size-1 : d \in Children(n) =>
        \A c \in Children(d) : c < size => a[c].key <= a[n].key

\* From index from on, each element is the largest so far.
TailIn(a, from, n) == \A p \in from .. n-1 : \A m \in 0 .. p : a[m].key <= a[p].key

\* The types of the sort, and that no element is lost or repeated.
SortTyped ==
    /\ Count \in Nat /\ arr \in [0 .. Count-1 -> Elements]
    /\ phase \in {"idle", "build", "extract", "done"}
    /\ i \in Nat /\ heap_size \in Nat /\ down \in Int
    /\ Range(arr) = Range(given)

\* While the heap is built: from i on it is one, but for the hole down.
Building ==
    /\ heap_size = Count /\ i <= Count
    /\ down # NotDown => down \in i .. heap_size-1
    /\ Heap(arr, i, heap_size, down)
    /\ down # NotDown => Bridged(arr, i, heap_size, down)

\* While the largest elements leave it: the rest is a heap, the tail sorted.
Extracting ==
    /\ heap_size = i /\ i <= Count
    /\ down # NotDown => down \in 0 .. heap_size-1
    /\ Heap(arr, 0, heap_size, down)
    /\ down # NotDown => Bridged(arr, 0, heap_size, down)
    /\ TailIn(arr, i, Count)

SortInv ==
    /\ SortTyped
    /\ phase = "idle" => Count = 0 /\ down = NotDown
    /\ phase = "build" => Building
    /\ phase = "extract" => Extracting
    /\ phase = "done" => down = NotDown /\ TailIn(arr, 0, Count)

LEMMA ArrayCount ==
    ASSUME NEW n \in Nat, NEW a, DOMAIN a = 0 .. n-1
    PROVE  Cardinality(DOMAIN a) = n
BY FS_Interval, 0 \in Int, n - 1 \in Int

\* A swap keeps what is in the array.
LEMMA SwapArr ==
    ASSUME SortTyped, NEW p \in 0 .. Count-1, NEW q \in 0 .. Count-1
    PROVE  /\ Swap(arr, p, q) \in [0 .. Count-1 -> Elements]
           /\ Range(Swap(arr, p, q)) = Range(arr)
           /\ \A m \in 0 .. Count-1 :
                 Swap(arr, p, q)[m] = IF m = q THEN arr[p] ELSE IF m = p THEN arr[q] ELSE arr[m]
<1> DEFINE b == Swap(arr, p, q)
           n == Count
<1>0. n \in Nat /\ arr \in [0 .. n-1 -> Elements]  BY DEF SortTyped
<1> HIDE DEF n
<1>1. b \in [0 .. n-1 -> Elements]  BY <1>0 DEF Swap, n
<1>2. \A m \in 0 .. n-1 : b[m] = IF m = q THEN arr[p] ELSE IF m = p THEN arr[q] ELSE arr[m]
  BY <1>0 DEF Swap, n
<1> HIDE DEF b
<1>3. DOMAIN arr = 0 .. n-1 /\ DOMAIN b = 0 .. n-1 /\ p \in 0 .. n-1 /\ q \in 0 .. n-1
  BY <1>0, <1>1 DEF n
<1>4. ASSUME NEW x \in Range(arr) PROVE x \in Range(b)
  <2>1. PICK m \in 0 .. n-1 : x = arr[m]  BY <1>3, <1>4 DEF Range
  <2>2. x = b[IF m = p THEN q ELSE IF m = q THEN p ELSE m]  BY <1>2, <1>3, <2>1
  <2> QED  BY <1>3, <2>2 DEF Range
<1>5. ASSUME NEW x \in Range(b) PROVE x \in Range(arr)
  <2>1. PICK m \in 0 .. n-1 : x = b[m]  BY <1>3, <1>5 DEF Range
  <2> QED  BY <1>2, <1>3, <2>1 DEF Range
<1>6. Range(b) = Range(arr)  BY <1>4, <1>5
<1> QED  BY <1>1, <1>2, <1>6 DEF b, n

\* The root of a heap is its largest element: the parent of the first larger
\* one would be larger as well.
LEMMA RootIsLargest ==
    ASSUME NEW n \in Nat, NEW a \in [0 .. n-1 -> Elements], NEW size \in 0 .. n,
           Heap(a, 0, size, NotDown)
    PROVE  \A m \in 0 .. size-1 : a[m].key <= a[0].key
<1> DEFINE Larger0 == {m \in 0 .. size-1 : ~(a[m].key <= a[0].key)}
<1> SUFFICES ASSUME Larger0 # {} PROVE FALSE  OBVIOUS
<1>1. \A m \in 0 .. n-1 : a[m].key \in Int  BY HSortAssumption DEF Elements
<1>2. Larger0 \in SUBSET Nat  OBVIOUS
<1>3. PICK m \in Larger0 : \A k \in Larger0 : m <= k
  <2> HIDE DEF Larger0
  <2> QED  BY <1>2, LeastElement
<1>4. m \in 1 .. size-1 /\ a[m].key > a[0].key  BY <1>1, <1>3
<1> DEFINE k == (m - 1) \div 2
<1>5. k \in 0 .. size-1 /\ k < m /\ (m = 2 * k + 1 \/ m = 2 * k + 2)  BY <1>4
<1>6. m \in Children(k)  BY <1>5 DEF Children, child1, child2
<1>7. a[m].key <= a[k].key  BY <1>4, <1>5, <1>6 DEF Heap, NotDown
<1>8. a[k].key > a[0].key  BY <1>1, <1>4, <1>5, <1>7
<1> QED  BY <1>1, <1>3, <1>5, <1>8

LEMMA SortTypes ==
    ASSUME SortTyped
    PROVE  /\ Count \in Nat /\ i \in Nat /\ heap_size \in Nat /\ down \in Int
           /\ arr \in [0 .. Count-1 -> Elements]
           /\ \A m \in 0 .. Count-1 : arr[m].key \in Int
BY HSortAssumption DEF SortTyped, Elements

-----------------------------------------------------------------------------
(* heap_down *)

\* The larger of the children that d has in the heap.
LEMMA LargerChild ==
    ASSUME SortTyped, heap_size <= Count, down \in 0 .. heap_size-1,
           down < heap_size \div 2
    PROVE  /\ Larger \in down + 1 .. heap_size-1
           /\ Larger \in Children(down)
           /\ \A c \in Children(down) : c < heap_size => arr[c].key <= arr[Larger].key
<1>1. child1(down) = 2 * down + 1 /\ child2(down) = 2 * down + 2
  BY DEF SortTyped, child1, child2
<1>2. child1(down) < heap_size  BY <1>1 DEF SortTyped
<1>3. \A m \in 0 .. Count-1 : arr[m].key \in Int  BY HSortAssumption DEF SortTyped, Elements
<1>4. arr[child1(down)].key \in Int /\ (child2(down) < heap_size => arr[child2(down)].key \in Int)
  BY <1>1, <1>2, <1>3 DEF SortTyped
<1> QED  BY <1>1, <1>2, <1>4 DEF Larger, Cmp, Children, SortTyped

\* One step down: the hole moves from down to its larger child.
LEMMA SiftKeepsHeap ==
    ASSUME SortTyped, heap_size <= Count, NEW lo \in Nat, down \in lo .. heap_size-1,
           down < heap_size \div 2, Cmp(arr[Larger], arr[down]) > 0,
           Heap(arr, lo, heap_size, down), Bridged(arr, lo, heap_size, down)
    PROVE  LET b == Swap(arr, down, Larger)
           IN  Heap(b, lo, heap_size, Larger) /\ Bridged(b, lo, heap_size, Larger)
<1> DEFINE b == Swap(arr, down, Larger)
           L == Larger
<1>1. /\ L \in down + 1 .. heap_size-1 /\ L \in Children(down)
      /\ \A c \in Children(down) : c < heap_size => arr[c].key <= arr[L].key
      /\ down \in 0 .. heap_size-1
  BY LargerChild DEF SortTyped
<1>2. heap_size \in Nat /\ Count \in Nat /\ down \in Nat /\ L \in Nat  BY <1>1 DEF SortTyped
<1>3. \A m \in 0 .. heap_size-1 : arr[m].key \in Int
  <2>1. \A m \in 0 .. Count-1 : arr[m].key \in Int  BY SortTypes
  <2> QED  BY <1>2, <2>1
<1>4. arr[down].key < arr[L].key  BY <1>1, <1>3 DEF Cmp
<1>5. \A m \in 0 .. heap_size-1 :
          b[m] = IF m = L THEN arr[down] ELSE IF m = down THEN arr[L] ELSE arr[m]
  <2>1. down \in 0 .. Count-1 /\ L \in 0 .. Count-1  BY <1>1, <1>2
  <2>2. arr \in [0 .. Count-1 -> Elements]  BY DEF SortTyped
  <2>3. \A m \in 0 .. Count-1 :
          b[m] = IF m = L THEN arr[down] ELSE IF m = down THEN arr[L] ELSE arr[m]
    <3>1. Count \in Nat  BY <1>2
    <3> HIDE DEF L
    <3>2. \A m \in 0 .. Count-1 : Swap(arr, down, L)[m] =
              IF m = L THEN arr[down] ELSE IF m = down THEN arr[L] ELSE arr[m]
      BY <2>1, SwapArr
    <3> QED  BY <3>2 DEF L
  <2> HIDE DEF b, L
  <2> QED  BY <1>2, <2>3
<1> HIDE DEF b, L
<1>6. ASSUME NEW n \in lo .. heap_size-1, n # L, NEW c \in Children(n), c < heap_size
      PROVE  b[c].key <= b[n].key
  <2>1. c = 2 * n + 1 \/ c = 2 * n + 2  BY <1>6 DEF Children, child1, child2
  <2>2. n \in 0 .. heap_size-1 /\ c \in 0 .. heap_size-1 /\ c # n  BY <1>2, <1>6, <2>1
  <2>3. CASE n = down
    <3>1. b[n] = arr[L] /\ b[c] = IF c = L THEN arr[down] ELSE arr[c]  BY <1>5, <1>6, <2>2, <2>3
    <3>2. arr[c].key <= arr[L].key  BY <1>1, <1>6, <2>3
    <3> QED  BY <1>1, <1>3, <1>4, <2>2, <3>1, <3>2
  <2>4. CASE n # down
    <3>1. b[n] = arr[n] /\ arr[c].key <= arr[n].key  BY <1>5, <1>6, <2>2, <2>4 DEF Heap
    <3>2. c # L
      <4>1. L = 2 * down + 1 \/ L = 2 * down + 2  BY <1>1 DEF Children, child1, child2
      <4> QED  BY <1>2, <2>1, <2>2, <2>4, <4>1
    <3>3. CASE c = down
      <4>1. L < heap_size /\ L \in Children(down) /\ down \in Children(n)
        BY <1>1, <1>2, <1>6, <3>3
      <4>2. arr[L].key <= arr[n].key  BY <4>1 DEF Bridged
      <4> QED  BY <1>5, <2>2, <3>1, <3>2, <3>3, <4>2
    <3>4. CASE c # down  BY <1>5, <2>2, <3>1, <3>2, <3>4
    <3> QED  BY <3>3, <3>4
  <2> QED  BY <2>3, <2>4
<1>7. ASSUME NEW n \in lo .. heap_size-1, L \in Children(n), NEW c \in Children(L), c < heap_size
      PROVE  b[c].key <= b[n].key
  <2>1. L = 2 * down + 1 \/ L = 2 * down + 2  BY <1>1 DEF Children, child1, child2
  <2>2. L = 2 * n + 1 \/ L = 2 * n + 2  BY <1>7 DEF Children, child1, child2
  <2>3. c = 2 * L + 1 \/ c = 2 * L + 2  BY <1>7 DEF Children, child1, child2
  <2>4. n = down  BY <1>2, <2>1, <2>2
  <2>5. c \in 0 .. heap_size-1 /\ c # L /\ c # down /\ L # down  BY <1>1, <1>2, <1>7, <2>3
  <2>6. b[c] = arr[c] /\ b[n] = arr[L]  BY <1>1, <1>5, <2>4, <2>5
  <2>7. L \in lo .. heap_size-1 /\ L # down  BY <1>1, <1>2
  <2>8. arr[c].key <= arr[L].key  BY <1>7, <2>7 DEF Heap
  <2> QED  BY <2>6, <2>8
<1> QED  BY <1>6, <1>7 DEF Heap, Bridged, b, L

\* Where heap_down stops there is no exception any more.
LEMMA SiftEnds ==
    ASSUME SortTyped, heap_size <= Count, NEW lo \in Nat, down \in lo .. heap_size-1,
           down < heap_size \div 2 => Cmp(arr[Larger], arr[down]) <= 0,
           Heap(arr, lo, heap_size, down)
    PROVE  Heap(arr, lo, heap_size, NotDown)
<1> SUFFICES ASSUME NEW c \in Children(down), c < heap_size
             PROVE  arr[c].key <= arr[down].key
  BY DEF Heap
<1>1. c = 2 * down + 1 \/ c = 2 * down + 2  BY DEF Children, child1, child2
<1>2. down < heap_size \div 2 /\ down \in 0 .. heap_size-1  BY <1>1 DEF SortTyped
<1>3. arr[c].key <= arr[Larger].key /\ Larger \in down + 1 .. heap_size-1
  BY <1>2, LargerChild
<1>4. \A m \in 0 .. heap_size-1 : arr[m].key \in Int
  <2>1. (\A m \in 0 .. Count-1 : arr[m].key \in Int) /\ Count \in Nat /\ heap_size \in Nat
    BY SortTypes
  <2> QED  BY <2>1
<1>5. arr[c].key \in Int /\ arr[Larger].key \in Int /\ arr[down].key \in Int
  BY <1>1, <1>2, <1>3, <1>4 DEF SortTyped
<1>6. arr[Larger].key <= arr[down].key  BY <1>2, <1>5 DEF Cmp
<1> QED  BY <1>3, <1>5, <1>6

-----------------------------------------------------------------------------
(* The inductive invariant *)

LEMMA SortInitInv == SortInit => SortInv
<1> SUFFICES ASSUME SortInit PROVE SortInv  OBVIOUS
<1>1. arr = Array(<<>>) /\ DOMAIN arr = 0 .. 0-1  BY DEF SortInit, Array
<1>2. Count = 0  BY <1>1, ArrayCount DEF Count
<1>3. arr \in [0 .. Count-1 -> Elements]  BY <1>1, <1>2 DEF SortInit, Array
<1> QED  BY <1>2, <1>3 DEF SortInit, SortInv, SortTyped, NotDown

LEMMA SortStartInv == ASSUME SortInv, SortStart PROVE SortInv'
<1>0. PICK n \in 0 .. MaxCount : \E keys \in [0 .. n-1 -> SortKeys] :
          arr' = Array(keys) /\ i' = n \div 2 /\ heap_size' = n
  BY DEF SortStart
<1>1. PICK keys \in [0 .. n-1 -> SortKeys] :
          arr' = Array(keys) /\ i' = n \div 2 /\ heap_size' = n
  BY <1>0
<1>2. n \in Nat /\ DOMAIN (arr') = 0 .. n-1  BY <1>1, HSortAssumption DEF Array
<1>3. Count' = n  BY <1>2, ArrayCount DEF Count
<1>4. arr' \in [0 .. n-1 -> Elements]
  <2>1. ASSUME NEW p \in 0 .. n-1 PROVE [key |-> keys[p], pos |-> p] \in Elements
    BY <1>2 DEF Elements
  <2> QED  BY <1>1, <2>1 DEF Array
<1>5. down' = NotDown /\ phase' = "build" /\ given' = arr'  BY DEF SortStart, SortInv
<1>6. SortTyped'  BY <1>1, <1>2, <1>3, <1>4, <1>5 DEF SortTyped, NotDown
<1>7. Heap(arr', i', heap_size', NotDown)
  BY <1>1, <1>2 DEF Heap, Children, child1, child2
<1>8. Building'  BY <1>1, <1>2, <1>3, <1>5, <1>7 DEF Building
<1> QED  BY <1>5, <1>6, <1>8 DEF SortInv

LEMMA HeapifyInv == ASSUME SortInv, Heapify PROVE SortInv'
<1>1. SortTyped /\ Building /\ phase = "build" /\ down = NotDown /\ i > 0  BY DEF SortInv, Heapify
<1>2. /\ down' = i - 1 /\ i' = i - 1
      /\ arr' = arr /\ given' = given /\ phase' = phase /\ heap_size' = heap_size
  BY DEF Heapify
<1>3. SortTyped' /\ Count' = Count  BY <1>1, <1>2 DEF SortTyped, Count
<1>4. Heap(arr, i - 1, heap_size, i - 1)
  BY <1>1 DEF SortTyped, Building, Heap, NotDown
<1>5. Bridged(arr, i - 1, heap_size, i - 1)
  BY <1>1 DEF SortTyped, Building, Bridged, Children, child1, child2
<1>6. Building'  BY <1>1, <1>2, <1>3, <1>4, <1>5 DEF Building, SortTyped
<1> QED  BY <1>1, <1>2, <1>3, <1>6 DEF SortInv

LEMMA BuiltInv == ASSUME SortInv, Built PROVE SortInv'
<1>1. SortTyped /\ Building /\ phase = "build" /\ down = NotDown /\ i = 0  BY DEF SortInv, Built
<1>2. /\ phase' = "extract" /\ i' = Count
      /\ arr' = arr /\ given' = given /\ down' = down /\ heap_size' = heap_size
  BY DEF Built
<1>3. SortTyped' /\ Count' = Count  BY <1>1, <1>2 DEF SortTyped, Count
<1>4. TailIn(arr, Count, Count)  BY <1>1 DEF TailIn, SortTyped
<1>5. Extracting'  BY <1>1, <1>2, <1>3, <1>4 DEF Building, Extracting, SortTyped
<1> QED  BY <1>2, <1>3, <1>5 DEF SortInv

LEMMA ExtractInv == ASSUME SortInv, Extract PROVE SortInv'
<1>1. SortTyped /\ Extracting /\ phase = "extract" /\ down = NotDown /\ i > 1
  BY DEF SortInv, Extract
<1>2. /\ arr' = Swap(arr, 0, i - 1) /\ down' = 0 /\ heap_size' = i - 1 /\ i' = i - 1
      /\ given' = given /\ phase' = phase
  BY DEF Extract
<1>3. /\ Count \in Nat /\ arr \in [0 .. Count-1 -> Elements] /\ i \in Nat
      /\ heap_size = i /\ i <= Count /\ 0 \in 0 .. Count-1 /\ i - 1 \in 0 .. Count-1
  BY <1>1 DEF SortTyped, Extracting
<1>4. /\ arr' \in [0 .. Count-1 -> Elements] /\ Range(arr') = Range(arr)
      /\ \A m \in 0 .. Count-1 :
            arr'[m] = IF m = i - 1 THEN arr[0] ELSE IF m = 0 THEN arr[i - 1] ELSE arr[m]
  BY <1>1, <1>2, <1>3, SwapArr
<1>5. Count' = Count  BY <1>3, <1>4, ArrayCount DEF Count
<1>6. SortTyped'  BY <1>1, <1>2, <1>3, <1>4, <1>5 DEF SortTyped
<1>7. \A m \in 0 .. i-1 : arr[m].key <= arr[0].key
  BY <1>1, <1>3, RootIsLargest DEF Extracting
<1>8. \A m \in 0 .. Count-1 : arr[m].key \in Int  BY <1>3, HSortAssumption DEF Elements
<1>9. Heap(arr', 0, i - 1, 0)
  <2> SUFFICES ASSUME NEW n \in 0 .. i-2, n # 0, NEW c \in Children(n), c < i - 1
               PROVE  arr'[c].key <= arr'[n].key
    BY <1>3 DEF Heap
  <2>1. c = 2 * n + 1 \/ c = 2 * n + 2  BY DEF Children, child1, child2
  <2>2. /\ n \in 0 .. heap_size-1 /\ n # NotDown /\ c < heap_size
        /\ n \in 1 .. i-2 /\ c \in 1 .. i-2
    BY <1>3, <2>1 DEF NotDown
  <2>3. arr[c].key <= arr[n].key  BY <1>1, <2>2 DEF Extracting, Heap
  <2> QED  BY <1>3, <1>4, <2>2, <2>3
<1>10. Bridged(arr', 0, i - 1, 0)  BY <1>3 DEF Bridged, Children, child1, child2
<1>11. TailIn(arr', i - 1, Count)
  <2> SUFFICES ASSUME NEW p \in i-1 .. Count-1, NEW m \in 0 .. p
               PROVE  arr'[m].key <= arr'[p].key
    BY DEF TailIn
  <2>1. m \in 0 .. Count-1 /\ p \in 0 .. Count-1  BY <1>3
  <2>2. CASE p = i - 1
    <3>1. arr'[p] = arr[0]  BY <1>4, <2>1, <2>2
    <3>2. \E k \in 0 .. i-1 : arr'[m] = arr[k]  BY <1>3, <1>4, <2>1, <2>2
    <3> QED  BY <1>7, <3>1, <3>2
  <2>3. CASE p # i - 1
    <3>1. p \in i .. Count-1 /\ arr'[p] = arr[p]  BY <1>3, <1>4, <2>1, <2>3
    <3>2. \E k \in 0 .. p : arr'[m] = arr[k]  BY <1>3, <1>4, <2>1, <3>1
    <3> QED  BY <1>1, <3>1, <3>2 DEF Extracting, TailIn
  <2> QED  BY <2>2, <2>3
<1>12. Extracting'
  <2>1. /\ heap_size' = i' /\ i' <= Count' /\ down' = 0
        /\ down' \in 0 .. heap_size'-1 /\ i' = i - 1 /\ heap_size' = i - 1
    BY <1>1, <1>2, <1>3, <1>5
  <2> QED  BY <1>5, <1>9, <1>10, <1>11, <2>1 DEF Extracting
<1> QED  BY <1>1, <1>2, <1>6, <1>12 DEF SortInv

LEMMA FinishInv == ASSUME SortInv, Finish PROVE SortInv'
<1>1. SortTyped /\ Extracting /\ phase = "extract" /\ down = NotDown /\ i <= 1
  BY DEF SortInv, Finish
<1>2. /\ phase' = "done"
      /\ arr' = arr /\ given' = given /\ i' = i /\ down' = down /\ heap_size' = heap_size
  BY DEF Finish
<1>3. SortTyped' /\ Count' = Count  BY <1>1, <1>2 DEF SortTyped, Count
<1>4. TailIn(arr, 0, Count)
  <2> SUFFICES ASSUME NEW p \in 0 .. Count-1, NEW m \in 0 .. p PROVE arr[m].key <= arr[p].key
    BY DEF TailIn
  <2>1. arr[p].key \in Int  BY <1>1, HSortAssumption DEF SortTyped, Elements
  <2>2. p \in i .. Count-1 \/ m = p  BY <1>1 DEF SortTyped
  <2> QED  BY <1>1, <2>1, <2>2 DEF Extracting, TailIn
<1> QED  BY <1>1, <1>2, <1>3, <1>4 DEF SortInv

LEMMA SiftDownInv == ASSUME SortInv, SiftDown PROVE SortInv'
<1> DEFINE lo == IF phase = "build" THEN i ELSE 0
<1>1. /\ down # NotDown /\ down < heap_size \div 2 /\ Cmp(arr[Larger], arr[down]) > 0
      /\ arr' = Swap(arr, down, Larger) /\ down' = Larger
      /\ given' = given /\ phase' = phase /\ i' = i /\ heap_size' = heap_size
  BY DEF SiftDown
<1>2. SortTyped /\ phase \in {"build", "extract"}  BY <1>1 DEF SortInv, SortTyped
<1>3. /\ heap_size \in Nat /\ heap_size <= Count /\ lo \in Nat /\ down \in lo .. heap_size-1
      /\ Heap(arr, lo, heap_size, down) /\ Bridged(arr, lo, heap_size, down)
  BY <1>1, <1>2 DEF SortInv, Building, Extracting, SortTyped
<1>4. Larger \in down + 1 .. heap_size-1 /\ down \in 0 .. heap_size-1
  <2>1. down \in 0 .. heap_size-1  BY <1>3
  <2> QED  BY <1>1, <1>2, <1>3, <2>1, LargerChild
<1>5. Heap(arr', lo, heap_size, Larger) /\ Bridged(arr', lo, heap_size, Larger)
  <2> HIDE DEF lo
  <2> QED  BY <1>1, <1>2, <1>3, SiftKeepsHeap
<1>6. Count \in Nat /\ arr \in [0 .. Count-1 -> Elements]  BY <1>2 DEF SortTyped
<1>7. down \in 0 .. Count-1 /\ Larger \in 0 .. Count-1 /\ Larger # NotDown
      /\ Larger \in lo .. heap_size-1
  BY <1>3, <1>4, <1>6 DEF NotDown
<1>8. /\ arr' \in [0 .. Count-1 -> Elements] /\ Range(arr') = Range(arr)
      /\ \A m \in 0 .. Count-1 :
            arr'[m] = IF m = Larger THEN arr[down] ELSE IF m = down THEN arr[Larger] ELSE arr[m]
  <2> DEFINE L == Larger
  <2>1. down \in 0 .. Count-1 /\ L \in 0 .. Count-1 /\ arr' = Swap(arr, down, L)
    BY <1>1, <1>7
  <2> HIDE DEF L
  <2>2. /\ Swap(arr, down, L) \in [0 .. Count-1 -> Elements]
        /\ Range(Swap(arr, down, L)) = Range(arr)
        /\ \A m \in 0 .. Count-1 : Swap(arr, down, L)[m] =
              IF m = L THEN arr[down] ELSE IF m = down THEN arr[L] ELSE arr[m]
    BY <1>2, <2>1, SwapArr
  <2> QED  BY <2>1, <2>2 DEF L
<1>9. Count' = Count  BY <1>6, <1>8, ArrayCount DEF Count
<1>10. SortTyped'  BY <1>1, <1>2, <1>7, <1>8, <1>9 DEF SortTyped
<1>11. CASE phase = "build"
  <2>1. Building'  BY <1>1, <1>2, <1>5, <1>7, <1>9, <1>11 DEF Building, SortInv
  <2> QED  BY <1>1, <1>10, <1>11, <2>1 DEF SortInv
<1>12. CASE phase = "extract"
  <2>1. Extracting /\ heap_size = i  BY <1>12 DEF SortInv, Extracting
  <2>2. TailIn(arr', i, Count)
    <3> SUFFICES ASSUME NEW p \in i .. Count-1, NEW m \in 0 .. p
                 PROVE  arr'[m].key <= arr'[p].key
      BY DEF TailIn
    <3>1. /\ m \in 0 .. Count-1 /\ p \in 0 .. Count-1 /\ p # Larger /\ p # down
          /\ down <= p /\ Larger <= p
      BY <1>2, <1>4, <2>1 DEF SortTyped
    <3>2. arr'[p] = arr[p]  BY <1>8, <3>1
    <3>3. \E k \in 0 .. p : arr'[m] = arr[k]  BY <1>4, <1>8, <3>1
    <3> QED  BY <2>1, <3>2, <3>3 DEF Extracting, TailIn
  <2>3. Extracting'  BY <1>1, <1>5, <1>7, <1>9, <1>12, <2>1, <2>2 DEF Extracting
  <2> QED  BY <1>1, <1>10, <1>12, <2>3 DEF SortInv
<1> QED  BY <1>2, <1>11, <1>12

LEMMA SiftDoneInv == ASSUME SortInv, SiftDone PROVE SortInv'
<1> DEFINE lo == IF phase = "build" THEN i ELSE 0
<1>1. /\ down # NotDown /\ (down < heap_size \div 2 => Cmp(arr[Larger], arr[down]) <= 0)
      /\ down' = NotDown
      /\ arr' = arr /\ given' = given /\ phase' = phase /\ i' = i /\ heap_size' = heap_size
  BY DEF SiftDone
<1>2. SortTyped /\ phase \in {"build", "extract"}  BY <1>1 DEF SortInv, SortTyped
<1>3. /\ heap_size <= Count /\ lo \in Nat /\ down \in lo .. heap_size-1
      /\ Heap(arr, lo, heap_size, down)
  BY <1>1, <1>2 DEF SortInv, Building, Extracting, SortTyped
<1>4. Heap(arr, lo, heap_size, NotDown)
  <2> HIDE DEF lo
  <2> QED  BY <1>1, <1>2, <1>3, SiftEnds
<1>5. SortTyped' /\ Count' = Count  BY <1>1, <1>2 DEF SortTyped, Count, NotDown
<1>6. phase = "build" => Building'  BY <1>1, <1>4, <1>5 DEF SortInv, Building
<1>7. phase = "extract" => Extracting'  BY <1>1, <1>4, <1>5 DEF SortInv, Extracting
<1> QED  BY <1>1, <1>2, <1>5, <1>6, <1>7 DEF SortInv

LEMMA SortReturnInv == ASSUME SortInv, SortReturn PROVE SortInv'
<1>1. /\ arr' = Array(<<>>) /\ given' = Array(<<>>) /\ DOMAIN (arr') = 0 .. 0-1
      /\ phase' = "idle" /\ i' = 0 /\ heap_size' = 0 /\ down' = NotDown
  BY DEF SortReturn, SortInv, Array
<1>2. Count' = 0  BY <1>1, ArrayCount DEF Count
<1>3. arr' \in [0 .. Count'-1 -> Elements]  BY <1>1, <1>2 DEF Array
<1> QED  BY <1>1, <1>2, <1>3 DEF SortInv, SortTyped, NotDown

LEMMA SortInvInductive == SortSpec => []SortInv
<1>1. SortInv /\ [SortNext]_sortVars => SortInv'
  <2> SUFFICES ASSUME SortInv, [SortNext]_sortVars PROVE SortInv'  OBVIOUS
  <2>1. CASE SortStart  BY <2>1, SortStartInv
  <2>2. CASE Heapify  BY <2>2, HeapifyInv
  <2>3. CASE Built  BY <2>3, BuiltInv
  <2>4. CASE Extract  BY <2>4, ExtractInv
  <2>5. CASE Finish  BY <2>5, FinishInv
  <2>6. CASE SiftDown  BY <2>6, SiftDownInv
  <2>7. CASE SiftDone  BY <2>7, SiftDoneInv
  <2>8. CASE SortReturn  BY <2>8, SortReturnInv
  <2>9. CASE UNCHANGED sortVars
    BY <2>9 DEF sortVars, SortInv, SortTyped, Building, Extracting, Count
  <2> QED  BY <2>1, <2>2, <2>3, <2>4, <2>5, <2>6, <2>7, <2>8, <2>9 DEF SortNext, Sorting
<1> QED  BY <1>1, SortInitInv, PTL DEF SortSpec

(***************************************************************************)
(* Arrays of every length are sorted, by every comparison of keys: while   *)
(* the heap is built and taken apart it has the property that heap_down's  *)
(* comment claims, what has left it is in its final place, and no element  *)
(* is lost or repeated.                                                    *)
(***************************************************************************)
THEOREM HSortSound == SortSpec => []HeapSound
<1>1. SortInv => HeapSound
  <2> SUFFICES ASSUME SortInv PROVE HeapGrows /\ TailSorted  BY DEF HeapSound
  <2>1. SortTyped  BY DEF SortInv
  <2>2. \A m \in 0 .. Count-1 : arr[m].key \in Int
    BY <2>1, HSortAssumption DEF SortTyped, Elements
  <2>3. HeapGrows
    <3> SUFFICES ASSUME phase \in {"build", "extract"},
                        NEW n \in 0 .. heap_size-1, NEW c \in {child1(n), child2(n)},
                        c < heap_size, n # down, phase = "build" => n >= i
                 PROVE  Cmp(arr[c], arr[n]) <= 0
      BY DEF HeapGrows
    <3>1. c = 2 * n + 1 \/ c = 2 * n + 2  BY DEF child1, child2
    <3>2. heap_size \in Nat /\ i \in Nat /\ heap_size <= Count /\ Count \in Nat
      BY <2>1 DEF SortInv, SortTyped, Building, Extracting
    <3>3. arr[c].key <= arr[n].key
      BY <3>2 DEF SortInv, Building, Extracting, Heap, Children
    <3>4. arr[c].key \in Int /\ arr[n].key \in Int  BY <2>2, <3>1, <3>2
    <3> QED  BY <3>3, <3>4 DEF Cmp
  <2>4. TailSorted
    <3>1. Range(arr) = Range(given)  BY <2>1 DEF SortTyped
    <3>2. ASSUME phase # "build", NEW n \in 0 .. Count-1, n >= i \/ phase = "done",
                 NEW m \in 0 .. n
          PROVE  Cmp(arr[m], arr[n]) <= 0
      <4>1. Count \in Nat /\ i \in Nat  BY <2>1 DEF SortTyped
      <4>2. arr[m].key <= arr[n].key
        BY <3>2, <2>1, <4>1 DEF SortInv, SortTyped, Extracting, TailIn
      <4>3. arr[m].key \in Int /\ arr[n].key \in Int  BY <2>2, <4>1
      <4> QED  BY <4>2, <4>3 DEF Cmp
    <3> QED  BY <3>1, <3>2 DEF TailSorted
  <2> QED  BY <2>3, <2>4
<1> QED  BY <1>1, SortInvInductive, PTL

-----------------------------------------------------------------------------
(* Single-word scalars: words, bytes and what is below the order *)

Cut      == 2^BitsLow
Base     == 2^ByteLow
Reduced  == 0 .. NLow-1
Place(j) == 2^(ByteLow * j)     \* of the byte with j bytes below it

\* The exponents that occur: up to the bits of all the bytes.
LEMMA LowExponents ==
    /\ \A ii \in 0 .. BytesLow * ByteLow : 2^ii \in Nat \ {0}
    /\ \A ii, j \in Nat : ii + j <= BytesLow * ByteLow => 2^(ii + j) = 2^ii * 2^j
    /\ BytesLow * ByteLow \in Nat /\ 2^0 = 1 /\ 2^1 = 2
<1> DEFINE E == BytesLow * ByteLow
<1>1. E \in Nat  BY ScalarLowAssumption
<1>2. /\ 2^0 = 1 /\ 2^1 = 2
      /\ \A ii \in 0 .. E : 2^ii \in Nat \ {0}
      /\ \A ii, j \in 0 .. E : ii + j \in 0 .. E => 2^(ii + j) = 2^ii * 2^j
  BY LowPowersOfTwo
<1> HIDE DEF E
<1>3. ASSUME NEW ii \in Nat, NEW j \in Nat, ii + j <= E PROVE 2^(ii + j) = 2^ii * 2^j
  <2>1. ii \in 0 .. E /\ j \in 0 .. E /\ ii + j \in 0 .. E  BY <1>1, <1>3
  <2> QED  BY <2>1, <1>2
<1> QED  BY <1>1, <1>2, <1>3 DEF E

\* The places of the bytes.
LEMMA Places ==
    /\ Base \in Nat \ {0} /\ Base >= 2 /\ Place(0) = 1 /\ Place(BytesLow) = 2^(BytesLow * ByteLow)
    /\ \A j \in 0 .. BytesLow : Place(j) \in Nat \ {0} /\ ByteLow * j \in 0 .. BytesLow * ByteLow
    /\ \A j \in 1 .. BytesLow : Place(j) = Place(j-1) * Base
<1>1. ByteLow \in Nat \ {0} /\ BytesLow \in Nat \ {0}
  BY ScalarLowAssumption
<1>2. ASSUME NEW j \in 0 .. BytesLow PROVE ByteLow * j \in 0 .. BytesLow * ByteLow
  <2>1. j \in Nat /\ BytesLow - j \in Nat  BY <1>1
  <2>2. ByteLow * j \in Nat /\ ByteLow * (BytesLow - j) \in Nat  BY ONLY <1>1, <2>1
  <2>3. ByteLow * j + ByteLow * (BytesLow - j) = BytesLow * ByteLow  BY ONLY <1>1, <2>1
  <2> DEFINE x == ByteLow * j
             y == ByteLow * (BytesLow - j)
             e == BytesLow * ByteLow
  <2> HIDE DEF x, y, e
  <2>4. x \in Nat /\ y \in Nat /\ x + y = e  BY ONLY <2>2, <2>3 DEF x, y, e
  <2> QED  BY ONLY <2>4 DEF x, e
<1>3. ASSUME NEW j \in 0 .. BytesLow PROVE Place(j) \in Nat \ {0}
  BY <1>2, LowExponents DEF Place
<1>4. ASSUME NEW j \in 1 .. BytesLow PROVE Place(j) = Place(j-1) * Base
  <2>1. j \in 0 .. BytesLow /\ j - 1 \in 0 .. BytesLow /\ j - 1 \in Nat  BY <1>1
  <2>2. ByteLow * (j-1) \in Nat /\ ByteLow * (j-1) + ByteLow = ByteLow * j  BY ONLY <1>1, <2>1
  <2>3. ByteLow * j \in 0 .. BytesLow * ByteLow  BY <2>1, <1>2
  <2>4. ByteLow * (j-1) + ByteLow <= BytesLow * ByteLow  BY ONLY <2>2, <2>3
  <2>5. 2^(ByteLow * (j-1) + ByteLow) = 2^(ByteLow * (j-1)) * 2^ByteLow
    BY ONLY <1>1, <2>2, <2>4, LowExponents
  <2> QED  BY ONLY <2>2, <2>5 DEF Place, Base
<1>5. ByteLow * 1 = ByteLow /\ ByteLow * 0 = 0 /\ ByteLow * BytesLow = BytesLow * ByteLow
  BY ONLY <1>1
<1>6. 0 \in 0 .. BytesLow /\ 1 \in 0 .. BytesLow /\ 1 \in 1 .. BytesLow  BY <1>1
<1>7. Place(0) = 1 /\ Place(1) = Base /\ Place(BytesLow) = 2^(BytesLow * ByteLow)
  BY ONLY <1>5, LowExponents DEF Place, Base
<1>8. Base >= 2
  <2>1. ByteLow \in 0 .. BytesLow * ByteLow /\ 1 + (ByteLow - 1) = ByteLow /\ ByteLow - 1 \in Nat
        /\ BytesLow * ByteLow \in Nat
    BY ONLY <1>1, <1>2, <1>5, <1>6, LowExponents
  <2>2. ByteLow - 1 \in 0 .. BytesLow * ByteLow /\ 1 + (ByteLow - 1) <= BytesLow * ByteLow
    BY ONLY <2>1
  <2>3. 2^(1 + (ByteLow - 1)) = 2^1 * 2^(ByteLow - 1)  BY ONLY <2>1, <2>2, LowExponents
  <2>4. 2^(ByteLow - 1) \in Nat \ {0}  BY ONLY <2>2, LowExponents
  <2>5. Base = 2 * 2^(ByteLow - 1)  BY ONLY <2>1, <2>3, LowExponents DEF Base
  <2> QED  BY ONLY <2>4, <2>5
<1>9. Base \in Nat \ {0}  BY ONLY <1>3, <1>6, <1>7
<1> QED  BY ONLY <1>2, <1>3, <1>4, <1>7, <1>8, <1>9

\* What is added and multiplied fits in the word.
LEMMA LowNumbers ==
    /\ NLow \in Nat \ {0} /\ NLow > 1 /\ Cut \in Nat \ {0}
    /\ 2 * NLow <= Cut /\ NLow * Base <= Cut /\ NLow * NLow < Cut
<1>1. NLow \in Nat \ {0} /\ NLow > 1 /\ NLow * Base <= Cut /\ NLow * NLow < Cut
  BY ScalarLowAssumption DEF Cut, Base
<1>2. Base \in Nat \ {0} /\ Base >= 2  BY Places
<1>3. BitsLow \in 0 .. BytesLow * ByteLow
  <2>1. BitsLow \in Nat /\ BytesLow * ByteLow \in Nat /\ BitsLow < BytesLow * ByteLow
    BY ScalarLowAssumption, LowExponents
  <2> QED  BY ONLY <2>1
<1>4. Cut \in Nat \ {0}  BY ONLY <1>3, LowExponents DEF Cut
<1>5. NLow * (Base - 2) >= 0  BY ONLY <1>1, <1>2
<1>6. NLow * Base >= 2 * NLow  BY ONLY <1>1, <1>2, <1>5
<1>7. NLow * Base \in Int  BY ONLY <1>1, <1>2
<1> QED  BY ONLY <1>1, <1>4, <1>6, <1>7

\* A number that fits is not cut.
LEMMA Fits ==
    ASSUME NEW x \in Int, 0 <= x, x < Cut
    PROVE  UL(x) = x
<1>1. Cut \in Nat \ {0} /\ x = Cut * 0 + x  BY LowNumbers
<1>2. x % Cut = x  BY ONLY <1>1, x \in Int, 0 <= x, x < Cut, QuotientUnique
<1> QED  BY ONLY <1>2 DEF UL, Low, Cut

-----------------------------------------------------------------------------
(* Single-word scalars: sums, products and inverses *)

\* The sum, and whether it was reduced, as the comparison finds out.
LEMMA LowSum ==
    ASSUME NEW a \in Reduced, NEW b \in Reduced
    PROVE  add_low(a, b) = [r |-> (a + b) % NLow, overflow |-> (a + b) \div NLow]
           /\ (a + b) % NLow \in Reduced
<1> DEFINE c == a + b
<1>1. NLow \in Nat \ {0} /\ 2 * NLow <= Cut /\ Cut \in Nat  BY LowNumbers
<1>2. a \in Int /\ b \in Int /\ 0 <= a /\ a < NLow /\ 0 <= b /\ b < NLow
  BY <1>1 DEF Reduced
<1>3. c \in Int /\ 0 <= c /\ c < Cut /\ c = a + b /\ c < 2 * NLow  BY ONLY <1>1, <1>2 DEF c
<1> HIDE DEF c
<1>4. UL(c) = c  BY <1>3, Fits
<1>5. CASE c < NLow
  <2>1. c = NLow * 0 + c  BY ONLY <1>1, <1>3
  <2>2. c \div NLow = 0 /\ c % NLow = c  BY ONLY <1>1, <1>3, <1>5, <2>1, 0 \in Int, QuotientUnique
  <2>3. ~(c < b)  BY ONLY <1>2, <1>3
  <2>4. c \in Reduced  BY ONLY <1>1, <1>3, <1>5 DEF Reduced
  <2> QED  BY ONLY <1>4, <2>2, <2>3, <2>4 DEF add_low, WithLess, Bool, c
<1>6. CASE c >= NLow
  <2>1. c = NLow * 1 + (c - NLow) /\ c - NLow \in Int /\ 0 <= c - NLow /\ c - NLow < NLow
    BY ONLY <1>1, <1>3, <1>6
  <2>2. c \div NLow = 1 /\ c % NLow = c - NLow
    BY ONLY <1>1, <1>3, <2>1, 1 \in Int, QuotientUnique
  <2>3. c - NLow < b  BY ONLY <1>1, <1>2, <1>3
  <2>4. c - NLow \in Reduced  BY ONLY <1>1, <2>1 DEF Reduced
  <2> QED  BY ONLY <1>4, <2>2, <2>3, <2>4 DEF add_low, WithLess, Bool, c
<1> QED  BY ONLY <1>1, <1>3, <1>5, <1>6

\* Remainders are reduced.
LEMMA LowRemainder ==
    ASSUME NEW x \in Int
    PROVE  x % NLow \in Reduced
<1>1. NLow \in Nat \ {0}  BY LowNumbers
<1>2. x % NLow \in Nat /\ x % NLow < NLow  BY ONLY <1>1, x \in Int, DivMod
<1> QED  BY ONLY <1>1, <1>2 DEF Reduced

\* A product of scalars does not leave the word.
LEMMA LowProduct ==
    ASSUME NEW a \in Reduced, NEW b \in Reduced
    PROVE  /\ a * b \in Nat /\ a * b < Cut /\ UL(a * b) = a * b
           /\ mul_low(a, b) = (a * b) % NLow
<1>1. NLow \in Nat \ {0} /\ NLow * NLow < Cut /\ Cut \in Nat  BY LowNumbers
<1>2. a \in Nat /\ b \in Nat /\ a < NLow /\ b < NLow  BY <1>1 DEF Reduced
<1>3. a * b \in Nat  BY ONLY <1>2
<1>4. a * b <= NLow * NLow
  <2>1. (NLow - a) * b >= 0 /\ NLow * (NLow - b) >= 0  BY ONLY <1>1, <1>2
  <2> QED  BY ONLY <2>1, <1>1, <1>2
<1> DEFINE c == a * b
           nn == NLow * NLow
<1>5. c \in Int /\ 0 <= c /\ c < Cut
  <2>1. c \in Nat /\ nn \in Nat /\ c <= nn /\ nn < Cut  BY ONLY <1>1, <1>3, <1>4
  <2> HIDE DEF c, nn
  <2> QED  BY ONLY <1>1, <2>1
<1> HIDE DEF c
<1>6. UL(c) = c  BY <1>5, Fits
<1> QED  BY ONLY <1>3, <1>5, <1>6 DEF c, mul_low

\* The negative, and a reduced number is its own remainder.
LEMMA LowNegative ==
    ASSUME NEW a \in Reduced
    PROVE  negate_low(a) = (-a) % NLow /\ a % NLow = a
<1>1. NLow \in Nat \ {0} /\ a \in Int /\ 0 <= a /\ a < NLow  BY LowNumbers DEF Reduced
<1>2. a = NLow * 0 + a  BY ONLY <1>1
<1>3. a % NLow = a  BY ONLY <1>1, <1>2, 0 \in Int, QuotientUnique
<1>4. CASE a = 0
  <2>1. -a = NLow * 0 + a /\ -a \in Int  BY ONLY <1>1, <1>4
  <2>2. (-a) % NLow = a  BY ONLY <1>1, <2>1, 0 \in Int, QuotientUnique
  <2> QED  BY ONLY <1>3, <1>4, <2>2 DEF negate_low
<1>5. CASE a # 0
  <2>1. -a = NLow * (-1) + (NLow - a) /\ NLow - a \in Int /\ 0 <= NLow - a /\ NLow - a < NLow
        /\ -a \in Int /\ -1 \in Int
    BY ONLY <1>1, <1>5
  <2>2. (-a) % NLow = NLow - a  BY ONLY <1>1, <2>1, QuotientUnique
  <2>3. negate_low(a) = NLow - a  BY ONLY <1>5 DEF negate_low
  <2> QED  BY ONLY <1>3, <2>2, <2>3
<1> QED  BY <1>4, <1>5

\* The half, for which an odd number is first made even.
LEMMA LowHalfOf ==
    ASSUME NEW a \in Reduced
    PROVE  /\ half_low(a) = IF Odd(a) THEN (a + NLow) \div 2 ELSE a \div 2
           /\ half_low(a) \in Reduced
<1>1. NLow \in Nat \ {0} /\ 2 * NLow <= Cut /\ Cut \in Nat  BY LowNumbers
<1>2. a \in Int /\ 0 <= a /\ a < NLow  BY <1>1 DEF Reduced
<1> DEFINE c == IF Odd(a) THEN a + NLow ELSE a
<1>3. c \in Int /\ 0 <= c /\ c < 2 * NLow /\ c < Cut
      /\ a + (IF Odd(a) THEN NLow ELSE 0) = c
  BY ONLY <1>1, <1>2 DEF c
<1> HIDE DEF c
<1>4. UL(c) = c  BY <1>3, Fits
<1>5. half_low(a) = c \div 2  BY ONLY <1>3, <1>4 DEF half_low
<1>6. c \div 2 \in Int /\ 0 <= c \div 2 /\ c \div 2 < NLow  BY ONLY <1>1, <1>3
<1>7. c \div 2 \in Reduced  BY ONLY <1>1, <1>6 DEF Reduced
<1> QED  BY ONLY <1>5, <1>7 DEF c

\* NLow is prime: some multiple of x leaves 1.
LEMMA LowInvertible ==
    ASSUME NEW x \in 1 .. NLow-1
    PROVE  \E ii \in Reduced : (ii * x) % NLow = 1
<1> DEFINE S == {(ii * x) % NLow : ii \in Nat} \ {0}
<1>1. NLow \in Nat \ {0} /\ NLow > 1 /\ x \in Nat /\ x # 0 /\ x < NLow
  BY LowNumbers
<1>2. ASSUME NEW ii \in Nat
      PROVE  ii * x \in Nat /\ (ii * x) % NLow \in Nat /\ (ii * x) % NLow < NLow
  <2> DEFINE y == ii * x
  <2>1. y \in Nat  BY ONLY <1>1, ii \in Nat
  <2> HIDE DEF y
  <2>2. y % NLow \in Nat /\ y % NLow < NLow  BY ONLY <1>1, <2>1, DivMod
  <2> QED  BY <2>1, <2>2 DEF y
<1>3. S \in SUBSET Nat  BY ONLY <1>2
<1>4. S # {}
  <2>1. x = NLow * 0 + x /\ 1 * x = x /\ x \in Int /\ 0 <= x  BY ONLY <1>1
  <2>2. x % NLow = x  BY ONLY <1>1, <2>1, 0 \in Int, QuotientUnique
  <2>3. x \in S  BY ONLY <1>1, <2>1, <2>2
  <2> QED  BY <2>3
<1> HIDE DEF S
<1>5. PICK d \in S : \A e \in S : d <= e  BY ONLY <1>3, <1>4, LeastElement
<1>6. PICK ii \in Nat : d = (ii * x) % NLow  BY <1>5 DEF S
<1>7. d \in Nat \ {0} /\ d < NLow  BY <1>2, <1>3, <1>5, <1>6 DEF S
<1> DEFINE y == ii * x
           p == y \div NLow
           q == NLow \div d
           r == NLow % d
<1>8. y \in Nat /\ p \in Int /\ y = NLow * p + d
  <2>1. y \in Nat  BY <1>2
  <2>2. d = y % NLow  BY <1>6
  <2> HIDE DEF y
  <2>3. y \in Int  BY <2>1
  <2>4. p \in Int /\ y = NLow * p + (y % NLow)  BY ONLY <1>1, <2>3, DivMod
  <2> QED  BY <2>1, <2>2, <2>4
<1>9. q \in Int /\ r \in Nat /\ r < d /\ NLow = d * q + r
  BY ONLY <1>1, <1>7, DivMod
<1> HIDE DEF y, p, q, r
<1>10. q >= 0
  <2>1. q \in Int  BY ONLY <1>9
  <2>2. ASSUME q <= -1 PROVE FALSE
    <3>1. d * (-1 - q) >= 0  BY ONLY <1>7, <2>1, <2>2
    <3>2. d * q <= -d  BY ONLY <1>7, <2>1, <3>1
    <3> QED  BY ONLY <1>1, <1>7, <1>9, <3>2
  <2> QED  BY ONLY <2>1, <2>2
<1> DEFINE k == (q * ii) * (NLow - 1)
           m == q * y - q * p - 1
<1>11. q \in Nat  BY ONLY <1>9, <1>10
<1>12. k \in Nat
  <2>1. q * ii \in Nat /\ NLow - 1 \in Nat  BY ONLY <1>1, <1>11, ii \in Nat
  <2> QED  BY ONLY <2>1
<1>13. k * x = NLow * m + r /\ m \in Int /\ k * x \in Int
  <2>1. q * y \in Int /\ q * p \in Int  BY ONLY <1>8, <1>11
  <2>2. k * x = (q * y) * (NLow - 1)
    <3>1. q * y = (q * ii) * x  BY ONLY <1>1, <1>11, ii \in Nat DEF y
    <3> DEFINE z == q * ii
    <3>2. z \in Nat  BY ONLY <1>11, ii \in Nat
    <3> HIDE DEF z
    <3>3. (z * (NLow - 1)) * x = (z * x) * (NLow - 1)  BY ONLY <1>1, <3>2
    <3> QED  BY ONLY <3>1, <3>3 DEF z
  <2>3. q * y = NLow * (q * p) + (NLow - r)
    <3>1. q * (NLow * p + d) = NLow * (q * p) + d * q  BY ONLY <1>1, <1>7, <1>8, <1>11
    <3> QED  BY ONLY <1>1, <1>7, <1>8, <1>9, <1>11, <2>1, <3>1
  <2> DEFINE a == q * y
             b == q * p
  <2>4. a \in Int /\ b \in Int /\ a = NLow * b + (NLow - r) /\ k * x = a * (NLow - 1)
        /\ m = a - b - 1
    BY ONLY <2>1, <2>2, <2>3
  <2> HIDE DEF a, b, k, m
  <2>5. a * (NLow - 1) = NLow * a - a /\ NLow * (a - b - 1) = NLow * a - NLow * b - NLow
        /\ NLow * a \in Int /\ NLow * b \in Int
    BY ONLY <1>1, <2>4
  <2>6. a * (NLow - 1) = NLow * (a - b - 1) + r /\ a - b - 1 \in Int /\ a * (NLow - 1) \in Int
    BY ONLY <1>1, <1>9, <2>4, <2>5
  <2> QED  BY ONLY <2>4, <2>6
<1>14. (k * x) % NLow = r
  <2> DEFINE z == k * x
  <2>1. z \in Int /\ z = NLow * m + r /\ m \in Int  BY ONLY <1>13
  <2> HIDE DEF z, m
  <2>2. r \in Int /\ 0 <= r /\ r < NLow  BY ONLY <1>1, <1>7, <1>9
  <2>3. z % NLow = r  BY ONLY <1>1, <2>1, <2>2, QuotientUnique
  <2> QED  BY ONLY <2>3 DEF z
<1> HIDE DEF k, m
<1>15. r = 0
  <2> SUFFICES ASSUME r # 0 PROVE FALSE  OBVIOUS
  <2>1. r \in S  BY <1>12, <1>14 DEF S
  <2>2. d <= r  BY <1>5, <2>1
  <2> QED  BY ONLY <1>7, <1>9, <2>2
<1>16. d = 1
  <2>1. NLow % d = 0  BY ONLY <1>15 DEF r
  <2>2. d \notin 2 .. NLow-1  BY <2>1, ScalarLowAssumption
  <2> QED  BY ONLY <1>1, <1>7, <2>2
<1>17. ((ii % NLow) * x) % NLow = (ii * x) % NLow
  <2>1. ii \in Int /\ x \in Int  BY ONLY <1>1, ii \in Nat
  <2> QED  BY ONLY <1>1, <2>1, ModProd
<1>18. ii % NLow \in Reduced  BY LowRemainder
<1> QED  BY ONLY <1>6, <1>16, <1>17, <1>18

\* The inverse, and the inverse of that.
LEMMA LowInverseOf ==
    ASSUME NEW x \in 1 .. NLow-1
    PROVE  /\ inverse_low(x) \in 1 .. NLow-1
           /\ (inverse_low(x) * x) % NLow = 1
<1> DEFINE found == {ii \in 0 .. NLow-1 : UL(ii * x) % NLow = 1}
<1>1. NLow \in Nat \ {0} /\ NLow > 1 /\ x \in Reduced  BY LowNumbers DEF Reduced
<1>2. ASSUME NEW ii \in Reduced PROVE UL(ii * x) = ii * x  BY <1>1, LowProduct
<1>3. found # {} /\ found \in SUBSET Nat
  <2>1. PICK ii \in Reduced : (ii * x) % NLow = 1  BY LowInvertible
  <2>2. ii \in found  BY <1>2, <2>1 DEF Reduced
  <2> QED  BY <2>2
<1>4. inverse_low(x) = Min(found)  BY ONLY <1>3 DEF inverse_low
<1> HIDE DEF found
<1>5. PICK j \in found : \A e \in found : j <= e  BY ONLY <1>3, LeastElement
<1>6. Min(found) \in found  BY ONLY <1>5 DEF Min
<1> DEFINE j0 == inverse_low(x)
<1>7. j0 \in found  BY ONLY <1>4, <1>6
<1> HIDE DEF j0
<1>8. j0 \in Reduced /\ UL(j0 * x) % NLow = 1  BY ONLY <1>7 DEF found, Reduced
<1>9. (j0 * x) % NLow = 1  BY <1>2, <1>8
<1>10. j0 # 0
  <2> SUFFICES ASSUME j0 = 0 PROVE FALSE  OBVIOUS
  <2>1. 0 * x = 0 /\ 0 % NLow = 0  BY ONLY <1>1 DEF Reduced
  <2> QED  BY <1>9, <2>1
<1>11. j0 \in 1 .. NLow-1  BY ONLY <1>1, <1>8, <1>10 DEF Reduced
<1> QED  BY ONLY <1>9, <1>11 DEF j0

\* The inverse of the inverse is the number.
LEMMA LowInverseTwice ==
    ASSUME NEW x \in 1 .. NLow-1
    PROVE  inverse_low(inverse_low(x)) = x
<1> DEFINE y == inverse_low(x)
           z == inverse_low(y)
<1>1. y \in 1 .. NLow-1 /\ (y * x) % NLow = 1  BY LowInverseOf
<1>2. z \in 1 .. NLow-1 /\ (z * y) % NLow = 1
  <2> HIDE DEF y
  <2> QED  BY <1>1, LowInverseOf
<1> HIDE DEF y, z
<1>3. NLow \in Nat \ {0} /\ x \in Int /\ y \in Int /\ z \in Int  BY <1>1, <1>2, LowNumbers
<1>4. x % NLow = x /\ z % NLow = z
  <2>1. x \in Reduced /\ z \in Reduced  BY <1>2, <1>3 DEF Reduced
  <2> QED  BY <2>1, LowNegative
<1>5. z * y \in Int /\ y * x \in Int  BY ONLY <1>3
<1>6. (((z * y) % NLow) * x) % NLow = ((z * y) * x) % NLow  BY ONLY <1>3, <1>5, ModProd
<1>7. (((y * x) % NLow) * z) % NLow = ((y * x) * z) % NLow  BY ONLY <1>3, <1>5, ModProd
<1>8. (z * y) * x = (y * x) * z  BY ONLY <1>3
<1>9. (1 * x) % NLow = (1 * z) % NLow  BY ONLY <1>1, <1>2, <1>6, <1>7, <1>8
<1>10. 1 * x = x /\ 1 * z = z  BY ONLY <1>3
<1>11. z = x  BY ONLY <1>4, <1>9, <1>10
<1> QED  BY ONLY <1>11 DEF y, z

-----------------------------------------------------------------------------
(* Single-word scalars: what is written is read back *)

\* x \div 2^n of a word is 0 when the shift is not within the word.
LEMMA ShiftedOut ==
    ASSUME NEW x \in Reduced, NEW k \in BitsLow .. BitsLow + 1
    PROVE  x \div 2^k = 0 /\ 2^k \in Nat \ {0}
<1>1. NLow \in Nat \ {0} /\ 2 * NLow <= Cut /\ Cut \in Nat \ {0}  BY LowNumbers
<1>2. BitsLow \in Nat /\ BitsLow + 1 <= BytesLow * ByteLow /\ BytesLow * ByteLow \in Nat
  BY ScalarLowAssumption, LowExponents
<1>3. k \in Nat /\ k - BitsLow \in Nat /\ BitsLow + (k - BitsLow) = k
      /\ k \in 0 .. BytesLow * ByteLow /\ k - BitsLow \in 0 .. BytesLow * ByteLow
  BY ONLY <1>2, k \in BitsLow .. BitsLow + 1
<1>4. 2^(BitsLow + (k - BitsLow)) = 2^BitsLow * 2^(k - BitsLow)
  <2>1. BitsLow + (k - BitsLow) <= BytesLow * ByteLow  BY ONLY <1>2, <1>3
  <2> QED  BY ONLY <1>2, <1>3, <2>1, LowExponents
<1> DEFINE p == 2^k
           q == 2^(k - BitsLow)
<1>5. p \in Nat \ {0} /\ q \in Nat \ {0} /\ p = Cut * q
  BY ONLY <1>3, <1>4, LowExponents DEF Cut
<1> HIDE DEF p, q
<1>6. Cut * (q - 1) >= 0  BY ONLY <1>1, <1>5
<1>7. Cut <= p  BY ONLY <1>1, <1>5, <1>6
<1>8. x \in Int /\ 0 <= x /\ x < p /\ x = p * 0 + x
  BY ONLY <1>1, <1>5, <1>7, x \in Reduced DEF Reduced
<1>9. x \div p = 0  BY ONLY <1>5, <1>8, 0 \in Int, QuotientUnique
<1> QED  BY ONLY <1>5, <1>9 DEF p

LowSums == [r : Reduced, overflow : {0, 1}]
Start   == [r |-> 0, overflow |-> 0]

\* The sums, after each of the bytes.
IsReading(p, n, f) ==
    /\ p \in [0 .. n -> LowSums] /\ p[0] = Start
    /\ \A k \in 1 .. n : p[k] = TakeByte(p[k-1], UL(p[k-1].r * Base + f[k]))

\* Every byte keeps the sum reduced.
LEMMA TakeByteType ==
    ASSUME NEW s \in LowSums, NEW byte \in Nat
    PROVE  TakeByte(s, UL(s.r * Base + byte)) \in LowSums
<1> DEFINE x == s.r * Base + byte
           y == UL(x)
<1>1. s.r \in Nat /\ s.overflow \in {0, 1}  BY LowNumbers DEF LowSums, Reduced
<1>2. Base \in Nat \ {0} /\ Cut \in Nat \ {0}  BY Places, LowNumbers
<1>3. x \in Int  BY ONLY <1>1, <1>2, byte \in Nat
<1> HIDE DEF x
<1>4. y \in Int
  <2>1. x % Cut \in Nat  BY ONLY <1>2, <1>3, DivMod
  <2> QED  BY ONLY <2>1 DEF UL, Low, Cut, y
<1> HIDE DEF y
<1>5. y % NLow \in Reduced  BY <1>4, LowRemainder
<1> QED  BY ONLY <1>1, <1>5 DEF TakeByte, LowSums, x, y

\* set_b32 reads byte after byte.
LEMMA ReadingFolds ==
    ASSUME NEW n \in Nat, NEW f \in [1 .. n -> Nat]
    PROVE  \E p : IsReading(p, n, f) /\ set_b32_low(f) = p[n]
<1> DEFINE D == 1 .. n
           H == [x \in D \X LowSums |-> TakeByte(x[2], UL(x[2].r * Base + f[x[1]]))]
           Q(g) == [s \in SUBSET D |->
                       IF s = {} THEN Start
                       ELSE TakeByte(g[s \ {Max(s)}], UL(g[s \ {Max(s)}].r * Base + f[Max(s)]))]
           it == CHOOSE g : g = Q(g)
<1>1. Start \in LowSums
  <2>1. 0 \in Reduced  BY LowNumbers DEF Reduced
  <2> QED  BY ONLY <2>1 DEF Start, LowSums
<1>2. H \in [D \X LowSums -> LowSums]
  <2>1. ASSUME NEW x \in D \X LowSums
        PROVE  TakeByte(x[2], UL(x[2].r * Base + f[x[1]])) \in LowSums
    <3>1. x[2] \in LowSums /\ f[x[1]] \in Nat  OBVIOUS
    <3> QED  BY ONLY <3>1, TakeByteType
  <2> QED  BY <2>1
<1>3. \A ii \in D, s \in LowSums : H[<<ii, s>>] = TakeByte(s, UL(s.r * Base + f[ii]))
  OBVIOUS
<1> HIDE DEF H
<1>4. PICK g0 : IsMaxFold(n, LowSums, Start, H, g0)
  BY ONLY <1>1, <1>2, n \in Nat, MaxFoldDefined
<1>5. ASSUME NEW s \in SUBSET D, s # {} PROVE Max(s) \in D /\ s \ {Max(s)} \in SUBSET D
  <2>1. Max(s) \in s  BY <1>5, MaxIn
  <2> QED  BY <2>1
<1>6. ASSUME NEW g, g = Q(g)
      PROVE  /\ g[{}] = Start
             /\ \A s \in SUBSET D : s # {} =>
                   g[s] = TakeByte(g[s \ {Max(s)}], UL(g[s \ {Max(s)}].r * Base + f[Max(s)]))
  <2> DEFINE R(s) == IF s = {} THEN Start
                     ELSE TakeByte(g[s \ {Max(s)}], UL(g[s \ {Max(s)}].r * Base + f[Max(s)]))
  <2>1. g = [s \in SUBSET D |-> R(s)]  BY <1>6
  <2> HIDE DEF R, Q
  <2>2. \A s \in SUBSET D : g[s] = R(s)  BY ONLY <2>1
  <2> QED  BY ONLY <2>2 DEF R
<1>7. g0 = Q(g0)
  <2> DEFINE R(s) == IF s = {} THEN Start
                     ELSE TakeByte(g0[s \ {Max(s)}], UL(g0[s \ {Max(s)}].r * Base + f[Max(s)]))
  <2>1. g0 \in [SUBSET D -> LowSums]
        /\ \A s \in SUBSET D : g0[s] = IF s = {} THEN Start ELSE H[<<Max(s), g0[s \ {Max(s)}]>>]
    BY ONLY <1>4 DEF IsMaxFold
  <2>2. ASSUME NEW s \in SUBSET D PROVE g0[s] = R(s)
    <3>1. CASE s = {}  BY ONLY <2>1, <3>1, s \in SUBSET D DEF R
    <3>2. CASE s # {}
      <4>1. Max(s) \in D /\ g0[s \ {Max(s)}] \in LowSums  BY <1>5, <2>1, <3>2
      <4>2. g0[s] = H[<<Max(s), g0[s \ {Max(s)}]>>]  BY ONLY <2>1, <3>2, s \in SUBSET D
      <4> QED  BY ONLY <1>3, <3>2, <4>1, <4>2 DEF R
    <3> QED  BY <3>1, <3>2
  <2> HIDE DEF R
  <2>3. g0 = [s \in SUBSET D |-> R(s)]  BY ONLY <2>1, <2>2
  <2> QED  BY ONLY <2>3 DEF R, Q
<1>8. it = Q(it)
  <2> HIDE DEF Q
  <2> QED  BY <1>7
<1>9. set_b32_low(f) = it[D]
  <2>1. DOMAIN f = D  OBVIOUS
  <2> QED  BY <2>1 DEF set_b32_low, FoldLeft, MapThenFoldSet, Start, Base
<1> HIDE DEF it, Q
<1> DEFINE p == [k \in 0 .. n |-> it[1 .. k]]
<1>10. it[{}] = Start /\ \A k \in 1 .. n :
          it[1 .. k] = TakeByte(it[1 .. k-1], UL(it[1 .. k-1].r * Base + f[k]))
  <2>1. /\ it[{}] = Start
        /\ \A s \in SUBSET D : s # {} =>
              it[s] = TakeByte(it[s \ {Max(s)}], UL(it[s \ {Max(s)}].r * Base + f[Max(s)]))
    BY ONLY <1>6, <1>8
  <2>2. ASSUME NEW k \in 1 .. n
        PROVE  it[1 .. k] = TakeByte(it[1 .. k-1], UL(it[1 .. k-1].r * Base + f[k]))
    <3>1. k \in Nat \ {0}  BY ONLY n \in Nat, k \in 1 .. n
    <3>2. Max(1 .. k) = k /\ (1 .. k) \ {k} = 1 .. k-1  BY ONLY <3>1, MaxOfInterval
    <3>3. 1 .. k \in SUBSET D /\ 1 .. k # {}  BY ONLY n \in Nat, k \in 1 .. n
    <3>4. it[1 .. k] = TakeByte(it[(1 .. k) \ {Max(1 .. k)}],
                                UL(it[(1 .. k) \ {Max(1 .. k)}].r * Base + f[Max(1 .. k)]))
      BY ONLY <2>1, <3>3
    <3> QED  BY ONLY <3>2, <3>4
  <2> QED  BY <2>1, <2>2
<1>11. \A k \in 0 .. n : p[k] \in LowSums
  <2> DEFINE U == {k \in 0 .. n : p[k] \notin LowSums}
  <2> SUFFICES ASSUME U # {} PROVE FALSE  OBVIOUS
  <2>1. U \in SUBSET Nat  OBVIOUS
  <2> HIDE DEF U
  <2>2. PICK k \in U : \A j \in U : k <= j  BY ONLY <2>1, U # {}, LeastElement
  <2>3. k \in 0 .. n /\ p[k] \notin LowSums  BY ONLY <2>2 DEF U
  <2>4. k # 0
    <3>1. 1 .. 0 = {}  OBVIOUS
    <3>2. p[0] = it[1 .. 0]  OBVIOUS
    <3> HIDE DEF p
    <3> QED  BY <1>1, <1>10, <2>3, <3>1, <3>2
  <2>5. k \in 1 .. n /\ k - 1 \in 0 .. n /\ k - 1 \notin U
    BY ONLY <2>1, <2>2, <2>3, <2>4, n \in Nat
  <2>6. p[k-1] \in LowSums  BY ONLY <2>5 DEF U
  <2>7. p[k] = TakeByte(p[k-1], UL(p[k-1].r * Base + f[k]))  BY <1>10, <2>5
  <2>8. f[k] \in Nat  BY <2>5
  <2> HIDE DEF p
  <2>9. p[k] \in LowSums  BY ONLY <2>6, <2>7, <2>8, TakeByteType
  <2> QED  BY <2>3, <2>9
<1>12. /\ p[0] = Start /\ p[n] = it[D]
       /\ \A k \in 1 .. n : p[k] = TakeByte(p[k-1], UL(p[k-1].r * Base + f[k]))
  <2>1. 1 .. 0 = {}  OBVIOUS
  <2>2. p[0] = it[1 .. 0] /\ p[n] = it[D]  OBVIOUS
  <2>3. \A k \in 1 .. n : p[k] = it[1 .. k] /\ p[k-1] = it[1 .. k-1]  OBVIOUS
  <2> HIDE DEF p, D
  <2> QED  BY <1>10, <2>1, <2>2, <2>3
<1>13. p \in [0 .. n -> LowSums]
  <2>1. \A k \in 0 .. n : it[1 .. k] \in LowSums  BY <1>11
  <2> QED  BY ONLY <2>1
<1> HIDE DEF p
<1>14. IsReading(p, n, f)  BY ONLY <1>12, <1>13 DEF IsReading
<1> QED  BY <1>9, <1>12, <1>14

\* The byte with j bytes below it, the lowest of x.
DigitAt(x, j) == (x \div Place(j)) % Base
BytesOf(x)    == [k \in 1 .. BytesLow |-> DigitAt(x, BytesLow - k)]

\* The bytes of a number, and the numbers above a place.
LEMMA DigitTypes ==
    ASSUME NEW x \in Nat
    PROVE  /\ \A j \in 0 .. BytesLow : x \div Place(j) \in Nat
           /\ \A j \in 0 .. BytesLow : DigitAt(x, j) \in Nat /\ DigitAt(x, j) < Base
           /\ BytesOf(x) \in [1 .. BytesLow -> Nat]
<1>1. BytesLow \in Nat /\ Base \in Nat \ {0} /\ \A j \in 0 .. BytesLow : Place(j) \in Nat \ {0}
  BY Places, ScalarLowAssumption
<1>2. ASSUME NEW j \in 0 .. BytesLow
      PROVE  x \div Place(j) \in Nat /\ DigitAt(x, j) \in Nat /\ DigitAt(x, j) < Base
  <2> DEFINE p == Place(j)
             q == x \div p
  <2>1. p \in Nat \ {0}  BY <1>1
  <2> HIDE DEF p
  <2>2. q \in Nat  BY ONLY <2>1, x \in Nat
  <2> HIDE DEF q
  <2>3. q % Base \in Nat /\ q % Base < Base  BY ONLY <1>1, <2>2, DivMod
  <2> QED  BY ONLY <2>2, <2>3 DEF DigitAt, p, q
<1>3. \A k \in 1 .. BytesLow : DigitAt(x, BytesLow - k) \in Nat
  <2>1. \A k \in 1 .. BytesLow : BytesLow - k \in 0 .. BytesLow  BY ONLY <1>1
  <2> QED  BY ONLY <1>2, <2>1
<1>4. BytesOf(x) \in [1 .. BytesLow -> Nat]  BY ONLY <1>3 DEF BytesOf
<1> QED  BY <1>2, <1>4

\* The quotient by a product p of m and n, as two divisions.
InTwoSteps(a, p, m, n) == a \div p = (a \div m) \div n

\* One division by a product is two divisions.
LEMMA InTwoDivisions ==
    ASSUME NEW a \in Int, NEW m \in Nat \ {0}, NEW n \in Nat \ {0}, NEW p, p = m * n
    PROVE  InTwoSteps(a, p, m, n)
<1>1. a \div (m * n) = (a \div m) \div n
  BY ONLY a \in Int, m \in Nat \ {0}, n \in Nat \ {0}, DivDiv
<1> QED  BY ONLY p = m * n, <1>1 DEF InTwoSteps

\* Reading one byte more: the part of x that is read grows by it.
LEMMA NextPlace ==
    ASSUME NEW x \in Nat, NEW k \in 1 .. BytesLow
    PROVE  x \div Place(BytesLow - k)
               = (x \div Place(BytesLow - (k-1))) * Base + DigitAt(x, BytesLow - k)
<1> DEFINE j == BytesLow - k
           m == Place(j)
           q == x \div m
<1>1. BytesLow \in Nat  BY ScalarLowAssumption
<1>2. j \in 0 .. BytesLow /\ j + 1 \in 1 .. BytesLow /\ j + 1 = BytesLow - (k-1) /\ (j + 1) - 1 = j
  BY ONLY <1>1, k \in 1 .. BytesLow
<1> HIDE DEF j
<1>3. m \in Nat \ {0} /\ Base \in Nat \ {0} /\ Place(j + 1) = m * Base
  <2>1. Place(j + 1) = Place((j + 1) - 1) * Base  BY ONLY <1>2, Places
  <2> QED  BY ONLY <1>2, <2>1, Places
<1>4. q \in Nat  BY ONLY <1>2, x \in Nat, DigitTypes
<1>5. x \div Place(j + 1) = q \div Base
  <2> HIDE DEF m
  <2>1. x \in Int  BY ONLY x \in Nat
  <2>2. InTwoSteps(x, Place(j + 1), m, Base)  BY ONLY <1>3, <2>1, InTwoDivisions
  <2> QED  BY ONLY <2>2 DEF InTwoSteps, q
<1> HIDE DEF q, m
<1>6. q = Base * (q \div Base) + (q % Base) /\ q \div Base \in Int /\ q % Base \in Nat
  BY ONLY <1>3, <1>4, DivMod
<1>7. q = (q \div Base) * Base + (q % Base)  BY ONLY <1>3, <1>6
<1>8. DigitAt(x, j) = q % Base  BY ONLY TRUE DEF DigitAt, q, m
<1>10. x \div Place(j) = q  BY ONLY TRUE DEF q, m
<1>11. x \div Place(j) = (x \div Place(j + 1)) * Base + DigitAt(x, j)
  BY ONLY <1>5, <1>7, <1>8, <1>10
<1> QED  BY ONLY <1>2, <1>11 DEF j

\* What is kept of a number that was read, and how it grows.
Kept(v) == [r |-> v % NLow, overflow |-> Bool(v >= NLow)]

\* A byte more is read: what is kept is kept of the longer number.
LEMMA KeptGrows ==
    ASSUME NEW v \in Nat, NEW byte \in Nat, byte < Base
    PROVE  TakeByte(Kept(v), UL(Kept(v).r * Base + byte)) = Kept(v * Base + byte)
<1> DEFINE r == v % NLow
           q == v \div NLow
           t == r * Base + byte
           w == v * Base + byte
<1>1. NLow \in Nat \ {0} /\ Base \in Nat \ {0} /\ NLow * Base <= Cut /\ Cut \in Nat /\ Base >= 2
  BY LowNumbers, Places
<1>2. q \in Int /\ r \in Nat /\ r < NLow /\ v = NLow * q + r  BY ONLY <1>1, v \in Nat, DivMod
<1> HIDE DEF r, q
<1>3. t \in Nat /\ w \in Nat  BY ONLY <1>1, <1>2, v \in Nat, byte \in Nat
<1>4. t < Cut
  <2>1. (NLow - 1 - r) * Base >= 0  BY ONLY <1>1, <1>2
  <2>2. NLow * Base - Base - r * Base >= 0  BY ONLY <1>1, <1>2, <2>1
  <2>3. NLow * Base \in Int /\ r * Base \in Int  BY ONLY <1>1, <1>2
  <2> QED  BY ONLY <1>1, <2>2, <2>3, byte \in Nat, byte < Base
<1>5. w = t + NLow * (q * Base) /\ q * Base \in Int
  <2>1. (NLow * q + r) * Base = NLow * (q * Base) + r * Base  BY ONLY <1>1, <1>2
  <2>2. NLow * (q * Base) \in Int /\ r * Base \in Int /\ q * Base \in Int  BY ONLY <1>1, <1>2
  <2> QED  BY ONLY <1>1, <1>2, <2>1, <2>2, byte \in Nat
<1>6. Kept(v) = [r |-> r, overflow |-> Bool(v >= NLow)]  BY ONLY TRUE DEF Kept, r
<1>7. v < NLow => t = w
  <2> SUFFICES ASSUME v < NLow PROVE t = w  OBVIOUS
  <2>1. v = NLow * 0 + v  BY ONLY <1>1, v \in Nat
  <2>2. v % NLow = v  BY ONLY <1>1, <2>1, v \in Nat, v < NLow, 0 \in Int, QuotientUnique
  <2> QED  BY ONLY <2>2 DEF r
<1>8. v >= NLow => w >= NLow
  <2> SUFFICES ASSUME v >= NLow PROVE w >= NLow  OBVIOUS
  <2>1. v * (Base - 1) >= 0  BY ONLY <1>1, v \in Nat
  <2>2. v * Base \in Int /\ v * Base >= v  BY ONLY <1>1, <2>1, v \in Nat
  <2> QED  BY ONLY <1>1, <2>2, v >= NLow, v \in Nat, byte \in Nat
<1>9. t >= NLow => w >= NLow
  <2>1. v < NLow \/ v >= NLow  BY ONLY <1>1, v \in Nat
  <2> QED  BY ONLY <1>7, <1>8, <2>1
<1> HIDE DEF t, w
<1>10. UL(t) = t  BY <1>3, <1>4, Fits
<1>11. t % NLow = w % NLow
  <2> DEFINE z == q * Base
  <2>1. z \in Int /\ t \in Int /\ w = t + NLow * z  BY ONLY <1>3, <1>5
  <2> HIDE DEF z
  <2>2. (t + NLow * z) % NLow = t % NLow  BY ONLY <1>1, <2>1, ModShift
  <2> QED  BY ONLY <2>1, <2>2
<1>12. (IF t >= NLow THEN 1 ELSE Bool(v >= NLow)) = Bool(w >= NLow)
  <2>1. CASE t >= NLow  BY ONLY <1>9, <2>1 DEF Bool
  <2>2. CASE ~(t >= NLow) /\ v >= NLow  BY ONLY <1>8, <2>2 DEF Bool
  <2>3. CASE ~(t >= NLow) /\ ~(v >= NLow)
    <3>1. v < NLow  BY ONLY <1>1, <2>3, v \in Nat
    <3> QED  BY ONLY <1>7, <2>3, <3>1 DEF Bool
  <2> QED  BY ONLY <2>1, <2>2, <2>3
<1>13. TakeByte(Kept(v), t)
           = [r |-> t % NLow, overflow |-> IF t >= NLow THEN 1 ELSE Bool(v >= NLow)]
  BY ONLY <1>6 DEF TakeByte
<1>14. Kept(v).r * Base + byte = t  BY ONLY <1>6 DEF t
<1>15. TakeByte(Kept(v), UL(Kept(v).r * Base + byte)) = Kept(w)
  BY ONLY <1>10, <1>11, <1>12, <1>13, <1>14 DEF Kept
<1> QED  BY ONLY <1>15 DEF w

\* Reading the bytes of any number reduces it, and tells whether it was.
LEMMA LowReads ==
    ASSUME NEW x \in 0 .. 2^(BytesLow * ByteLow) - 1
    PROVE  set_b32_low(BytesOf(x)) = Kept(x)
<1> DEFINE n == BytesLow
           f == BytesOf(x)
           V(k) == x \div Place(n - k)
<1>1. n \in Nat /\ Place(n) \in Nat \ {0} /\ x \in Nat /\ x < Place(n) /\ Place(0) = 1
  <2>1. n \in Nat  BY ScalarLowAssumption
  <2>2. Place(n) = 2^(BytesLow * ByteLow) /\ Place(0) = 1  BY ONLY Places
  <2>3. Place(n) \in Nat \ {0}  BY ONLY <2>1, Places
  <2>4. x \in 0 .. Place(n) - 1  BY ONLY <2>2, x \in 0 .. 2^(BytesLow * ByteLow) - 1
  <2> HIDE DEF n
  <2> QED  BY ONLY <2>1, <2>2, <2>3, <2>4
<1>2. f \in [1 .. n -> Nat]  BY ONLY <1>1, DigitTypes
<1>3. \A k \in 1 .. n : f[k] = DigitAt(x, n - k) /\ f[k] \in Nat /\ f[k] < Base
  <2>1. \A k \in 1 .. n : f[k] = DigitAt(x, n - k)  BY DEF BytesOf
  <2>2. \A k \in 1 .. n : n - k \in 0 .. BytesLow  BY ONLY <1>1
  <2> QED  BY ONLY <1>1, <2>1, <2>2, DigitTypes
<1> HIDE DEF f
<1>4. PICK p : IsReading(p, n, f) /\ set_b32_low(f) = p[n]  BY ONLY <1>1, <1>2, ReadingFolds
<1>5. p[0] = Start /\ \A k \in 1 .. n : p[k] = TakeByte(p[k-1], UL(p[k-1].r * Base + f[k]))
  BY ONLY <1>4 DEF IsReading
<1>6. V(0) = 0 /\ V(n) = x
  <2>1. n - 0 = n /\ n - n = 0  BY ONLY <1>1
  <2> DEFINE m == Place(n)
  <2>2. m \in Nat \ {0} /\ x \in Int /\ 0 <= x /\ x < m /\ x = m * 0 + x  BY ONLY <1>1
  <2> HIDE DEF m
  <2>3. x \div m = 0  BY ONLY <2>2, 0 \in Int, QuotientUnique
  <2>4. x \div 1 = x  BY ONLY <1>1
  <2> QED  BY ONLY <1>1, <2>1, <2>3, <2>4 DEF m
<1>7. \A k \in 0 .. n : V(k) \in Nat
  <2>1. \A k \in 0 .. n : n - k \in 0 .. BytesLow  BY ONLY <1>1
  <2> QED  BY ONLY <1>1, <2>1, DigitTypes
<1>8. \A k \in 1 .. n : V(k) = V(k-1) * Base + f[k]
  BY ONLY <1>1, <1>3, NextPlace
<1> HIDE DEF V
<1>9. \A k \in 0 .. n : p[k] = Kept(V(k))
  <2> DEFINE U == {k \in 0 .. n : p[k] # Kept(V(k))}
  <2> SUFFICES ASSUME U # {} PROVE FALSE  OBVIOUS
  <2>1. U \in SUBSET Nat  OBVIOUS
  <2> HIDE DEF U
  <2>2. PICK k \in U : \A j \in U : k <= j  BY ONLY <2>1, U # {}, LeastElement
  <2>3. k \in 0 .. n /\ p[k] # Kept(V(k))  BY ONLY <2>2 DEF U
  <2>4. k # 0
    <3>1. Kept(0) = Start
      <4>1. NLow \in Nat /\ NLow > 1  BY LowNumbers
      <4>2. 0 % NLow = 0 /\ ~(0 >= NLow)  BY ONLY <4>1
      <4> QED  BY ONLY <4>2 DEF Kept, Start, Bool
    <3> QED  BY ONLY <1>5, <1>6, <2>3, <3>1
  <2>5. k \in 1 .. n /\ k - 1 \in 0 .. n /\ k - 1 \notin U
    BY ONLY <1>1, <2>1, <2>2, <2>3, <2>4
  <2>6. p[k-1] = Kept(V(k-1))  BY ONLY <2>5 DEF U
  <2>7. p[k] = TakeByte(Kept(V(k-1)), UL(Kept(V(k-1)).r * Base + f[k]))
    BY ONLY <1>5, <2>5, <2>6
  <2>8. V(k-1) \in Nat /\ f[k] \in Nat /\ f[k] < Base  BY ONLY <1>3, <1>7, <2>5
  <2>9. p[k] = Kept(V(k-1) * Base + f[k])  BY ONLY <2>7, <2>8, KeptGrows
  <2> QED  BY ONLY <1>8, <2>3, <2>5, <2>9
<1>10. n \in 0 .. n  BY ONLY <1>1
<1>11. set_b32_low(f) = Kept(x)  BY ONLY <1>4, <1>6, <1>9, <1>10
<1> QED  BY ONLY <1>11 DEF f

\* The library's words for these bytes.
LEMMA LimbsOf ==
    ASSUME NEW x \in Nat, NEW m \in 0 .. BytesLow
    PROVE  /\ Len(Reverse(Limbs(x, ByteLow, m))) = m
           /\ Reverse(Limbs(x, ByteLow, m)) = [k \in 1 .. m |-> DigitAt(x, m - k)]
<1> DEFINE f == [ii \in 1 .. m |-> (x \div 2^(ByteLow * (ii-1))) % 2^ByteLow]
<1>1. m \in Nat  BY ScalarLowAssumption
<1>2. \A j \in 0 .. BytesLow : DigitAt(x, j) \in Nat  BY DigitTypes
<1>3. \A ii \in 1 .. m : f[ii] = DigitAt(x, ii - 1)  BY ONLY TRUE DEF f, DigitAt, Place, Base
<1>4. \A ii \in 1 .. m : f[ii] \in Nat
  <2>1. \A ii \in 1 .. m : ii - 1 \in 0 .. BytesLow
    BY ONLY ScalarLowAssumption, m \in 0 .. BytesLow
  <2> QED  BY ONLY <1>2, <1>3, <2>1
<1>5. f \in Seq(Nat) /\ Len(f) = m
  <2>1. DOMAIN f = 1 .. m  OBVIOUS
  <2>2. f \in [1 .. m -> Nat]
    <3>1. f = [ii \in 1 .. m |-> f[ii]]  OBVIOUS
    <3> HIDE DEF f
    <3> QED  BY ONLY <1>4, <3>1
  <2> HIDE DEF f
  <2> QED  BY ONLY <1>1, <2>1, <2>2
<1>6. Limbs(x, ByteLow, m) = f \o <<>>  BY ONLY TRUE DEF Limbs, Tuple, f
<1> HIDE DEF f
<1>7. f \o <<>> = f  BY ONLY <1>5
<1>8. Reverse(f) = [k \in 1 .. m |-> f[(m - k) + 1]]  BY ONLY <1>5 DEF Reverse
<1>9. \A k \in 1 .. m : f[(m - k) + 1] = DigitAt(x, m - k)
  <2>1. \A k \in 1 .. m : (m - k) + 1 \in 1 .. m /\ ((m - k) + 1) - 1 = m - k  BY ONLY <1>1
  <2> QED  BY ONLY <1>3, <2>1
<1>10. Reverse(f) = [k \in 1 .. m |-> DigitAt(x, m - k)]  BY ONLY <1>8, <1>9
<1>11. Len([k \in 1 .. m |-> DigitAt(x, m - k)]) = m  BY ONLY <1>1
<1> QED  BY ONLY <1>6, <1>7, <1>10, <1>11

\* All of them, as LowSetB32 passes them.
LEMMA LowBytes ==
    ASSUME NEW x \in Nat
    PROVE  Reverse(Limbs(x, ByteLow, BytesLow)) = BytesOf(x)
<1>1. BytesLow \in 0 .. BytesLow  BY ScalarLowAssumption
<1> QED  BY ONLY <1>1, x \in Nat, LimbsOf DEF BytesOf

\* The bytes that a word does not fill are 0 in a scalar.
LEMMA HighBytesZero ==
    ASSUME NEW a \in Reduced, NEW j \in BitsLow \div ByteLow .. BytesLow
    PROVE  DigitAt(a, j) = 0
<1> DEFINE m == BitsLow \div ByteLow
           rest == BitsLow % ByteLow
<1>1. BitsLow \in Nat /\ ByteLow \in Nat \ {0} /\ BytesLow \in Nat /\ BytesLow * ByteLow > BitsLow
  BY ScalarLowAssumption
<1>2. m \in Nat /\ rest \in Nat /\ rest < ByteLow /\ BitsLow = ByteLow * m + rest
  BY ONLY <1>1
<1> HIDE DEF m, rest
<1>3. j \in Nat /\ j >= m /\ j - m \in Nat /\ j <= BytesLow /\ m \in 0 .. BytesLow
      /\ j \in 0 .. BytesLow
  BY ONLY <1>1, <1>2, j \in BitsLow \div ByteLow .. BytesLow DEF m
<1> DEFINE E == BytesLow * ByteLow
           A == ByteLow * m
           P == 2^A
           Q == 2^rest
           R == 2^(ByteLow - rest)
           T == 2^(ByteLow * j - A)
<1>4. E \in Nat /\ A \in 0 .. E /\ ByteLow * j \in 0 .. E /\ ByteLow * j >= A
      /\ A + rest = BitsLow /\ BitsLow <= E /\ ByteLow \in 0 .. E
  <2>1. A \in 0 .. E /\ ByteLow * j \in 0 .. E  BY ONLY <1>3, Places
  <2>2. ByteLow * (j - m) >= 0  BY ONLY <1>1, <1>3
  <2>3. ByteLow * j - ByteLow * m >= 0  BY ONLY <1>1, <1>2, <1>3, <2>2
  <2>4. E \in Nat  BY ONLY LowExponents
  <2>5. ByteLow \in 0 .. E
    <3>1. 1 \in 0 .. BytesLow
      <4>1. BytesLow # 0  BY ONLY <1>1
      <4> QED  BY ONLY <1>1, <4>1
    <3>2. ByteLow * 1 = ByteLow  BY ONLY <1>1
    <3>3. ByteLow * 1 \in 0 .. BytesLow * ByteLow  BY ONLY <3>1, Places
    <3> QED  BY ONLY <3>2, <3>3
  <2>6. A \in Nat /\ ByteLow * j \in Nat  BY ONLY <1>1, <1>2, <1>3
  <2>7. ByteLow * j >= A  BY ONLY <2>3, <2>6
  <2>8. A + rest = BitsLow  BY ONLY <1>2
  <2>9. BitsLow <= E  BY ONLY <1>1, <2>4
  <2> QED  BY ONLY <2>1, <2>4, <2>5, <2>7, <2>8, <2>9
<1>5. P \in Nat \ {0} /\ Q \in Nat \ {0} /\ R \in Nat \ {0} /\ T \in Nat \ {0}
      /\ Cut = P * Q /\ Base = Q * R /\ Place(j) = P * T
  <2> DEFINE b == ByteLow * j
             e == E
  <2>1. e \in Nat /\ A \in 0 .. e /\ b \in 0 .. e /\ b >= A /\ A + rest = BitsLow /\ BitsLow <= e
        /\ ByteLow \in 0 .. e /\ rest \in Nat /\ rest < ByteLow
    BY ONLY <1>2, <1>4
  <2>2. /\ \A ii \in 0 .. e : 2^ii \in Nat \ {0}
        /\ \A ii, k \in Nat : ii + k <= e => 2^(ii + k) = 2^ii * 2^k
    BY ONLY LowExponents
  <2> HIDE DEF A, b, e
  <2>3. rest \in 0 .. e /\ ByteLow - rest \in 0 .. e /\ b - A \in 0 .. e /\ A \in Nat
        /\ ByteLow - rest \in Nat /\ b - A \in Nat
        /\ A + (b - A) = b /\ rest + (ByteLow - rest) = ByteLow
    BY ONLY <1>1, <2>1
  <2>4. P \in Nat \ {0} /\ Q \in Nat \ {0} /\ R \in Nat \ {0} /\ T \in Nat \ {0}
    BY ONLY <2>1, <2>2, <2>3 DEF b
  <2>5. 2^(A + rest) = 2^A * 2^rest  BY ONLY <2>1, <2>2, <2>3
  <2>6. 2^(rest + (ByteLow - rest)) = 2^rest * 2^(ByteLow - rest)  BY ONLY <2>1, <2>2, <2>3
  <2>7. 2^(A + (b - A)) = 2^A * 2^(b - A)  BY ONLY <2>1, <2>2, <2>3
  <2>8. Cut = P * Q  BY ONLY <2>1, <2>5 DEF Cut
  <2>9. Base = Q * R  BY ONLY <2>3, <2>6 DEF Base
  <2>10. Place(j) = P * T  BY ONLY <2>3, <2>7 DEF Place, b
  <2> QED  BY ONLY <2>4, <2>8, <2>9, <2>10
<1> HIDE DEF P, Q, R, T
<1>6. NLow \in Nat \ {0} /\ NLow * (Q * R) <= P * Q
  BY ONLY <1>5, LowNumbers
<1>7. NLow <= P
  <2> SUFFICES ASSUME NLow >= P + 1 PROVE FALSE  BY ONLY <1>5, <1>6
  <2>1. NLow * Q >= (P + 1) * Q
    <3>1. (NLow - P - 1) * Q >= 0  BY ONLY <1>5, <1>6, NLow >= P + 1
    <3> QED  BY ONLY <1>5, <1>6, <3>1
  <2>2. NLow * Q >= P * Q + Q  BY ONLY <1>5, <1>6, <2>1
  <2> DEFINE c == NLow * Q
  <2>3. c \in Nat /\ NLow * (Q * R) = c * R  BY ONLY <1>5, <1>6
  <2> HIDE DEF c
  <2>4. c * (R - 1) >= 0  BY ONLY <1>5, <2>3
  <2>5. c * R >= c  BY ONLY <1>5, <2>3, <2>4
  <2> DEFINE d == P * Q
             e == c * R
  <2>6. d \in Nat /\ e \in Nat /\ e <= d /\ c >= d + Q /\ e >= c
    BY ONLY <1>5, <1>6, <2>2, <2>3, <2>5 DEF c
  <2> HIDE DEF d, e
  <2> QED  BY ONLY <1>5, <2>3, <2>6
<1>8. a \in Nat /\ a < P * T /\ P * T \in Nat \ {0}
  <2>1. a \in Nat /\ a < NLow  BY ONLY <1>6, a \in Reduced DEF Reduced
  <2>2. P * (T - 1) >= 0  BY ONLY <1>5
  <2>3. P * T >= P /\ P * T \in Nat  BY ONLY <1>5, <2>2
  <2> QED  BY ONLY <1>5, <1>6, <1>7, <2>1, <2>3
<1> DEFINE p == P * T
<1>9. a \div p = 0
  <2>1. p \in Nat \ {0} /\ a \in Int /\ 0 <= a /\ a < p  BY ONLY <1>8
  <2> HIDE DEF p
  <2>2. a = p * 0 + a  BY ONLY <2>1
  <2> QED  BY ONLY <2>1, <2>2, 0 \in Int, QuotientUnique
<1>10. 0 % Base = 0
  <2>1. Base \in Nat \ {0}  BY ONLY Places
  <2> QED  BY ONLY <2>1
<1> QED  BY ONLY <1>5, <1>9, <1>10 DEF DigitAt

\* get_b32 gives these bytes, and so set_b32 the scalar.
LEMMA LowWrites ==
    ASSUME NEW a \in Reduced
    PROVE  get_b32_low(a) = BytesOf(a)
<1> DEFINE m == BitsLow \div ByteLow
           z == BytesLow - m
           lo == Reverse(Limbs(a, ByteLow, m))
<1>1. BitsLow \in Nat /\ ByteLow \in Nat \ {0} /\ BytesLow \in Nat /\ BytesLow * ByteLow > BitsLow
  BY ScalarLowAssumption
<1>2. m \in Nat /\ m <= BytesLow
  <2>1. m \in Nat /\ BitsLow % ByteLow \in Nat /\ BitsLow = ByteLow * m + (BitsLow % ByteLow)
    BY ONLY <1>1
  <2> HIDE DEF m
  <2>2. ByteLow * (BytesLow - m) > 0
    <3> DEFINE u == ByteLow * m
               v == BytesLow * ByteLow
    <3>1. ByteLow * (BytesLow - m) = v - u /\ u \in Int /\ v \in Int  BY ONLY <1>1, <2>1
    <3>2. v > BitsLow /\ u <= BitsLow
      <4> HIDE DEF v
      <4>1. u \in Int  BY ONLY <3>1
      <4>2. BitsLow = u + (BitsLow % ByteLow)  BY ONLY <2>1
      <4> HIDE DEF u
      <4>3. u <= BitsLow  BY ONLY <1>1, <2>1, <4>1, <4>2
      <4> QED  BY ONLY <1>1, <4>3 DEF v
    <3> HIDE DEF u, v
    <3>3. v - u > 0  BY ONLY <1>1, <3>1, <3>2
    <3> QED  BY ONLY <3>1, <3>3
  <2>3. ASSUME m > BytesLow PROVE FALSE
    <3>1. ByteLow * (m - BytesLow) >= 0  BY ONLY <1>1, <2>1, <2>3
    <3>2. ByteLow * (BytesLow - m) = -(ByteLow * (m - BytesLow))  BY ONLY <1>1, <2>1
    <3>3. ByteLow * (m - BytesLow) \in Int  BY ONLY <1>1, <2>1
    <3> QED  BY ONLY <2>2, <3>1, <3>2, <3>3
  <2> QED  BY ONLY <1>1, <2>1, <2>3
<1>3. a \in Nat  BY LowNumbers DEF Reduced
<1>4. \A j \in m .. BytesLow : DigitAt(a, j) = 0  BY ONLY a \in Reduced, HighBytesZero
<1> HIDE DEF m
<1>5. m \in 0 .. BytesLow /\ z \in Nat /\ z + m = BytesLow  BY ONLY <1>1, <1>2
<1>6. Len(lo) = m /\ lo = [k \in 1 .. m |-> DigitAt(a, m - k)]  BY ONLY <1>3, <1>5, LimbsOf
<1> HIDE DEF lo, z
<1> DEFINE zs == [k \in 1 .. z |-> 0]
<1>7. Len(zs) = z /\ zs \in Seq(Nat)  BY ONLY <1>5
<1>8. lo \in Seq(Nat)
  <2>1. \A k \in 1 .. m : m - k \in 0 .. BytesLow  BY ONLY <1>1, <1>5
  <2>2. \A k \in 1 .. m : DigitAt(a, m - k) \in Nat  BY ONLY <1>3, <2>1, DigitTypes
  <2>3. m \in Nat  BY ONLY <1>2
  <2> QED  BY ONLY <1>6, <2>2, <2>3
<1>9. \A k \in 1 .. z : zs[k] = 0  OBVIOUS
<1> HIDE DEF zs
<1>10. zs \o lo = [k \in 1 .. BytesLow |-> IF k <= z THEN zs[k] ELSE lo[k - z]]
  <2> DEFINE c == zs \o lo
  <2>1. /\ c \in Seq(Nat) /\ Len(c) = Len(zs) + Len(lo)
        /\ \A k \in 1 .. Len(zs) + Len(lo) : c[k] = IF k <= Len(zs) THEN zs[k] ELSE lo[k - Len(zs)]
    BY ONLY <1>7, <1>8, ConcatProperties
  <2>2. Len(zs) = z /\ Len(zs) + Len(lo) = BytesLow  BY ONLY <1>5, <1>6, <1>7
  <2> HIDE DEF c
  <2>3. c \in [1 .. BytesLow -> Nat]  BY ONLY <2>1, <2>2, LenProperties
  <2>4. c = [k \in 1 .. BytesLow |-> c[k]]  BY ONLY <2>3
  <2>5. \A k \in 1 .. BytesLow : c[k] = IF k <= z THEN zs[k] ELSE lo[k - z]
    BY ONLY <2>1, <2>2
  <2> QED  BY ONLY <2>4, <2>5 DEF c
<1>11. ASSUME NEW k \in 1 .. BytesLow
       PROVE  (IF k <= z THEN zs[k] ELSE lo[k - z]) = DigitAt(a, BytesLow - k)
  <2>1. CASE k <= z
    <3>1. BytesLow - k \in m .. BytesLow /\ k \in 1 .. z
      BY ONLY <1>1, <1>2, <1>5, <2>1, k \in 1 .. BytesLow
    <3> QED  BY ONLY <1>4, <1>9, <2>1, <3>1
  <2>2. CASE ~(k <= z)
    <3>1. k - z \in 1 .. m /\ m - (k - z) = BytesLow - k
      BY ONLY <1>1, <1>2, <1>5, <2>2, k \in 1 .. BytesLow
    <3>2. lo[k - z] = DigitAt(a, m - (k - z))  BY ONLY <1>6, <3>1
    <3> QED  BY ONLY <2>2, <3>1, <3>2
  <2> QED  BY ONLY <2>1, <2>2
<1>12. zs \o lo = BytesOf(a)  BY ONLY <1>10, <1>11 DEF BytesOf
<1> QED  BY ONLY <1>12 DEF get_b32_low, Zeros, zs, lo, z, m

-----------------------------------------------------------------------------
(* Single-word scalars: the register *)

LowInv == \E v \in Reduced : \E ret : st = LowReg(v, v, TRUE, ret, ret)

\* The fields of the register.
LEMMA LowHolds ==
    ASSUME LowInv
    PROVE  \E v \in Reduced : \E ret :
              /\ st.unit = "scalar_low" /\ st.r = v /\ st.v = v
              /\ st.ok = TRUE /\ st.ret = ret /\ st.want = ret
<1>1. PICK v \in Reduced : \E ret : st = LowReg(v, v, TRUE, ret, ret)  BY DEF LowInv
<1>2. PICK ret : st = LowReg(v, v, TRUE, ret, ret)  BY <1>1
<1>3. /\ st.unit = "scalar_low" /\ st.r = v /\ st.v = v
      /\ st.ok = TRUE /\ st.ret = ret /\ st.want = ret
  BY ONLY <1>2 DEF LowReg
<1> QED  BY ONLY <1>3, v \in Reduced

\* A step that computes what it should.
LEMMA LowStepDone ==
    ASSUME NEW r, NEW v \in Reduced, NEW ret, NEW want, r = v, ret = want,
           st' = LowReg(r, v, TRUE, ret, want)
    PROVE  LowInv'
BY DEF LowInv

\* One lemma for each operation: the register stays the residue.
LEMMA LowSetB32Step == ASSUME LowInv, LowSetB32 PROVE LowInv'
<1>1. PICK x \in 0 .. 2^(BytesLow * ByteLow) - 1 :
          LowReturns(set_b32_low(Reverse(Limbs(x, ByteLow, BytesLow))), x % NLow, Bool(x >= NLow))
  BY DEF LowSetB32
<1>2. x \in Nat /\ x \in Int
  <2> DEFINE e == 2^(BytesLow * ByteLow)
  <2>1. e \in Nat \ {0}
    <3>1. BytesLow * ByteLow \in 0 .. BytesLow * ByteLow  BY LowExponents
    <3> QED  BY ONLY <3>1, LowExponents
  <2>2. x \in 0 .. e - 1  OBVIOUS
  <2> HIDE DEF e
  <2> QED  BY ONLY <2>1, <2>2
<1>3. set_b32_low(Reverse(Limbs(x, ByteLow, BytesLow))) = Kept(x)
  <2>1. Reverse(Limbs(x, ByteLow, BytesLow)) = BytesOf(x)  BY ONLY <1>2, LowBytes
  <2>2. set_b32_low(BytesOf(x)) = Kept(x)
    BY ONLY x \in 0 .. 2^(BytesLow * ByteLow) - 1, LowReads
  <2> QED  BY ONLY <2>1, <2>2
<1>4. x % NLow \in Reduced  BY <1>2, LowRemainder
<1>5. st' = LowReg(x % NLow, x % NLow, TRUE, Bool(x >= NLow), Bool(x >= NLow))
  BY ONLY <1>1, <1>3 DEF LowReturns, Kept
<1> QED  BY <1>4, <1>5, LowStepDone

LEMMA LowSetIntStep == ASSUME LowInv, LowSetInt PROVE LowInv'
<1>1. PICK x \in 0 .. 2^BitsLow - 1 : LowSet(set_int_low(x), x % NLow)
  BY DEF LowSetInt
<1>2. x \in Int
  <2>1. Cut \in Nat  BY LowNumbers
  <2> QED  BY <2>1 DEF Cut
<1>3. x % NLow \in Reduced  BY <1>2, LowRemainder
<1>4. st' = LowReg(x % NLow, x % NLow, TRUE, 0, 0)  BY ONLY <1>1 DEF LowSet, set_int_low
<1> QED  BY <1>3, <1>4, LowStepDone

LEMMA LowAddStep == ASSUME LowInv, LowAdd PROVE LowInv'
<1>1. PICK v \in Reduced : st.r = v /\ st.v = v  BY LowHolds
<1>2. PICK b \in 0 .. NLow-1 :
          LowReturns(add_low(st.r, b), (st.v + b) % NLow, (st.v + b) \div NLow)
  BY DEF LowAdd
<1>3. b \in Reduced  BY DEF Reduced
<1>4. add_low(v, b) = [r |-> (v + b) % NLow, overflow |-> (v + b) \div NLow]
      /\ (v + b) % NLow \in Reduced
  BY ONLY <1>3, v \in Reduced, LowSum
<1>5. st' = LowReg((v + b) % NLow, (v + b) % NLow, TRUE, (v + b) \div NLow, (v + b) \div NLow)
  BY ONLY <1>1, <1>2, <1>4 DEF LowReturns
<1> QED  BY <1>4, <1>5, LowStepDone

LEMMA LowMulStep == ASSUME LowInv, LowMul PROVE LowInv'
<1>1. PICK v \in Reduced : st.r = v /\ st.v = v  BY LowHolds
<1>2. PICK b \in 0 .. NLow-1 : LowSet(mul_low(st.r, b), (st.v * b) % NLow)
  BY DEF LowMul
<1>3. b \in Reduced  BY DEF Reduced
<1>4. mul_low(v, b) = (v * b) % NLow /\ (v * b) \in Nat  BY ONLY <1>3, v \in Reduced, LowProduct
<1>5. (v * b) % NLow \in Reduced
  <2>1. v * b \in Int  BY ONLY <1>4
  <2> QED  BY ONLY <2>1, LowRemainder
<1>6. st' = LowReg((v * b) % NLow, (v * b) % NLow, TRUE, 0, 0)
  BY ONLY <1>1, <1>2, <1>4 DEF LowSet
<1> QED  BY <1>5, <1>6, LowStepDone

LEMMA LowNegateStep == ASSUME LowInv, LowNegate PROVE LowInv'
<1>1. PICK v \in Reduced : st.r = v /\ st.v = v  BY LowHolds
<1>2. negate_low(v) = (-v) % NLow  BY LowNegative
<1>3. (-v) % NLow \in Reduced
  <2>1. -v \in Int  BY LowNumbers DEF Reduced
  <2> QED  BY ONLY <2>1, LowRemainder
<1>4. st' = LowReg((-v) % NLow, (-v) % NLow, TRUE, 0, 0)
  BY <1>1, <1>2 DEF LowNegate, LowSet
<1> QED  BY <1>3, <1>4, LowStepDone

LEMMA LowCondNegateStep == ASSUME LowInv, LowCondNegate PROVE LowInv'
<1>1. PICK v \in Reduced : st.r = v /\ st.v = v  BY LowHolds
<1>2. PICK flag \in {0, 1} :
          LET res == cond_negate_low(st.r, flag)
          IN  st' = LowReg(res.r, (res.factor * st.v) % NLow, TRUE, res.factor, 1 - 2 * flag)
  BY DEF LowCondNegate
<1> DEFINE f == cond_negate_low(v, flag).factor
           r == cond_negate_low(v, flag).r
<1>3. st' = LowReg(r, (f * v) % NLow, TRUE, f, 1 - 2 * flag)  BY ONLY <1>1, <1>2
<1>4. v \in Int /\ -v \in Int /\ v % NLow = v /\ negate_low(v) = (-v) % NLow
  BY LowNumbers, LowNegative DEF Reduced
<1>5. (-v) % NLow \in Reduced  BY ONLY <1>4, LowRemainder
<1>6. f = 1 - 2 * flag /\ r = (f * v) % NLow /\ (f * v) % NLow \in Reduced
  <2>1. CASE flag = 1
    <3>1. f = -1 /\ r = negate_low(v)  BY ONLY <2>1 DEF cond_negate_low
    <3> HIDE DEF f, r
    <3>2. f * v = -v /\ f = 1 - 2 * flag  BY ONLY <1>4, <2>1, <3>1
    <3> QED  BY ONLY <1>4, <1>5, <3>1, <3>2
  <2>2. CASE flag = 0
    <3>1. f = 1 /\ r = v  BY ONLY <2>2 DEF cond_negate_low
    <3> HIDE DEF f, r
    <3>2. f * v = v /\ f = 1 - 2 * flag  BY ONLY <1>4, <2>2, <3>1
    <3> QED  BY ONLY <1>4, <3>1, <3>2, v \in Reduced
  <2> HIDE DEF f, r
  <2> QED  BY <2>1, <2>2
<1> HIDE DEF f, r
<1>7. st' = LowReg(r, r, TRUE, f, f)  BY ONLY <1>3, <1>6
<1> QED  BY <1>6, <1>7, LowStepDone

LEMMA LowHalfStep == ASSUME LowInv, LowHalf PROVE LowInv'
<1>1. PICK v \in Reduced : st.r = v /\ st.v = v  BY LowHolds
<1> DEFINE h == half_low(v)
<1>2. h = (IF Odd(v) THEN (v + NLow) \div 2 ELSE v \div 2) /\ h \in Reduced  BY LowHalfOf
<1>3. st' = LowReg(h, h, TRUE, 0, 0)  BY <1>1, <1>2 DEF LowHalf, LowSet
<1> QED  BY <1>2, <1>3, LowStepDone

LEMMA LowCmovStep == ASSUME LowInv, LowCmov PROVE LowInv'
<1>1. PICK v \in Reduced : st.r = v /\ st.v = v  BY LowHolds
<1>2. PICK b \in {0, NLow-1}, flag \in {0, 1} :
          LowSet(cmov_low(st.r, b, flag), IF flag = 1 THEN b ELSE st.v)
  BY DEF LowCmov
<1>3. b \in Reduced  BY LowNumbers DEF Reduced
<1> DEFINE w == IF flag = 1 THEN b ELSE v
<1>4. w \in Reduced  BY <1>3
<1>5. st' = LowReg(w, w, TRUE, 0, 0)  BY ONLY <1>1, <1>2 DEF LowSet, cmov_low
<1> QED  BY <1>4, <1>5, LowStepDone

LEMMA LowCaddBitStep == ASSUME LowInv, LowCaddBit PROVE LowInv'
<1>1. PICK v \in Reduced : st.r = v /\ st.v = v  BY LowHolds
<1>2. PICK bit \in 0 .. BitsLow-1, flag \in {0, 1} :
          /\ st.v + flag * 2^bit < NLow /\ NLow + 2^bit <= 2^BitsLow
          /\ LET res == cadd_bit_low(st.r, bit, flag)
             IN  st' = LowReg(res.r, st.v + flag * 2^bit, res.ok, 0, 0)
  BY DEF LowCaddBit
<1> DEFINE p == 2^bit
<1>3. p \in Nat \ {0} /\ bit < BitsLow
  <2>1. BitsLow \in Nat /\ BytesLow * ByteLow \in Nat /\ BitsLow < BytesLow * ByteLow
    BY ScalarLowAssumption, LowExponents
  <2>2. bit \in 0 .. BytesLow * ByteLow /\ bit < BitsLow  BY ONLY <2>1, bit \in 0 .. BitsLow-1
  <2> QED  BY ONLY <2>2, LowExponents
<1>4. NLow \in Nat /\ v \in Nat /\ v < NLow /\ Cut \in Nat /\ NLow + p <= Cut
      /\ v + flag * p < NLow
  BY ONLY <1>1, <1>2, LowNumbers, v \in Reduced DEF Reduced, Cut
<1>5. cadd_bit_low(v, bit, flag) = [r |-> IF flag = 1 THEN UL(v + p) ELSE v,
                                    ok |-> bit < BitsLow /\ p - 1 <= Cut - 1 - NLow]
  BY ONLY <1>3 DEF cadd_bit_low, Cut
<1> HIDE DEF p
<1>6. p - 1 <= Cut - 1 - NLow  BY ONLY <1>3, <1>4
<1> DEFINE w == v + flag * p
<1>7. w \in Reduced
  <2>1. w \in Int /\ 0 <= w /\ w < NLow
    <3>1. CASE flag = 1  BY ONLY <1>3, <1>4, <3>1
    <3>2. CASE flag = 0  BY ONLY <1>3, <1>4, <3>2
    <3> QED  BY <3>1, <3>2
  <2> HIDE DEF w
  <2> QED  BY ONLY <1>4, <2>1 DEF Reduced
<1>8. (IF flag = 1 THEN UL(v + p) ELSE v) = w
  <2>1. CASE flag = 1
    <3>1. v + p \in Int /\ 0 <= v + p /\ v + p < Cut /\ w = v + p  BY ONLY <1>3, <1>4, <2>1
    <3>2. UL(v + p) = v + p  BY ONLY <3>1, Fits
    <3> QED  BY ONLY <2>1, <3>1, <3>2
  <2>2. CASE flag = 0  BY ONLY <1>3, <1>4, <2>2
  <2> QED  BY <2>1, <2>2
<1>9. st' = LowReg(cadd_bit_low(v, bit, flag).r, w, cadd_bit_low(v, bit, flag).ok, 0, 0)
  BY ONLY <1>1, <1>2 DEF p
<1> HIDE DEF w
<1>10. cadd_bit_low(v, bit, flag).r = w /\ cadd_bit_low(v, bit, flag).ok = TRUE
  <2> DEFINE x == IF flag = 1 THEN UL(v + p) ELSE v
             ok == bit < BitsLow /\ p - 1 <= Cut - 1 - NLow
  <2>1. x = w /\ ok = TRUE
    <3>1. ok  BY ONLY <1>3, <1>6
    <3>2. x = w  BY ONLY <1>8
    <3> HIDE DEF x
    <3> QED  BY <3>1, <3>2
  <2>2. cadd_bit_low(v, bit, flag) = [r |-> x, ok |-> ok]  BY ONLY <1>5
  <2> HIDE DEF x, ok
  <2> QED  BY ONLY <2>1, <2>2
<1>11. st' = LowReg(w, w, TRUE, 0, 0)  BY ONLY <1>9, <1>10
<1> QED  BY <1>7, <1>11, LowStepDone

LEMMA LowInverseStep == ASSUME LowInv, LowInverse PROVE LowInv'
<1>1. PICK v \in Reduced : st.r = v /\ st.v = v  BY LowHolds
<1>2. v # 0 /\ st' = LowReg(inverse_low(inverse_low(v)), v, inverse_low(v) # 0, 0, 0)
  BY <1>1 DEF LowInverse
<1>3. v \in 1 .. NLow-1  BY <1>2, LowNumbers DEF Reduced
<1>4. inverse_low(v) \in 1 .. NLow-1 /\ inverse_low(inverse_low(v)) = v
  BY ONLY <1>3, LowInverseOf, LowInverseTwice
<1>5. (inverse_low(v) # 0) = TRUE
  <2> DEFINE ii == inverse_low(v)
  <2>1. ii \in 1 .. NLow-1  BY <1>4
  <2> HIDE DEF ii
  <2>2. ii # 0  BY <2>1, LowNumbers
  <2> QED  BY ONLY <2>2 DEF ii
<1>6. st' = LowReg(v, v, TRUE, 0, 0)  BY ONLY <1>2, <1>4, <1>5
<1> QED  BY <1>6, LowStepDone

\* The two parts of the splitting by lambda add up.
LEMMA LowSplits ==
    ASSUME NEW v \in Reduced
    PROVE  (split_lambda_low(v).r1 + split_lambda_low(v).r2 * LambdaLow) % NLow = v
<1> DEFINE r2 == (v + 5) % NLow
           x == v + (NLow - r2) * LambdaLow
           y == v + NLow * LambdaLow
           t == r2 * LambdaLow
<1>1. NLow \in Nat \ {0} /\ LambdaLow \in Nat /\ LambdaLow <= NLow - 1 /\ v \in Nat /\ v < NLow
      /\ NLow * NLow < Cut /\ Cut \in Nat
  BY LowNumbers, ScalarLowAssumption DEF Reduced
<1>2. r2 \in Nat /\ r2 < NLow
  <2>1. v + 5 \in Int  BY ONLY <1>1
  <2> QED  BY ONLY <1>1, <2>1, DivMod
<1>3. split_lambda_low(v) = [r1 |-> UL(x) % NLow, r2 |-> r2]
  BY ONLY TRUE DEF split_lambda_low, SplitBy, r2, x
<1> HIDE DEF r2
<1>4. x \in Int /\ 0 <= x /\ x < Cut
  <2> DEFINE a == NLow - r2
             z == a * LambdaLow
             nn == NLow * NLow
             nl == NLow * LambdaLow
  <2>1. a \in Nat /\ a <= NLow  BY ONLY <1>1, <1>2
  <2> HIDE DEF a
  <2>2. z \in Nat /\ z <= nl /\ nl \in Nat
    <3>1. (NLow - a) * LambdaLow >= 0  BY ONLY <1>1, <2>1
    <3> QED  BY ONLY <1>1, <2>1, <3>1
  <2>3. nl + NLow <= nn /\ nn \in Nat
    <3>1. NLow * (NLow - 1 - LambdaLow) >= 0  BY ONLY <1>1
    <3> QED  BY ONLY <1>1, <3>1
  <2>4. nn < Cut /\ x = v + z  BY ONLY <1>1 DEF a
  <2> HIDE DEF z, nn, nl, x
  <2> QED  BY ONLY <1>1, <2>2, <2>3, <2>4
<1>5. x + t = y /\ t \in Int /\ y \in Int  BY ONLY <1>1, <1>2
<1> HIDE DEF x
<1>6. UL(x) = x  BY <1>4, Fits
<1>7. ((x % NLow) + t) % NLow = (x + t) % NLow
  <2> HIDE DEF t
  <2> QED  BY ONLY <1>1, <1>4, <1>5, ModSum
<1>8. y % NLow = v % NLow
  <2>1. v \in Int /\ LambdaLow \in Int  BY ONLY <1>1
  <2> QED  BY ONLY <1>1, <2>1, ModShift
<1>9. v % NLow = v  BY LowNegative
<1> HIDE DEF t, y
<1>10. ((x % NLow) + t) % NLow = v  BY ONLY <1>5, <1>7, <1>8, <1>9
<1> QED  BY ONLY <1>3, <1>6, <1>10 DEF t

\* The bits that get_bits finds, within the word or above it.
LEMMA LowBits ==
    ASSUME NEW v \in Reduced, NEW count \in 1 .. BitsLow, NEW offset \in 0 .. BitsLow + 1
    PROVE  get_bits_low(v, offset, count) = Low(Shr(v, offset), count)
<1>1. BitsLow \in Nat /\ BytesLow * ByteLow \in Nat /\ BitsLow < BytesLow * ByteLow
  BY ScalarLowAssumption, LowExponents
<1>2. CASE offset < BitsLow  BY ONLY <1>2 DEF get_bits_low
<1>3. CASE ~(offset < BitsLow)
  <2>1. offset \in BitsLow .. BitsLow + 1  BY ONLY <1>1, <1>3, offset \in 0 .. BitsLow + 1
  <2>2. v \div 2^offset = 0  BY ONLY <2>1, v \in Reduced, ShiftedOut
  <2>3. 2^count \in Nat \ {0}
    <3>1. count \in 0 .. BytesLow * ByteLow  BY ONLY <1>1, count \in 1 .. BitsLow
    <3> QED  BY ONLY <3>1, LowExponents
  <2>4. 0 % 2^count = 0  BY ONLY <2>3
  <2> QED  BY ONLY <1>3, <2>2, <2>4 DEF get_bits_low, Low, Shr
<1> QED  BY <1>2, <1>3

\* What the functions that look at a scalar say of it.
LEMMA LowReadsSound ==
    ASSUME NEW v \in Reduced
    PROVE  /\ v < NLow /\ ~check_overflow_low(v)
           /\ is_high_low(v) = (2 * v > NLow)
           /\ set_b32_low(get_b32_low(v)) = [r |-> v, overflow |-> 0]
           /\ split_128_low(v).r1 + split_128_low(v).r2 * 2^(BitsLow \div 2) = v
           /\ v # 0 => mul_low(inverse_low(v), v) = 1
<1>1. NLow \in Nat \ {0} /\ v \in Nat /\ v < NLow  BY LowNumbers DEF Reduced
<1>2. ~check_overflow_low(v)  BY ONLY <1>1 DEF check_overflow_low
<1>3. is_high_low(v) = (2 * v > NLow)
  <2>1. v > NLow \div 2 <=> 2 * v > NLow  BY ONLY <1>1
  <2> QED  BY ONLY <2>1 DEF is_high_low
<1>4. set_b32_low(get_b32_low(v)) = [r |-> v, overflow |-> 0]
  <2>1. v \in 0 .. 2^(BytesLow * ByteLow) - 1
    <3> DEFINE E == BytesLow * ByteLow
               p == 2^E
    <3>1. E \in Nat /\ BitsLow \in 0 .. E /\ E - BitsLow \in 0 .. E /\ BitsLow + (E - BitsLow) = E
          /\ E \in 0 .. E /\ BitsLow \in Nat /\ E - BitsLow \in Nat
      <4>1. E \in Nat /\ BitsLow \in Nat /\ E > BitsLow  BY ScalarLowAssumption, LowExponents
      <4> HIDE DEF E
      <4> QED  BY ONLY <4>1
    <3>2. p \in Nat \ {0} /\ 2^(E - BitsLow) \in Nat \ {0}  BY ONLY <3>1, LowExponents
    <3>3. 2^(BitsLow + (E - BitsLow)) = 2^BitsLow * 2^(E - BitsLow)
      <4>1. BitsLow + (E - BitsLow) <= E  BY ONLY <3>1
      <4> QED  BY ONLY <3>1, <4>1, LowExponents
    <3> DEFINE q == 2^(E - BitsLow)
    <3>4. p = Cut * q /\ q \in Nat \ {0}  BY ONLY <3>1, <3>2, <3>3 DEF Cut
    <3> HIDE DEF p, q, E
    <3>5. Cut \in Nat \ {0} /\ 2 * NLow <= Cut  BY LowNumbers
    <3>6. Cut * (q - 1) >= 0  BY ONLY <3>4, <3>5
    <3>7. p >= Cut  BY ONLY <3>2, <3>4, <3>5, <3>6
    <3>8. v \in 0 .. p - 1  BY ONLY <1>1, <3>2, <3>5, <3>7
    <3> QED  BY ONLY <3>8 DEF p, E
  <2>2. get_b32_low(v) = BytesOf(v)  BY LowWrites
  <2>3. set_b32_low(BytesOf(v)) = Kept(v)  BY <2>1, LowReads
  <2>4. Kept(v) = [r |-> v, overflow |-> 0]
    <3>1. v % NLow = v /\ ~(v >= NLow)
      <4>1. v % NLow = v  BY LowNegative
      <4> QED  BY ONLY <1>1, <4>1
    <3> QED  BY ONLY <3>1 DEF Kept, Bool
  <2> QED  BY ONLY <2>2, <2>3, <2>4
<1>5. split_128_low(v).r1 + split_128_low(v).r2 * 2^(BitsLow \div 2) = v
  <2>1. split_128_low(v).r1 = v /\ split_128_low(v).r2 = 0  BY ONLY TRUE DEF split_128_low
  <2>2. 2^(BitsLow \div 2) \in Nat
    <3> DEFINE h == BitsLow \div 2
    <3>1. BitsLow \in Nat /\ BytesLow * ByteLow \in Nat /\ BitsLow < BytesLow * ByteLow
      BY ScalarLowAssumption, LowExponents
    <3>2. h \in Nat /\ h <= BitsLow  BY ONLY <3>1
    <3> HIDE DEF h
    <3>3. h \in 0 .. BytesLow * ByteLow  BY ONLY <3>1, <3>2
    <3>4. 2^h \in Nat  BY ONLY <3>3, LowExponents
    <3> QED  BY ONLY <3>4 DEF h
  <2> DEFINE p == 2^(BitsLow \div 2)
  <2> HIDE DEF p
  <2>3. v + 0 * p = v  BY ONLY <1>1, <2>2 DEF p
  <2> QED  BY ONLY <2>1, <2>3 DEF p
<1>6. v # 0 => mul_low(inverse_low(v), v) = 1
  <2> SUFFICES ASSUME v # 0 PROVE mul_low(inverse_low(v), v) = 1  OBVIOUS
  <2>1. v \in 1 .. NLow-1  BY ONLY <1>1, v # 0
  <2> DEFINE ii == inverse_low(v)
  <2>2. ii \in 1 .. NLow-1 /\ (ii * v) % NLow = 1  BY ONLY <2>1, LowInverseOf
  <2> HIDE DEF ii
  <2>3. ii \in Reduced  BY ONLY <1>1, <2>2 DEF Reduced
  <2>4. mul_low(ii, v) = (ii * v) % NLow  BY ONLY <2>3, v \in Reduced, LowProduct
  <2> QED  BY ONLY <2>2, <2>4 DEF ii
<1> QED  BY <1>1, <1>2, <1>3, <1>4, <1>5, <1>6

\* A register of the invariant has the property.
LEMMA LowInvSound == LowInv => LowSound
<1> SUFFICES ASSUME LowInv PROVE LowSound  OBVIOUS
<1>1. PICK v \in Reduced : \E ret :
          /\ st.unit = "scalar_low" /\ st.r = v /\ st.v = v
          /\ st.ok = TRUE /\ st.ret = ret /\ st.want = ret
  BY LowHolds
<1>2. st.r = v /\ st.v = v /\ st.ok /\ st.ret = st.want  BY ONLY <1>1
<1>3. /\ v < NLow /\ ~check_overflow_low(v)
      /\ is_high_low(v) = (2 * v > NLow)
      /\ set_b32_low(get_b32_low(v)) = [r |-> v, overflow |-> 0]
      /\ split_128_low(v).r1 + split_128_low(v).r2 * 2^(BitsLow \div 2) = v
      /\ v # 0 => mul_low(inverse_low(v), v) = 1
  BY ONLY v \in Reduced, LowReadsSound
<1>4. (split_lambda_low(v).r1 + split_lambda_low(v).r2 * LambdaLow) % NLow = v
  BY ONLY v \in Reduced, LowSplits
<1>5. \A count \in 1 .. BitsLow, offset \in 0 .. BitsLow + 1 :
         get_bits_low(v, offset, count) = Low(Shr(v, offset), count)
  BY ONLY v \in Reduced, LowBits
<1>6. /\ is_even_low(v) = ~Odd(v) /\ is_zero_low(v) = (v = 0)
      /\ is_one_low(v) = (v = 1) /\ eq_low(v, 1) = (v = 1)
  BY ONLY TRUE DEF is_even_low, is_zero_low, is_one_low, eq_low
<1> QED  BY ONLY <1>2, <1>3, <1>4, <1>5, <1>6 DEF LowSound

\* LowInv is inductive.
LEMMA LowInvInductive == LowSpec => []LowInv
<1>1. LowInit => LowInv
  <2> SUFFICES ASSUME LowInit PROVE LowInv  OBVIOUS
  <2>1. 0 \in Reduced  BY LowNumbers DEF Reduced
  <2> QED  BY <2>1 DEF LowInit, LowInv
<1>2. LowInv /\ [LowNext]_st => LowInv'
  <2> SUFFICES ASSUME LowInv, [LowNext]_st PROVE LowInv'  OBVIOUS
  <2>1. CASE LowSetB32  BY <2>1, LowSetB32Step
  <2>2. CASE LowSetInt  BY <2>2, LowSetIntStep
  <2>3. CASE LowAdd  BY <2>3, LowAddStep
  <2>4. CASE LowMul  BY <2>4, LowMulStep
  <2>5. CASE LowNegate  BY <2>5, LowNegateStep
  <2>6. CASE LowCondNegate  BY <2>6, LowCondNegateStep
  <2>7. CASE LowHalf  BY <2>7, LowHalfStep
  <2>8. CASE LowCmov  BY <2>8, LowCmovStep
  <2>9. CASE LowCaddBit  BY <2>9, LowCaddBitStep
  <2>10. CASE LowInverse  BY <2>10, LowInverseStep
  <2>11. CASE UNCHANGED st  BY <2>11 DEF LowInv
  <2> QED
    BY <2>1, <2>2, <2>3, <2>4, <2>5, <2>6, <2>7, <2>8, <2>9, <2>10, <2>11 DEF LowNext
<1> QED  BY <1>1, <1>2, PTL DEF LowSpec

\* The scalars of the exhaustive tests, for every prime order, lambda, width of the
\* word and number of bytes: after any sequence of operations the register is the
\* reduced residue that it should be, overflow is reported exactly when there was one,
\* bytes are read back as they were written, both splittings add up, and the inverse
\* is one.
THEOREM LowScalarsSound == LowSpec => []LowSound
<1>1. LowInv => LowSound  BY LowInvSound
<1> QED  BY <1>1, LowInvInductive, PTL

\* Where the order is that of the group, they are the scalars of Curve, with which
\* the protocols are proved: the same sums, products, negatives and halves.
THEOREM LowScalarsAreCurveScalars ==
    ASSUME NLow = N, NEW a \in Scalars, NEW b \in Scalars
    PROVE  /\ add_low(a, b).r = Plus(a, b) /\ mul_low(a, b) = Times(a, b)
           /\ negate_low(a) = Neg(a) /\ half_low(a) = Half(a)
<1>1. a \in Reduced /\ b \in Reduced  BY DEF Reduced, Scalars
<1>2. add_low(a, b).r = Plus(a, b)
  <2>1. add_low(a, b) = [r |-> (a + b) % NLow, overflow |-> (a + b) \div NLow]
    BY ONLY <1>1, LowSum
  <2> QED  BY ONLY <2>1, NLow = N DEF Plus
<1>3. mul_low(a, b) = Times(a, b)
  <2>1. mul_low(a, b) = (a * b) % NLow  BY ONLY <1>1, LowProduct
  <2> QED  BY ONLY <2>1, NLow = N DEF Times
<1>4. negate_low(a) = Neg(a)  BY ONLY NLow = N DEF negate_low, Neg
<1>5. half_low(a) = Half(a)
  <2>1. half_low(a) = IF Odd(a) THEN (a + NLow) \div 2 ELSE a \div 2  BY ONLY <1>1, LowHalfOf
  <2>2. a \in Nat  BY CurveAssumption DEF Scalars
  <2>3. Odd(a) <=> a % 2 # 0  BY ONLY <2>2 DEF Odd
  <2> QED  BY ONLY <2>1, <2>3, NLow = N DEF Half
<1> QED  BY <1>2, <1>3, <1>4, <1>5
=============================================================================
