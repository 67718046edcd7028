----------------------------- MODULE EncryptLib -----------------------------
(***************************************************************************)
(* The functions of vbh_encrypt_lib as users of OpenSSL: what each         *)
(* allocates, which of its calls may fail, and what it frees on the way    *)
(* out.  A function is the sequence of its steps; a step that fails frees  *)
(* what it names and returns nothing.  The contents of keys and buffers    *)
(* are left out.  Both builds are modelled: the default one, and the one   *)
(* with VBH_USE_SMX.                                                       *)
(***************************************************************************)
EXTENDS Integers, Sequences, FiniteSets, SequencesExt

VARIABLES
  fn,       (* the function that runs, or "none"                           *)
  pc,       (* its next step; one past the last when it has returned       *)
  held,     (* resources allocated, or given to it, and not freed          *)
  returned, (* what it returned                                            *)
  wild      (* history: a resource was freed that was not held             *)

encVars == <<fn, pc, held, returned, wild>>

(* The steps: an allocation nobody checks, one that is checked, a call     *)
(* that may fail, a free, and the return of a resource.                    *)
New(r)            == [op |-> "new", res |-> r, frees |-> {}]
TryNew(r, frees)  == [op |-> "trynew", res |-> r, frees |-> frees]
Try(frees)        == [op |-> "try", res |-> "", frees |-> frees]
Free(r)           == [op |-> "free", res |-> r, frees |-> {r}]
Return(r)         == [op |-> "return", res |-> r, frees |-> {}]

-----------------------------------------------------------------------------
vbhCreateKeyFromPublicHex ==
  <<New("key"), Try({"key"}), TryNew("point", {"key"}), Try({"point", "key"}),
    Free("point"), Return("key")>>

vbhCreateKeyFromPrivateHex ==
  <<New("key"), Try({"key"}), TryNew("bn", {"key"}), Try({"bn", "key"}),
    Free("bn"), Return("key")>>

vbhEcGroup == <<TryNew("group", {}), Try({"group"}), Return("group")>>

vbhCreateKey == <<New("key"), Try({"key"}), Try({"key"}), Return("key")>>

vbhGetHexFromPrivateKey == <<Try({}), TryNew("hex", {}), Return("hex")>>

vbhGetHexFromPublicKey == <<Try({}), Try({}), TryNew("hex", {}), Return("hex")>>

(* AES-GCM: init, update, final, and the tag.                              *)
vbhEncrypt ==
  LET fail == Try({"ctx", "outbuf"}) IN
  <<New("outbuf"), New("ctx"), fail, fail, fail, fail, Free("ctx"), Return("outbuf")>>

(* The first step is the test of the length.                               *)
vbhDecrypt ==
  LET fail == Try({"ctx", "outbuf"}) IN
  <<Try({}), New("outbuf"), New("ctx"), fail, fail, fail, fail, Free("ctx"), Return("outbuf")>>

(* ECDSA: the caller's key is freed whatever the outcome.                  *)
vbhSign == <<New("signature"), Try({"signature", "pEcKey"}), Free("pEcKey"), Return("signature")>>

vbhVerifySign == <<Try({"pEcKey"}), Free("pEcKey")>>

(* Mutant: the buffer is freed with the MAC context only in the first      *)
(* half.                                                                   *)
smxEncrypt_KeepsBuffer ==
  LET enc == Try({"ctx", "outbuf"})
      mac == Try({"mac_ctx"})
  IN <<New("outbuf"), New("ctx"), enc, enc, enc, Free("ctx"),
       New("mac_ctx"), mac, mac, mac, Free("mac_ctx"), Return("outbuf")>>

(* SM4 and a MAC of the plain data: each half has its own context.         *)
smxEncrypt ==
  LET enc == Try({"ctx", "outbuf"})
      mac == Try({"mac_ctx", "outbuf"})
  IN <<New("outbuf"), New("ctx"), enc, enc, enc, Free("ctx"),
       New("mac_ctx"), mac, mac, mac, Free("mac_ctx"), Return("outbuf")>>

(* The last of the four tests of the second half compares the MACs.        *)
smxDecrypt ==
  LET dec == Try({"ctx", "outbuf"})
      mac == Try({"mac_ctx", "outbuf"})
  IN <<Try({}), New("ctx"), New("outbuf"), dec, dec, dec, Free("ctx"),
       New("mac_ctx"), mac, mac, mac, mac, Free("mac_ctx"), Return("outbuf")>>

(* SM2: once assigned, pkey owns the caller's key and frees it with itself. *)
(* The way out that succeeds frees nothing.                                *)
smxSign ==
  LET own == {"pkey", "pEcKey"}
      fail == {"md_ctx", "pkey_ctx"} \cup own
  IN <<New("pkey"), Try({"pkey"}), Try(own), New("pkey_ctx"), Try({"pkey_ctx"} \cup own),
       New("md_ctx"), Try(fail), Try(fail), Try(fail),
       New("signature"), Try({"signature"} \cup fail), Return("signature")>>

(* A failure to set the id leaves the context, which keeps pkey and the    *)
(* key alive.                                                              *)
smxVerifySign ==
  LET own == {"pkey", "pEcKey"}
      fail == {"md_ctx", "pkey_ctx"} \cup own
  IN <<New("pkey"), Try({"pkey"}), Try(own), New("pkey_ctx"), Try({}),
       New("md_ctx"), Try(fail), Try(fail), Try(fail),
       Free("md_ctx"), Free("pkey_ctx"), Free("pkey"), Free("pEcKey")>>

Code ==
  [pubKey |-> vbhCreateKeyFromPublicHex, priKey |-> vbhCreateKeyFromPrivateHex,
   group |-> vbhEcGroup, newKey |-> vbhCreateKey,
   priHex |-> vbhGetHexFromPrivateKey, pubHex |-> vbhGetHexFromPublicKey,
   encrypt |-> vbhEncrypt, decrypt |-> vbhDecrypt, sign |-> vbhSign, verify |-> vbhVerifySign,
   smxEncrypt |-> smxEncrypt, smxDecrypt |-> smxDecrypt,
   smxSign |-> smxSign, smxVerify |-> smxVerifySign]

TakesKey == {"sign", "verify", "smxSign", "smxVerify"}

-----------------------------------------------------------------------------
EncInit == fn = "none" /\ pc = 1 /\ held = {} /\ returned = {} /\ wild = FALSE

Running == fn # "none" /\ pc <= Len(Code[fn])

Call(f) ==
  /\ ~Running
  /\ fn' = f /\ pc' = 1 /\ returned' = {}
  /\ held' = IF f \in TakesKey THEN {"pEcKey"} ELSE {}
  /\ UNCHANGED wild

Succeeds ==
  /\ Running
  /\ LET s == Code[fn][pc] IN
     /\ held' = CASE s.op \in {"new", "trynew"} -> held \cup {s.res}
                  [] s.op = "free"  -> held \ {s.res}
                  [] OTHER          -> held
     /\ returned' = IF s.op = "return" THEN {s.res} ELSE returned
     /\ wild' = (wild \/ (s.op = "free" /\ s.res \notin held))
     /\ pc' = pc + 1
  /\ UNCHANGED fn

Fails ==
  /\ Running /\ Code[fn][pc].op \in {"try", "trynew"}
  /\ LET frees == Code[fn][pc].frees IN
     held' = held \ frees /\ wild' = (wild \/ ~(frees \subseteq held))
  /\ pc' = Len(Code[fn]) + 1
  /\ UNCHANGED <<fn, returned>>

EncNext == Succeeds \/ Fails \/ \E f \in DOMAIN Code : Call(f)

EncSpec == EncInit /\ [][EncNext]_encVars

-----------------------------------------------------------------------------
(* Whatever call fails, a function frees no more than what it holds, and   *)
(* one that returns keeps nothing but what it returns.  The signatures of  *)
(* SM2 are left out of the second: they keep, see below                    *)
(* (vbh_encrypt_lib.cpp:88-686).                                           *)
FreesWhatItHolds ==
  /\ ~wild
  /\ fn \notin {"none", "smxSign", "smxVerify"} /\ ~Running => held = returned

(* "pEcKey is released in vbh_sign" (vbh_encrypt_lib.h:44): a signature     *)
(* that SM2 makes keeps it, whatever the caller does with the result.      *)
KeyIsReleased ==
  fn \in {"sign", "smxSign"} /\ returned # {} => "pEcKey" \notin held
=============================================================================
