-------------------------------- MODULE CpProofs -------------------------------
(***************************************************************************)
(* Lemmas about the operators Lcp and Ipcp share.                          *)
(***************************************************************************)
EXTENDS Cp, TLAPS

(* The identifier stays a u8. *)
LEMMA NextIdType == ASSUME NEW i \in Id PROVE NextId(i) \in Id
  BY IdModulusAssumption, SMT DEF Id, NextId

(* Adopting suggestions neither adds kinds nor leaves the data type. *)
LEMMA ApplyNakType ==
  ASSUME NEW S, NEW T, NEW D, NEW d \in Options(S, D), NEW s \in Options(T, D)
  PROVE  ApplyNak(d, s) \in Options(S, D)
<1>1. PICK K \in SUBSET S : d \in [K -> D]
  BY DEF Options
<1>2. PICK L \in SUBSET T : s \in [L -> D]
  BY DEF Options
<1>3. ApplyNak(d, s) \in [K -> D]
  BY <1>1, <1>2 DEF ApplyNak
<1> QED
  BY <1>3 DEF Options

(* Dropping rejected kinds leaves a list of the same type. *)
LEMMA ApplyRejectType ==
  ASSUME NEW S, NEW D, NEW d \in Options(S, D), NEW r
  PROVE  ApplyReject(d, r) \in Options(S, D)
<1>1. PICK K \in SUBSET S : d \in [K -> D]
  BY DEF Options
<1>2. ApplyReject(d, r) \in [K \ DOMAIN r -> D]
  BY <1>1 DEF ApplyReject, Restrict
<1> QED
  BY <1>1, <1>2 DEF Options
===============================================================================
