--------------------------- MODULE DecisionEngine ---------------------------
(* What a shell tells the operator to sanitize a device with: the decision *)
(* engine of vajra-erase, and the methods each shell says a device of a    *)
(* medium supports and shows of the advice.  Wording, label and            *)
(* alternative are left out.                                               *)
EXTENDS Integers, Sequences

(* The methods the engine looks for; "HostOverwrite" is both overwrites.   *)
SanitizeMethod ==
  {"CryptographicErase", "NvmeSanitizeBlock", "NvmeSanitizeCrypto", "NvmeFormat",
   "AtaEnhancedSecureErase", "AtaSecureErase", "HostOverwrite"}

(* A plausible defect: nobody asks the device, as the desktop does.        *)
SupportedByNone(shell, media) == {}

(* cmd_erase_recommend goes by the medium and always offers an overwrite;  *)
(* the desktop passes no method at all.                                    *)
Supported(shell, media) ==
  CASE shell = "desktop" -> {}
    [] shell = "cli" /\ media = "Nvme" ->
         {"NvmeSanitizeBlock", "NvmeSanitizeCrypto", "NvmeFormat", "HostOverwrite"}
    [] shell = "cli" /\ media = "SataSsd" ->
         {"AtaEnhancedSecureErase", "AtaSecureErase", "HostOverwrite"}
    [] shell = "cli" /\ media = "Sed" -> {"CryptographicErase", "HostOverwrite"}
    [] OTHER -> {"HostOverwrite"}

(* The commands the engine prefers, the best one first.                    *)
Preferred(media) ==
  CASE media = "Nvme"    -> <<"CryptographicErase", "NvmeSanitizeBlock", "NvmeFormat">>
    [] media = "SataSsd" -> <<"CryptographicErase", "AtaEnhancedSecureErase", "AtaSecureErase">>
    [] OTHER             -> <<"CryptographicErase">>

(* recommend: the best command that is supported, or else an overwrite,    *)
(* with a warning of residual risk for all but magnetic disks.             *)
Recommend(media, supported) ==
  LET best == Preferred(media)
      offered == { i \in DOMAIN best : best[i] \in supported } IN
  IF offered # {}
  THEN [method |-> best[CHOOSE i \in offered : \A j \in offered : i <= j],
        warned |-> FALSE]
  ELSE [method |-> "HostOverwrite", warned |-> media # "Hdd"]

(* What a shell shows of it.  The command line prints the warning; the     *)
(* desktop's answer has no field for a warning, only a level of assurance, *)
(* which it takes from the method.                                         *)
Shown(shell, advice) ==
  IF shell = "cli" THEN IF advice.warned THEN "warning" ELSE "none"
  ELSE IF advice.method \in {"NvmeSanitizeCrypto", "CryptographicErase",
                             "NvmeSanitizeBlock", "AtaEnhancedSecureErase"}
       THEN "High" ELSE "Moderate"

KindOf(method) == IF method = "HostOverwrite" THEN "host" ELSE "native"
=============================================================================
