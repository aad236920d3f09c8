------------------------------- MODULE Services -------------------------------
(***************************************************************************)
(* The migrations runner (extended), the requests about wallets, and the   *)
(* token prices that requests for holdings share, side by side. None reads *)
(* what another writes: the runner has its own table and ends before       *)
(* traffic opens, wallets are rows of the database, prices are in the      *)
(* memory of the process. The system does what each of the three           *)
(* specifications allows.                                                  *)
(***************************************************************************)
EXTENDS MigrationsRunner

CONSTANTS
  WalletRequest, NumWallets, Address, Chain, Same,  \* WalletRequests
  PriceRequest, NumTokens, ChunkSize                \* TokenPricing

VARIABLES
  account, wallet, setting, walletRequest, late, excused, overtaken, lost, walletFaults,
  cache, flight, queue, cool, priceRequest, asked, trouble

Wallets == INSTANCE WalletRequests WITH
  Request <- WalletRequest, request <- walletRequest, faulted <- walletFaults

Prices == INSTANCE TokenPricing WITH
  Request <- PriceRequest, request <- priceRequest

ASSUME ServicesAssumption == Wallets!NamesAssumption /\ Prices!NobodyAssumption

walletVars == <<account, wallet, setting, walletRequest, late, excused, overtaken, lost, walletFaults>>
priceVars  == <<cache, flight, queue, cool, priceRequest, asked, trouble>>

ServicesSpec == Spec /\ Wallets!Spec /\ Prices!Spec

\* The type invariants of all parts.
TypesOK == TypeOK /\ Wallets!TypeOK /\ Prices!TypeOK

\* The properties of the parts: each is stated, with the code it is about, in its module.
RequestsExplained == Wallets!RequestsExplained
UnpricedExplained == Prices!UnpricedExplained
=============================================================================
