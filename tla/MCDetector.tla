----------------------------- MODULE MCDetector -----------------------------
(* Instances of Detector for TLC: the radio modules that the program knows. *)
EXTENDS Detector

Module(bl, app, type, version, address) ==
  [bl |-> bl, app |-> app, type |-> type, version |-> version, address |-> address]

MCKinds ==
  { Module("HMIP_TRX_Bl", "DualCoPro_App", "RPI_RF_MOD", "VERSION", "NOT_SET"),
    Module("HMIP_TRX_Bl", "HMIP_TRX_App", "HMIP_RFUSB", "VERSION", "REFUSED"),
    Module("HMIP_TRX_Bl", "HMIP_TRX_App", "HMIP_RFUSB", "VERSION_4", "REFUSED"),
    (* HM-MOD-RPI-PCB, with current and old firmware, and as fake_hmrf.    *)
    Module("HMIP_TRX_Bl", "DualCoPro_App", "HM_MOD_RPI_PCB", "VERSION", "ADDRESS"),
    Module("Co_CPU_BL", "Co_CPU_App", "HM_MOD_RPI_PCB", "VERSION", "ADDRESS"),
    Module("Co_CPU_BL", "DualCoPro_App", "HM_MOD_RPI_PCB", "VERSION", "ADDRESS"),
    (* An application that does not start, and nothing at all.             *)
    Module("HMIP_TRX_Bl", Nothing, "RPI_RF_MOD", "VERSION", "ADDRESS"),
    Module(Nothing, Nothing, "NONE", Nothing, Nothing),
    (* A type that the program does not know.                              *)
    Module("HMIP_TRX_Bl", "DualCoPro_App", "OTHER", "VERSION", "REFUSED") }
=============================================================================
