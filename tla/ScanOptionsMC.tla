---------------------------- MODULE ScanOptionsMC -----------------------------
EXTENDS ScanOptions

(* A frontend may ask for anything, also left of the glass. *)
AskedXMC == {-1, 42, 77, 4000}

(* So may the resolution be, down to where distances overflow. *)
AskedDpiMC == {0, 500, 9600, -2147483647}

(* A threshold below the scale, one between two of its steps, one above it. *)
AskedThresholdsMC == {-1, 41, 9000}
===============================================================================
