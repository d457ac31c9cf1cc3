---------------------------- MODULE MCWalletScript ----------------------------
EXTENDS WalletScript

\* Every combination of --ext, --ext-unpacked and --with-head.
MCArgs == [ext : BOOLEAN, extdir : BOOLEAN, withhead : BOOLEAN]
=============================================================================
