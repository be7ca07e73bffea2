------------------------------- MODULE MCFetcher -------------------------------
(***************************************************************************)
(* Fetcher for TLC: a model of two files, and one of a single file.        *)
(***************************************************************************)
EXTENDS Fetcher

CONSTANTS weights, vocabulary

TwoFiles == <<weights, vocabulary>>
OneFile == <<weights>>
===============================================================================
